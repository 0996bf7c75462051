----------------------------- MODULE MapsProofs -----------------------------
(***************************************************************************)
(* What the maps of the four modes keep, whatever is watched of the roads, *)
(* whatever the sea map can switch, and however many styles are asked for  *)
(* before the first of them comes.                                         *)
(***************************************************************************)
EXTENDS Maps, SequenceTheorems, TLAPS

(* Maps with these overlays, of which these can be clicked.                *)
Recs(os, cs) ==
  [style : Themes \cup {None}, coming : Seq(Themes),
   up : BOOLEAN, ready : BOOLEAN, heard : BOOLEAN, early : BOOLEAN, due : BOOLEAN,
   got : SUBSET {"airports", "aircraft"},
   on : [os -> Overlay \cup {None}], bound : [cs -> 0..2]]

\* The last style asked for is the theme of the shell, t; and a map that takes
\* layers waits for no other style, unless it took the old one for the new.
Target(t, m) ==
  /\ IF m.coming = <<>> THEN m.style = t ELSE m.coming[Len(m.coming)] = t
  /\ m.ready /\ ~m.early => m.coming = <<>>

\* Overlays have the ink of the basemap, but for those in other; a map that took
\* an old style for the new one is put right when the new one comes.
Inked(m, other) ==
  ~m.early \/ m.coming = <<>> =>
    \A o \in DOMAIN m.on \ other : m.on[o] # None => m.on[o].ink = m.style

Bound(m) ==
  \A o \in DOMAIN m.bound : m.bound[o] <= 1 /\ (m.on[o] # None => m.bound[o] = 1)

Kept(t, m, os, cs, other) ==
  /\ cs \subseteq os /\ m \in Recs(os, cs) /\ Len(m.coming) <= MaxComing
  /\ Target(t, m) /\ Inked(m, other) /\ Bound(m)

\* What is on the map is shown as asked, unless effects are about to say so.
AsSeen(m, asked) == \A o \in DOMAIN m.on : m.on[o] # None => m.on[o].seen = asked[o]

Shown(m, asked) == ~m.due => AsSeen(m, asked)

Page(os, cs, asked, other) == Kept(theme, map, os, cs, other) /\ Shown(map, asked)

MeriClickable == Meri!Overlays \ {"ring", "trail", "ghost"}

RaideInv ==
  /\ vis \in [Raide!Keys -> BOOLEAN]
  /\ jobs \subseteq {"icons", "stations then trains", "stations", "trains"}
  /\ Page(Raide!Keys, {"stations", "trains"}, Raide!Seen, {})

IlmaInv ==
  /\ vis \in [Ilma!Keys -> BOOLEAN]
  /\ jobs \subseteq {"icons", "airports", "aircraft"}
  /\ Page(Ilma!Overlays, {"airports", "aircraft"}, Ilma!Seen, {})

TieInv ==
  /\ DOMAIN vis \in Watched /\ vis \in [DOMAIN vis -> BOOLEAN]
  /\ jobs \subseteq (DOMAIN vis \cup {"install"}) \X (Themes \cup {None})
  /\ Page(DOMAIN vis \cup {"images"}, DOMAIN vis, Tie!Seen, Tie!Poi)

MeriVis(v) ==
  /\ DOMAIN v = MeriToggles \cup {"scene"} /\ v = [k \in DOMAIN v |-> v[k]]
  /\ \A k \in MeriToggles : v[k] \in BOOLEAN
  /\ v["scene"] \in Meri!Scenes

MeriInv ==
  /\ MeriVis(vis)
  /\ jobs = {}
  /\ \A o \in MeriClickable : map.bound[o] = 1
  /\ Page(Meri!Overlays, MeriClickable, Meri!Seen, {})

MapsInv ==
  /\ theme \in Themes /\ mode \in Modes \cup {None}
  /\ mode = "raide" => RaideInv
  /\ mode = "ilma" => IlmaInv
  /\ mode = "tie" => TieInv
  /\ mode = "meri" => MeriInv

-----------------------------------------------------------------------------
(* What the operations on a map leave of it.                               *)

\* n is m but for its overlays, its handlers, and what was fetched for it.
Steady(m, n) ==
  /\ n.style = m.style /\ n.coming = m.coming /\ n.up = m.up
  /\ n.ready = m.ready /\ n.heard = m.heard /\ n.early = m.early

LEMMA SteadyTarget ==
  ASSUME NEW t, NEW m, NEW n, Target(t, m), Steady(m, n)
  PROVE  Target(t, n)
BY DEF Target, Steady

\* A map that takes layers is about to have, or has, a basemap in the theme.
LEMMA ReadyStyle ==
  ASSUME NEW t, NEW m, Target(t, m), m.ready, ~m.early \/ m.coming = <<>>
  PROVE  m.style = t
BY DEF Target

LEMMA AddFields ==
  ASSUME NEW os, NEW cs, NEW m \in Recs(os, cs), NEW drawn,
         \A o \in DOMAIN drawn : drawn[o] \in Overlay
  PROVE  /\ Add(m, drawn) \in Recs(os, cs) /\ Steady(m, Add(m, drawn))
         /\ Add(m, drawn).due = m.due /\ Add(m, drawn).got = m.got
         /\ Add(m, drawn).bound = m.bound
         /\ \A o \in os : Add(m, drawn).on[o] =
              IF o \in DOMAIN drawn /\ m.on[o] = None THEN drawn[o] ELSE m.on[o]
BY DEF Add, Recs, Steady

LEMMA BindFields ==
  ASSUME NEW os, NEW cs, NEW m \in Recs(os, cs), NEW ks
  PROVE  /\ Bind(m, ks) \in Recs(os, cs) /\ Steady(m, Bind(m, ks))
         /\ Bind(m, ks).due = m.due /\ Bind(m, ks).got = m.got
         /\ Bind(m, ks).on = m.on
         /\ \A o \in cs : Bind(m, ks).bound[o] = IF o \in ks THEN 1 ELSE m.bound[o]
BY DEF Bind, Recs, Steady

LEMMA ShowFields ==
  ASSUME NEW os, NEW cs, NEW m \in Recs(os, cs), NEW seen \in [os -> BOOLEAN]
  PROVE  /\ Show(m, seen) \in Recs(os, cs) /\ Steady(m, Show(m, seen))
         /\ Show(m, seen).due = m.due /\ Show(m, seen).got = m.got
         /\ Show(m, seen).bound = m.bound
         /\ \A o \in os :
              IF m.on[o] = None THEN Show(m, seen).on[o] = None
              ELSE /\ Show(m, seen).on[o] # None
                   /\ Show(m, seen).on[o].ink = m.on[o].ink
                   /\ Show(m, seen).on[o].seen = seen[o]
<1>1. ASSUME NEW o \in os, m.on[o] # None
      PROVE  LET d == [m.on[o] EXCEPT !.seen = seen[o]]
             IN  d \in Overlay /\ d # None /\ d.ink = m.on[o].ink /\ d.seen = seen[o]
  <2>1. m.on[o] \in Overlay
    BY <1>1 DEF Recs
  <2> QED BY <2>1, MapsAssumption DEF Overlay
<1> QED BY <1>1 DEF Show, Recs, Steady

LEMMA FillFields ==
  ASSUME NEW os, NEW cs, NEW m \in Recs(os, cs), NEW fs, NEW full \in BOOLEAN
  PROVE  /\ Fill(m, fs, full) \in Recs(os, cs) /\ Steady(m, Fill(m, fs, full))
         /\ Fill(m, fs, full).due = m.due /\ Fill(m, fs, full).got = m.got
         /\ Fill(m, fs, full).bound = m.bound
         /\ \A o \in os :
              IF m.on[o] = None THEN Fill(m, fs, full).on[o] = None
              ELSE /\ Fill(m, fs, full).on[o] # None
                   /\ Fill(m, fs, full).on[o].ink = m.on[o].ink
                   /\ Fill(m, fs, full).on[o].seen = m.on[o].seen
<1>1. ASSUME NEW o \in os, m.on[o] # None
      PROVE  LET d == [m.on[o] EXCEPT !.full = full]
             IN  d \in Overlay /\ d # None /\ d.ink = m.on[o].ink /\ d.seen = m.on[o].seen
  <2>1. m.on[o] \in Overlay
    BY <1>1 DEF Recs
  <2> QED BY <2>1, MapsAssumption DEF Overlay
<1> QED BY <1>1 DEF Fill, Recs, Steady

-----------------------------------------------------------------------------
(* Each of them keeps the map in order.                                    *)

\* What is added while layers are taken has the ink of the theme, or is one of
\* the others; what can be clicked has its handlers by then.
LEMMA DrawKept ==
  ASSUME NEW t, NEW m, NEW os, NEW cs, NEW other, Kept(t, m, os, cs, other), m.ready,
         NEW n \in Recs(os, cs), Steady(m, n), n.due = m.due,
         NEW drawn,
         \A o \in DOMAIN drawn : drawn[o].ink = t \/ o \in other,
         \A o \in os : n.on[o] =
           IF o \in DOMAIN drawn /\ m.on[o] = None THEN drawn[o] ELSE m.on[o],
         \A o \in cs : n.bound[o] = 1 \/ (n.bound[o] = m.bound[o] /\ o \notin DOMAIN drawn)
  PROVE  /\ Kept(t, n, os, cs, other)
         /\ \A asked : Shown(m, asked) /\ (\A o \in DOMAIN drawn : drawn[o].seen = asked[o])
                         => Shown(n, asked)
<1>1. Target(t, n) /\ Len(n.coming) <= MaxComing
  BY SteadyTarget DEF Kept, Steady
<1>2. Inked(n, other)
  <2>1. ASSUME ~m.early \/ m.coming = <<>>,
               NEW o \in os \ other, n.on[o] # None
        PROVE  n.on[o].ink = m.style
    <3>1. m.style = t
      BY <2>1, ReadyStyle DEF Kept
    <3>2. m.on[o] # None => m.on[o].ink = m.style
      BY <2>1 DEF Kept, Inked, Recs
    <3> QED BY <2>1, <3>1, <3>2
  <2> QED BY <2>1 DEF Inked, Steady, Recs
<1>3. Bound(n)
  <2>1. ASSUME NEW o \in cs
        PROVE  n.bound[o] <= 1 /\ (n.on[o] # None => n.bound[o] = 1)
    <3>1. m.bound[o] <= 1 /\ (m.on[o] # None => m.bound[o] = 1) /\ o \in os
      BY DEF Kept, Bound, Recs
    <3> QED BY <3>1
  <2> QED BY <2>1 DEF Bound, Recs
<1>4. ASSUME NEW asked, Shown(m, asked), \A o \in DOMAIN drawn : drawn[o].seen = asked[o]
      PROVE  Shown(n, asked)
  BY <1>4 DEF Shown, AsSeen, Recs, Kept
<1> QED BY <1>1, <1>2, <1>3, <1>4 DEF Kept

LEMMA AddKept ==
  ASSUME NEW t, NEW m, NEW os, NEW cs, NEW other, Kept(t, m, os, cs, other), m.ready,
         NEW drawn,
         \A o \in DOMAIN drawn : drawn[o] \in Overlay /\ (drawn[o].ink = t \/ o \in other),
         \A o \in DOMAIN drawn \cap cs : m.bound[o] = 1
  PROVE  /\ Kept(t, Add(m, drawn), os, cs, other)
         /\ \A asked : Shown(m, asked) /\ (\A o \in DOMAIN drawn : drawn[o].seen = asked[o])
                         => Shown(Add(m, drawn), asked)
<1>1. m \in Recs(os, cs)
  BY DEF Kept
<1> QED BY <1>1, AddFields, DrawKept

LEMMA AddBindKept ==
  ASSUME NEW t, NEW m, NEW os, NEW cs, NEW other, Kept(t, m, os, cs, other), m.ready,
         NEW drawn, NEW ks,
         \A o \in DOMAIN drawn : drawn[o] \in Overlay /\ (drawn[o].ink = t \/ o \in other),
         DOMAIN drawn \cap cs \subseteq ks
  PROVE  /\ Kept(t, Bind(Add(m, drawn), ks), os, cs, other)
         /\ \A asked : Shown(m, asked) /\ (\A o \in DOMAIN drawn : drawn[o].seen = asked[o])
                         => Shown(Bind(Add(m, drawn), ks), asked)
<1> DEFINE a == Add(m, drawn)
           n == Bind(a, ks)
<1>1. m \in Recs(os, cs)
  BY DEF Kept
<1>2. /\ a \in Recs(os, cs) /\ Steady(m, a) /\ a.due = m.due /\ a.bound = m.bound
      /\ \A o \in os : a.on[o] =
           IF o \in DOMAIN drawn /\ m.on[o] = None THEN drawn[o] ELSE m.on[o]
  BY <1>1, AddFields
<1> HIDE DEF a
<1>3. /\ n \in Recs(os, cs) /\ Steady(a, n) /\ n.due = a.due /\ n.on = a.on
      /\ \A o \in cs : n.bound[o] = IF o \in ks THEN 1 ELSE a.bound[o]
  BY <1>2, BindFields
<1> HIDE DEF n
<1>4. Steady(m, n)
  BY <1>2, <1>3 DEF Steady
<1>5. Kept(t, n, os, cs, other)
      /\ \A asked : Shown(m, asked) /\ (\A o \in DOMAIN drawn : drawn[o].seen = asked[o])
                      => Shown(n, asked)
  BY <1>2, <1>3, <1>4, DrawKept
<1> QED BY <1>5 DEF n, a

\* Overlays change their looks or their data, and none is added or taken away.
LEMMA LooksKept ==
  ASSUME NEW t, NEW m, NEW os, NEW cs, NEW other, Kept(t, m, os, cs, other),
         NEW n \in Recs(os, cs), Steady(m, n), n.bound = m.bound,
         \A o \in os : IF m.on[o] = None THEN n.on[o] = None
                       ELSE n.on[o] # None /\ n.on[o].ink = m.on[o].ink
  PROVE  Kept(t, n, os, cs, other)
<1>1. Target(t, n) /\ Len(n.coming) <= MaxComing
  BY SteadyTarget DEF Kept, Steady
<1>2. Inked(n, other)
  BY DEF Inked, Steady, Recs, Kept
<1>3. Bound(n)
  BY DEF Bound, Recs, Kept
<1> QED BY <1>1, <1>2, <1>3 DEF Kept

LEMMA ShowKept ==
  ASSUME NEW t, NEW m, NEW os, NEW cs, NEW other, Kept(t, m, os, cs, other),
         NEW seen \in [os -> BOOLEAN]
  PROVE  /\ Kept(t, Show(m, seen), os, cs, other)
         /\ AsSeen(Show(m, seen), seen) /\ Shown(Show(m, seen), seen)
<1> DEFINE n == Show(m, seen)
<1>1. m \in Recs(os, cs)
  BY DEF Kept
<1>2. /\ n \in Recs(os, cs) /\ Steady(m, n) /\ n.bound = m.bound
      /\ \A o \in os : IF m.on[o] = None THEN n.on[o] = None
                       ELSE n.on[o] # None /\ n.on[o].ink = m.on[o].ink /\ n.on[o].seen = seen[o]
  BY <1>1, ShowFields
<1> HIDE DEF n
<1>3. Kept(t, n, os, cs, other)
  BY <1>2, LooksKept
<1>4. AsSeen(n, seen) /\ Shown(n, seen)
  BY <1>2 DEF Shown, AsSeen, Recs
<1> QED BY <1>3, <1>4 DEF n

LEMMA FillKept ==
  ASSUME NEW t, NEW m, NEW os, NEW cs, NEW other, Kept(t, m, os, cs, other),
         NEW fs, NEW full \in BOOLEAN
  PROVE  /\ Kept(t, Fill(m, fs, full), os, cs, other)
         /\ \A asked : AsSeen(m, asked) => AsSeen(Fill(m, fs, full), asked)
         /\ \A asked : Shown(m, asked) => Shown(Fill(m, fs, full), asked)
<1> DEFINE n == Fill(m, fs, full)
<1>1. m \in Recs(os, cs)
  BY DEF Kept
<1>2. /\ n \in Recs(os, cs) /\ Steady(m, n) /\ n.bound = m.bound /\ n.due = m.due
      /\ \A o \in os : IF m.on[o] = None THEN n.on[o] = None
                       ELSE n.on[o] # None /\ n.on[o].ink = m.on[o].ink /\ n.on[o].seen = m.on[o].seen
  BY <1>1, FillFields
<1> HIDE DEF n
<1>3. Kept(t, n, os, cs, other)
  BY <1>2, LooksKept
<1>4. ASSUME NEW asked, AsSeen(m, asked) PROVE AsSeen(n, asked)
  BY <1>1, <1>2, <1>4 DEF AsSeen, Recs
<1>5. ASSUME NEW asked, Shown(m, asked) PROVE Shown(n, asked)
  BY <1>2, <1>4, <1>5 DEF Shown
<1> QED BY <1>3, <1>4, <1>5 DEF n

\* Data is kept for the style that comes next.
LEMMA GotKept ==
  ASSUME NEW t, NEW m, NEW os, NEW cs, NEW other, Kept(t, m, os, cs, other),
         NEW k \in {"airports", "aircraft"}
  PROVE  LET n == [m EXCEPT !.got = @ \cup {k}]
         IN  /\ Kept(t, n, os, cs, other)
             /\ \A asked : Shown(m, asked) => Shown(n, asked)
<1> DEFINE n == [m EXCEPT !.got = @ \cup {k}]
<1>1. m \in Recs(os, cs)
  BY DEF Kept
<1>2. /\ n \in Recs(os, cs) /\ Steady(m, n) /\ n.bound = m.bound /\ n.due = m.due
      /\ n.on = m.on
  BY <1>1 DEF Recs, Steady
<1> HIDE DEF n
<1>3. Kept(t, n, os, cs, other)
  BY <1>2, LooksKept
<1>4. ASSUME NEW asked, Shown(m, asked) PROVE Shown(n, asked)
  BY <1>2, <1>4 DEF Shown, AsSeen
<1> QED BY <1>3, <1>4 DEF n

LEMMA DueKept ==
  ASSUME NEW t, NEW m, NEW os, NEW cs, NEW other, Kept(t, m, os, cs, other),
         NEW b \in BOOLEAN
  PROVE  LET n == [m EXCEPT !.due = b]
         IN  /\ Kept(t, n, os, cs, other)
             /\ n.due = b /\ n.on = m.on /\ n.bound = m.bound
<1> DEFINE n == [m EXCEPT !.due = b]
<1>1. m \in Recs(os, cs)
  BY DEF Kept
<1>2. /\ n \in Recs(os, cs) /\ Steady(m, n) /\ n.bound = m.bound /\ n.due = b
      /\ n.on = m.on
  BY <1>1 DEF Recs, Steady
<1> HIDE DEF n
<1>3. Kept(t, n, os, cs, other)
  BY <1>2, LooksKept
<1> QED BY <1>2, <1>3 DEF n

-----------------------------------------------------------------------------
(* The events of a map, from its birth.                                    *)

\* Of the styles asked for, the last one stays the last.
LEMMA Appended ==
  ASSUME NEW c \in Seq(Themes), NEW u \in Themes
  PROVE  /\ Append(c, u) \in Seq(Themes) /\ Len(Append(c, u)) = Len(c) + 1
         /\ Append(c, u) # <<>> /\ Append(c, u)[Len(Append(c, u))] = u
OBVIOUS

LEMMA Taken ==
  ASSUME NEW c \in Seq(Themes), c # <<>>
  PROVE  /\ Head(c) \in Themes /\ Tail(c) \in Seq(Themes) /\ Len(Tail(c)) = Len(c) - 1
         /\ Tail(c) = <<>> => Head(c) = c[Len(c)]
         /\ Tail(c) # <<>> => Tail(c)[Len(Tail(c))] = c[Len(c)]
<1>1. Len(c) \in Nat \ {0}
  BY EmptySeq
<1>2. /\ Head(c) \in Themes /\ Tail(c) \in Seq(Themes) /\ Len(Tail(c)) = Len(c) - 1
      /\ \A i \in 1 .. Len(Tail(c)) : Tail(c)[i] = c[i + 1]
  BY HeadTailProperties
<1>3. Head(c) = c[1]
  OBVIOUS
<1>4. ASSUME Tail(c) = <<>> PROVE Len(c) = 1
  <2>1. Len(Tail(c)) = Len(<<>>)
    BY <1>4
  <2>2. Len(<<>>) = 0
    OBVIOUS
  <2>3. Len(c) - 1 = 0
    BY <1>2, <2>1, <2>2
  <2> QED BY <1>1, <2>3
<1>5. Tail(c) # <<>> => Len(Tail(c)) \in Nat \ {0}
  BY <1>2, EmptySeq
<1>6. Tail(c) # <<>> => Tail(c)[Len(Tail(c))] = c[Len(c)]
  BY <1>1, <1>2, <1>5
<1> QED BY <1>2, <1>3, <1>4, <1>6

LEMMA NewKept ==
  ASSUME theme \in Themes, NEW os, NEW cs \in SUBSET os, NEW other
  PROVE  /\ Kept(theme, NewMap(os, cs), os, cs, other)
         /\ \A asked : Shown(NewMap(os, cs), asked)
<1> DEFINE n == NewMap(os, cs)
<1>1. /\ n \in Recs(os, cs)
      /\ n.coming = <<theme>> /\ ~n.ready
      /\ n.on = [o \in os |-> None] /\ n.bound = [o \in cs |-> 0]
  BY DEF NewMap, Recs
<1> HIDE DEF n
<1>2. Kept(theme, n, os, cs, other)
  BY <1>1, StyledMapAssumption DEF Kept, Target, Inked, Bound, Recs
<1>3. \A asked : Shown(n, asked)
  BY <1>1 DEF Shown, AsSeen
<1> QED BY <1>2, <1>3 DEF n

\* A theme is chosen: its style is the last one asked for.
LEMMA SetStyleKept ==
  ASSUME NEW t, NEW u \in Themes, NEW m, NEW os, NEW cs, NEW other,
         Kept(t, m, os, cs, other), Len(m.coming) < MaxComing
  PROVE  /\ Kept(u, SetStyle(m, u), os, cs, other) /\ SetStyle(m, u).bound = m.bound
         /\ \A asked : Shown(m, asked) => Shown(SetStyle(m, u), asked)
<1> DEFINE n == SetStyle(m, u)
<1>1. m \in Recs(os, cs) /\ m.coming \in Seq(Themes)
  BY DEF Kept, Recs
<1>2. /\ n \in Recs(os, cs)
      /\ n.coming = Append(m.coming, u) /\ ~n.ready /\ n.early = m.early
      /\ n.style = m.style /\ n.on = m.on /\ n.bound = m.bound /\ n.due = m.due
  <2>1. Append(m.coming, u) \in Seq(Themes)
    BY <1>1, Appended
  <2> QED BY <1>1, <2>1 DEF SetStyle, Recs
<1> HIDE DEF n
<1>3. /\ n.coming # <<>> /\ Len(n.coming) <= MaxComing
      /\ n.coming[Len(n.coming)] = u
  <2>1. Len(m.coming) \in Nat
    BY <1>1
  <2> QED BY <1>1, <1>2, <2>1, Appended, StyledMapAssumption
<1>4. Target(u, n)
  BY <1>2, <1>3 DEF Target
<1>5. Inked(n, other) /\ Bound(n)
  BY <1>2, <1>3 DEF Kept, Inked, Bound
<1>6. ASSUME NEW asked, Shown(m, asked) PROVE Shown(n, asked)
  BY <1>2, <1>6 DEF Shown, AsSeen
<1>7. Kept(u, n, os, cs, other)
  BY <1>2, <1>3, <1>4, <1>5 DEF Kept
<1> QED BY <1>2, <1>6, <1>7 DEF n

\* The next style comes, with nothing of ours on it.
LEMMA ArrivesKept ==
  ASSUME NEW t, NEW os, NEW cs, NEW other, Kept(t, map, os, cs, other), StyleArrives
  PROVE  /\ Kept(t, map', os, cs, other) /\ map'.bound = map.bound
         /\ \A asked : Shown(map', asked)
<1> DEFINE c == map.coming
<1>1. map \in Recs(os, cs) /\ c \in Seq(Themes) /\ c # <<>>
  BY DEF Kept, Recs, StyleArrives
<1>2. /\ map' \in Recs(os, cs)
      /\ map'.coming = Tail(c) /\ map'.style = Head(c)
      /\ map'.ready = map.ready /\ map'.early = (map.early /\ map.ready)
      /\ map'.on = [o \in os |-> None] /\ map'.bound = map.bound
  <2>1. Head(c) \in Themes /\ Tail(c) \in Seq(Themes)
    BY <1>1, Taken
  <2> HIDE DEF c
  <2>2. map' = [map EXCEPT !.style = Head(c), !.coming = Tail(c),
                           !.early = map.early /\ map.ready,
                           !.on = [o \in DOMAIN map.on |-> None]]
    BY DEF StyleArrives, c
  <2> QED BY <1>1, <2>1, <2>2 DEF Recs
<1>3. /\ Len(Tail(c)) = Len(c) - 1 /\ Len(c) \in Nat
      /\ Tail(c) = <<>> => Head(c) = c[Len(c)]
      /\ Tail(c) # <<>> => Tail(c)[Len(Tail(c))] = c[Len(c)]
  BY <1>1, Taken
<1>4. Target(t, map')
  BY <1>1, <1>2, <1>3 DEF Kept, Target
<1>5. Inked(map', other) /\ Bound(map') /\ \A asked : Shown(map', asked)
  BY <1>2 DEF Kept, Inked, Bound, Shown, AsSeen, Recs
<1>6. Len(map'.coming) <= MaxComing
  BY <1>2, <1>3, StyledMapAssumption DEF Kept
<1> QED BY <1>2, <1>4, <1>5, <1>6 DEF Kept

\* What is heard lets the map take layers; it may be about the old style.
LEMMA HeardKept ==
  ASSUME NEW t, NEW os, NEW cs, NEW other, Kept(t, map, os, cs, other)
  PROVE  /\ Kept(t, Heard, os, cs, other) /\ Heard.ready
         /\ Heard.style = map.style /\ Heard.bound = map.bound
         /\ \A asked : Shown(map, asked) => Shown(Heard, asked)
<1> DEFINE n == Heard
<1>1. map \in Recs(os, cs)
  BY DEF Kept
<1>2. /\ n \in Recs(os, cs)
      /\ n.coming = map.coming /\ n.style = map.style
      /\ n.ready /\ n.early = (map.coming # <<>>) /\ n.due = map.due
      /\ n.on = map.on /\ n.bound = map.bound
  BY <1>1 DEF Heard, Recs
<1> HIDE DEF n
<1>3. Kept(t, n, os, cs, other) /\ \A asked : Shown(map, asked) => Shown(n, asked)
  BY <1>2 DEF Kept, Target, Inked, Bound, Shown, AsSeen
<1> QED BY <1>2, <1>3 DEF n

LEMMA LoadedKept ==
  ASSUME NEW t, NEW os, NEW cs, NEW other, Kept(t, map, os, cs, other)
  PROVE  /\ Kept(t, Loaded, os, cs, other) /\ Loaded.ready
         /\ Loaded.style = map.style /\ Loaded.bound = map.bound
         /\ \A asked : Shown(map, asked) => Shown(Loaded, asked)
<1> DEFINE n == Loaded
<1>1. map \in Recs(os, cs)
  BY DEF Kept
<1>2. /\ n \in Recs(os, cs)
      /\ n.coming = map.coming /\ n.style = map.style
      /\ n.ready /\ n.early = (map.coming # <<>>) /\ n.due = map.due
      /\ n.on = map.on /\ n.bound = map.bound
  BY <1>1 DEF Loaded, Recs
<1> HIDE DEF n
<1>3. Kept(t, n, os, cs, other) /\ \A asked : Shown(map, asked) => Shown(n, asked)
  BY <1>2 DEF Kept, Target, Inked, Bound, Shown, AsSeen
<1> QED BY <1>2, <1>3 DEF n

LEMMA ThemeKept ==
  ASSUME NEW os, NEW cs, NEW other, Kept(theme, map, os, cs, other), ThemeEffect
  PROVE  /\ theme' \in Themes
         /\ Kept(theme', map', os, cs, other) /\ map'.bound = map.bound
         /\ \A asked : Shown(map, asked) => Shown(map', asked)
<1>1. theme' \in Themes /\ map' = SetStyle(map, theme') /\ Len(map.coming) < MaxComing
  BY DEF ThemeEffect, Other, Themes, CanSwitchTheme
<1> QED BY <1>1, SetStyleKept

-----------------------------------------------------------------------------
(* The railway map.                                                        *)

RaideKept(m) ==
  Kept(theme, m, Raide!Keys, {"stations", "trains"}, {}) /\ Shown(m, Raide!Seen)

LEMMA RaideIs ==
  /\ Raide!StyleArrives <=> StyleArrives
  /\ Raide!ThemeEffect <=> ThemeEffect
  /\ Raide!Heard = Heard /\ Raide!Loaded = Loaded
  /\ \A m, o : Raide!OnMap(m, o) <=> OnMap(m, o)
  /\ \A m, d : Raide!Add(m, d) = Add(m, d)
  /\ \A m, ks : Raide!Bind(m, ks) = Bind(m, ks)
  /\ \A m, seen : Raide!Show(m, seen) = Show(m, seen)
<1>1. (Raide!StyleArrives <=> StyleArrives) /\ (Raide!ThemeEffect <=> ThemeEffect)
  BY DEF Raide!StyleArrives, StyleArrives, Raide!ThemeEffect, ThemeEffect, Raide!CanSwitchTheme,
         CanSwitchTheme, Raide!Other, Other, Raide!SetStyle, SetStyle
<1>2. Raide!Heard = Heard /\ Raide!Loaded = Loaded
  BY DEF Raide!Heard, Heard, Raide!Loaded, Loaded
<1>3. /\ \A m, o : Raide!OnMap(m, o) <=> OnMap(m, o)
      /\ \A m, d : Raide!Add(m, d) = Add(m, d)
      /\ \A m, ks : Raide!Bind(m, ks) = Bind(m, ks)
      /\ \A m, seen : Raide!Show(m, seen) = Show(m, seen)
  BY DEF Raide!OnMap, OnMap, Raide!Add, Add, Raide!Bind, Bind, Raide!Show, Show
<1> QED BY <1>1, <1>2, <1>3

\* What is drawn now has the ink of the theme and is shown as asked.
LEMMA RaideDrawn ==
  ASSUME theme \in Themes, vis \in [Raide!Keys -> BOOLEAN], NEW o \in Raide!Keys
  PROVE  /\ DOMAIN Raide!Drawn(o) = {o}
         /\ \A p \in {o} : /\ Raide!Drawn(o)[p] \in Overlay
                           /\ Raide!Drawn(o)[p].ink = theme
                           /\ Raide!Drawn(o)[p].seen = Raide!Seen[p]
BY DEF Raide!Drawn, Raide!AskedNow, Raide!Asked, Raide!Seen, Overlay

LEMMA RaideRail ==
  ASSUME theme \in Themes, vis \in [Raide!Keys -> BOOLEAN], NEW m, RaideKept(m)
  PROVE  RaideKept(Raide!InstallRail(m))
<1>1. CASE m.ready /\ m.style # None
  <2>1. Raide!InstallRail(m) = Add(m, Raide!Drawn("tracks"))
    BY <1>1, RaideIs DEF Raide!InstallRail
  <2>2. "tracks" \in Raide!Keys /\ "tracks" \notin {"stations", "trains"}
    BY DEF Raide!Keys
  <2> DEFINE d == Raide!Drawn("tracks")
  <2>3. /\ DOMAIN d \cap {"stations", "trains"} = {}
        /\ \A p \in DOMAIN d : d[p] \in Overlay /\ d[p].ink = theme /\ d[p].seen = Raide!Seen[p]
    BY <2>2, RaideDrawn
  <2> HIDE DEF d
  <2>4. RaideKept(Add(m, d))
    BY <1>1, <2>3, AddKept DEF RaideKept
  <2> QED BY <2>1, <2>4 DEF d
<1>2. CASE ~(m.ready /\ m.style # None)
  BY <1>2 DEF Raide!InstallRail
<1> QED BY <1>1, <1>2

LEMMA RaideDraws ==
  ASSUME theme \in Themes, vis \in [Raide!Keys -> BOOLEAN], NEW m, RaideKept(m),
         NEW o \in {"stations", "trains"}
  PROVE  RaideKept(Raide!Draws(m, o))
<1>1. CASE OnMap(m, o) \/ ~m.ready
  BY <1>1, RaideIs DEF Raide!Draws
<1>2. CASE ~OnMap(m, o) /\ m.ready
  <2>1. Raide!Draws(m, o) = Bind(Add(m, Raide!Drawn(o)), {o})
    BY <1>2, RaideIs DEF Raide!Draws
  <2>2. o \in Raide!Keys
    BY DEF Raide!Keys
  <2> DEFINE d == Raide!Drawn(o)
  <2>3. /\ DOMAIN d = {o}
        /\ \A p \in DOMAIN d : d[p] \in Overlay /\ d[p].ink = theme /\ d[p].seen = Raide!Seen[p]
    BY <2>2, RaideDrawn
  <2> HIDE DEF d
  <2>4. RaideKept(Bind(Add(m, d), {o}))
    BY <1>2, <2>3, AddBindKept DEF RaideKept
  <2> QED BY <2>1, <2>4 DEF d
<1> QED BY <1>1, <1>2

LEMMA RaideStep ==
  ASSUME theme \in Themes, RaideInv, Raide!Next
  PROVE  theme' \in Themes /\ RaideInv'
<1> DEFINE Calls == {"icons", "stations then trains", "stations", "trains"}
<1>0. RaideKept(map) /\ vis \in [Raide!Keys -> BOOLEAN] /\ jobs \subseteq Calls
  BY DEF RaideInv, Page, RaideKept
<1>u. ASSUME UNCHANGED <<theme, vis>>, RaideKept(map'), jobs' \subseteq Calls
      PROVE  theme' \in Themes /\ RaideInv'
  <2>1. Raide!Seen' = Raide!Seen
    BY <1>u DEF Raide!Seen, Raide!Asked
  <2> QED BY <1>0, <1>u, <2>1 DEF RaideInv, Page, RaideKept
<1>1. CASE Raide!StyleArrives
  <2>1. RaideKept(map') /\ UNCHANGED <<theme, vis, jobs>>
    BY <1>0, <1>1, RaideIs, ArrivesKept DEF RaideKept, StyleArrives
  <2> QED BY <1>0, <1>u, <2>1
<1>2. CASE Raide!OnLoad
  <2>1. map' = Raide!InstallRail(Loaded) /\ jobs' = jobs \cup {"icons"} /\ UNCHANGED <<theme, vis>>
    BY <1>2, RaideIs DEF Raide!OnLoad, Raide!Install, Raide!Start
  <2>2. RaideKept(Loaded)
    BY <1>0, LoadedKept DEF RaideKept
  <2> QED BY <1>0, <1>u, <2>1, <2>2, RaideRail
<1>3. CASE Raide!OnReady
  <2>1. map' = Raide!InstallRail(Heard) /\ jobs' = jobs \cup {"icons"} /\ UNCHANGED <<theme, vis>>
    BY <1>3, RaideIs DEF Raide!OnReady, Raide!Install, Raide!Start
  <2>2. RaideKept(Heard)
    BY <1>0, HeardKept DEF RaideKept
  <2> QED BY <1>0, <1>u, <2>1, <2>2, RaideRail
<1>4. CASE Raide!IconsLoaded
  BY <1>0, <1>4, <1>u DEF Raide!IconsLoaded
<1>5. ASSUME NEW o \in Raide!Fetched, NEW ok \in BOOLEAN, Raide!Answer(o, ok)
      PROVE  theme' \in Themes /\ RaideInv'
  <2>1. \/ map' = map
        \/ map' = Raide!Draws(map, "stations") \/ map' = Raide!Draws(map, "trains")
    BY <1>5 DEF Raide!Answer, Raide!StationsAnswer, Raide!TrainsAnswer
  <2>2. RaideKept(map')
    BY <1>0, <2>1, RaideDraws
  <2>3. UNCHANGED <<theme, vis>> /\ jobs' \subseteq Calls
    BY <1>0, <1>5 DEF Raide!Answer, Raide!StationsAnswer, Raide!TrainsAnswer
  <2> QED BY <1>u, <2>2, <2>3
<1>6. ASSUME NEW o \in Raide!Fetched, Raide!Poll(o)
      PROVE  theme' \in Themes /\ RaideInv'
  BY <1>0, <1>6, <1>u DEF Raide!Poll, Raide!Start, Raide!Fetched
<1>7. CASE Raide!ThemeEffect
  <2>1. ThemeEffect /\ UNCHANGED <<vis, jobs>>
    BY <1>7, RaideIs DEF ThemeEffect
  <2>2. Raide!Seen' = Raide!Seen
    BY <2>1 DEF Raide!Seen, Raide!Asked
  <2> QED BY <1>0, <2>1, <2>2, ThemeKept DEF RaideInv, Page, RaideKept
<1>8. ASSUME NEW v \in [Raide!Keys -> BOOLEAN], Raide!SetVisibility(v)
      PROVE  theme' \in Themes /\ RaideInv'
  <2>1. vis' = v /\ map' = Show(map, Raide!Seen') /\ UNCHANGED <<theme, jobs>>
    BY <1>8, RaideIs DEF Raide!SetVisibility
  <2>2. Raide!Seen' \in [Raide!Keys -> BOOLEAN]
    BY <2>1 DEF Raide!Seen, Raide!Asked
  <2>3. /\ Kept(theme, map', Raide!Keys, {"stations", "trains"}, {})
        /\ Shown(map', Raide!Seen')
    BY <1>0, <2>1, <2>2, ShowKept DEF RaideKept
  <2> QED BY <1>0, <2>1, <2>3 DEF RaideInv, Page
<1>9. ASSUME NEW k \in Raide!Keys, Raide!ToggleLayer(k)
      PROVE  theme' \in Themes /\ RaideInv'
  BY <1>0, <1>8, <1>9 DEF Raide!ToggleLayer
<1>10. CASE Raide!ShowAllGroups
  BY <1>0, <1>8, <1>10 DEF Raide!ShowAllGroups
<1> QED BY <1>1, <1>2, <1>3, <1>4, <1>5, <1>6, <1>7, <1>9, <1>10 DEF Raide!Next

-----------------------------------------------------------------------------
(* The air traffic map.                                                    *)

IlmaClickable == {"airports", "aircraft"}

IlmaKept(m) == Kept(theme, m, Ilma!Overlays, IlmaClickable, {})

LEMMA IlmaIs ==
  /\ Ilma!StyleArrives <=> StyleArrives
  /\ Ilma!ThemeEffect <=> ThemeEffect
  /\ Ilma!Heard = Heard /\ Ilma!Loaded = Loaded
  /\ \A m, o : Ilma!OnMap(m, o) <=> OnMap(m, o)
  /\ \A m, d : Ilma!Add(m, d) = Add(m, d)
  /\ \A m, ks : Ilma!Bind(m, ks) = Bind(m, ks)
  /\ \A m, seen : Ilma!Show(m, seen) = Show(m, seen)
  /\ \A m, fs, full : Ilma!Fill(m, fs, full) = Fill(m, fs, full)
<1>1. (Ilma!StyleArrives <=> StyleArrives) /\ (Ilma!ThemeEffect <=> ThemeEffect)
  BY DEF Ilma!StyleArrives, StyleArrives, Ilma!ThemeEffect, ThemeEffect, Ilma!CanSwitchTheme,
         CanSwitchTheme, Ilma!Other, Other, Ilma!SetStyle, SetStyle
<1>2. Ilma!Heard = Heard /\ Ilma!Loaded = Loaded
  BY DEF Ilma!Heard, Heard, Ilma!Loaded, Loaded
<1>3. /\ \A m, o : Ilma!OnMap(m, o) <=> OnMap(m, o)
      /\ \A m, d : Ilma!Add(m, d) = Add(m, d)
      /\ \A m, ks : Ilma!Bind(m, ks) = Bind(m, ks)
      /\ \A m, seen : Ilma!Show(m, seen) = Show(m, seen)
      /\ \A m, fs, full : Ilma!Fill(m, fs, full) = Fill(m, fs, full)
  BY DEF Ilma!OnMap, OnMap, Ilma!Add, Add, Ilma!Bind, Bind, Ilma!Show, Show, Ilma!Fill, Fill
<1> QED BY <1>1, <1>2, <1>3

LEMMA IlmaAskedIs ==
  ASSUME NEW o
  PROVE  Ilma!Asked(o) = IF o = "labels" THEN vis["aircraft"] /\ vis["labels"]
                         ELSE IF o = "selection" THEN TRUE ELSE vis[o]
<1>1. "labels" # "selection"
  OBVIOUS
<1> QED BY <1>1, Zenon DEF Ilma!Asked

LEMMA IlmaSeen ==
  ASSUME vis \in [Ilma!Keys -> BOOLEAN]
  PROVE  Ilma!Seen \in [Ilma!Overlays -> BOOLEAN]
<1>1. \A o \in Ilma!Overlays : Ilma!Asked(o) \in BOOLEAN
  BY IlmaAskedIs DEF Ilma!Overlays, Ilma!Keys
<1> QED BY <1>1 DEF Ilma!Seen

\* What is installed is filled with what has been fetched, whatever that is.
LEMMA IlmaDrawn ==
  ASSUME theme \in Themes, NEW m, NEW os, NEW data
  PROVE  \E d : /\ Ilma!Installed(m, os, data) = Add(m, d) /\ DOMAIN d = os
                /\ \A o \in DOMAIN d : d[o] \in Overlay /\ d[o].ink = theme
<1> DEFINE d == [o \in os |-> [ink |-> theme, seen |-> TRUE, full |-> data \in m.got]]
<1>1. Ilma!Installed(m, os, data) = Add(m, d)
  BY IlmaIs DEF Ilma!Installed
<1>2. DOMAIN d = os /\ \A o \in DOMAIN d : d[o] \in Overlay /\ d[o].ink = theme
  BY DEF Overlay
<1> HIDE DEF d
<1> QED BY <1>1, <1>2

LEMMA IlmaInstalls ==
  ASSUME theme \in Themes, NEW m, IlmaKept(m), m.ready
  PROVE  /\ IlmaKept(Ilma!InstallAirports(m)) /\ Ilma!InstallAirports(m).ready
         /\ IlmaKept(Ilma!InstallSelection(m)) /\ Ilma!InstallSelection(m).ready
         /\ IlmaKept(Ilma!InstallAircraft(m)) /\ Ilma!InstallAircraft(m).ready
<1>0. m \in Recs(Ilma!Overlays, IlmaClickable)
  BY DEF IlmaKept, Kept
<1>1. ASSUME NEW d, NEW ks, \A o \in DOMAIN d : d[o] \in Overlay /\ d[o].ink = theme,
             DOMAIN d \cap IlmaClickable \subseteq ks
      PROVE  IlmaKept(Bind(Add(m, d), ks)) /\ Bind(Add(m, d), ks).ready
  <2>1. Add(m, d).ready /\ Add(m, d) \in Recs(Ilma!Overlays, IlmaClickable)
    BY <1>0, <1>1, AddFields DEF Steady
  <2>2. Bind(Add(m, d), ks).ready
    BY <2>1, BindFields DEF Steady
  <2> QED BY <1>1, <2>2, AddBindKept DEF IlmaKept
<1>2. IlmaKept(Ilma!InstallAirports(m)) /\ Ilma!InstallAirports(m).ready
  <2>1. CASE OnMap(m, "airports")
    BY <2>1, IlmaIs DEF Ilma!InstallAirports
  <2>2. CASE ~OnMap(m, "airports")
    <3>1. PICK d : /\ Ilma!Installed(m, {"airports"}, "airports") = Add(m, d)
                   /\ DOMAIN d = {"airports"}
                   /\ \A o \in DOMAIN d : d[o] \in Overlay /\ d[o].ink = theme
      BY IlmaDrawn
    <3>2. Ilma!InstallAirports(m) = Bind(Add(m, d), {"airports"})
      BY <2>2, <3>1, IlmaIs DEF Ilma!InstallAirports
    <3> QED BY <1>1, <3>1, <3>2
  <2> QED BY <2>1, <2>2
<1>3. IlmaKept(Ilma!InstallSelection(m)) /\ Ilma!InstallSelection(m).ready
  <2>1. PICK d : /\ Ilma!Installed(m, {"selection"}, "nothing") = Add(m, d)
                 /\ DOMAIN d = {"selection"}
                 /\ \A o \in DOMAIN d : d[o] \in Overlay /\ d[o].ink = theme
    BY IlmaDrawn
  <2>2. DOMAIN d \cap IlmaClickable = {}
    BY <2>1 DEF IlmaClickable
  <2>3. Add(m, d).ready
    BY <1>0, <2>1, AddFields DEF Steady
  <2>4. IlmaKept(Add(m, d))
    BY <2>1, <2>2, AddKept DEF IlmaKept
  <2> QED BY <2>1, <2>3, <2>4 DEF Ilma!InstallSelection
<1>4. IlmaKept(Ilma!InstallAircraft(m)) /\ Ilma!InstallAircraft(m).ready
  <2>1. CASE OnMap(m, "aircraft")
    BY <2>1, IlmaIs DEF Ilma!InstallAircraft
  <2>2. CASE ~OnMap(m, "aircraft")
    <3>1. PICK d : /\ Ilma!Installed(m, {"aircraft", "labels"}, "aircraft") = Add(m, d)
                   /\ DOMAIN d = {"aircraft", "labels"}
                   /\ \A o \in DOMAIN d : d[o] \in Overlay /\ d[o].ink = theme
      BY IlmaDrawn
    <3>2. Ilma!InstallAircraft(m) = Bind(Add(m, d), {"aircraft"})
      BY <2>2, <3>1, IlmaIs DEF Ilma!InstallAircraft
    <3>3. DOMAIN d \cap IlmaClickable \subseteq {"aircraft"}
      BY <3>1 DEF IlmaClickable
    <3> QED BY <1>1, <3>1, <3>2, <3>3
  <2> QED BY <2>1, <2>2
<1> QED BY <1>2, <1>3, <1>4

LEMMA IlmaRender ==
  ASSUME NEW m, IlmaKept(m)
  PROVE  /\ IlmaKept(Ilma!Render(m))
         /\ \A asked : Shown(m, asked) => Shown(Ilma!Render(m), asked)
<1> DEFINE full == "aircraft" \in m.got
           fs == {"aircraft", "labels", "selection"}
<1>1. full \in BOOLEAN
  OBVIOUS
<1>2. Ilma!Render(m) = IF m.ready THEN Fill(m, fs, full) ELSE m
  BY IlmaIs DEF Ilma!Render
<1> HIDE DEF full, fs
<1> QED BY <1>1, <1>2, FillKept DEF IlmaKept

\* Whatever was added by the install is shown as asked at its end.
LEMMA IlmaInstallAll ==
  ASSUME theme \in Themes, vis \in [Ilma!Keys -> BOOLEAN], NEW m, IlmaKept(m), m.ready
  PROVE  IlmaKept(Ilma!InstallAll(m)) /\ Shown(Ilma!InstallAll(m), Ilma!Seen)
<1> DEFINE a == Ilma!InstallAirports(m)
           b == Ilma!InstallSelection(a)
           c == Ilma!InstallAircraft(b)
           d == Show(c, Ilma!Seen)
<1>1. IlmaKept(a) /\ a.ready
  BY IlmaInstalls
<1> HIDE DEF a
<1>2. IlmaKept(b) /\ b.ready
  BY <1>1, IlmaInstalls
<1> HIDE DEF b
<1>3. IlmaKept(c)
  BY <1>2, IlmaInstalls
<1> HIDE DEF c
<1>4. IlmaKept(d) /\ Shown(d, Ilma!Seen)
  BY <1>3, IlmaSeen, ShowKept DEF IlmaKept
<1> HIDE DEF d
<1>5. Ilma!InstallAll(m) = Ilma!Render(d)
  BY IlmaIs DEF Ilma!InstallAll, a, b, c, d
<1> QED BY <1>4, <1>5, IlmaRender

LEMMA IlmaStep ==
  ASSUME theme \in Themes, IlmaInv, Ilma!Next
  PROVE  theme' \in Themes /\ IlmaInv'
<1> DEFINE Calls == {"icons", "airports", "aircraft"}
<1>0. /\ IlmaKept(map) /\ Shown(map, Ilma!Seen)
      /\ vis \in [Ilma!Keys -> BOOLEAN] /\ jobs \subseteq Calls
  BY DEF IlmaInv, Page, IlmaKept, IlmaClickable
<1>u. ASSUME UNCHANGED <<theme, vis>>, IlmaKept(map'), Shown(map', Ilma!Seen),
             jobs' \subseteq Calls
      PROVE  theme' \in Themes /\ IlmaInv'
  <2>1. Ilma!Seen' = Ilma!Seen
    BY <1>u, Zenon DEF Ilma!Seen, Ilma!Asked
  <2> QED BY <1>0, <1>u, <2>1 DEF IlmaInv, Page, IlmaKept, IlmaClickable
<1>1. CASE Ilma!StyleArrives
  <2>1. /\ IlmaKept(map') /\ Shown(map', Ilma!Seen)
        /\ UNCHANGED <<theme, vis, jobs>>
    BY <1>0, <1>1, IlmaIs, ArrivesKept DEF IlmaKept, StyleArrives
  <2> QED BY <1>0, <1>u, <2>1
<1>2. CASE Ilma!OnLoad
  <2>1. map' = Loaded /\ jobs' \subseteq Calls /\ UNCHANGED <<theme, vis>>
    BY <1>0, <1>2, IlmaIs DEF Ilma!OnLoad, Ilma!Start, Ilma!Fetched
  <2>2. IlmaKept(Loaded) /\ Shown(Loaded, Ilma!Seen)
    BY <1>0, LoadedKept DEF IlmaKept
  <2> QED BY <1>u, <2>1, <2>2
<1>3. CASE Ilma!OnReady
  <2>1. map' = Heard /\ jobs' \subseteq Calls /\ UNCHANGED <<theme, vis>>
    BY <1>0, <1>3, IlmaIs DEF Ilma!OnReady, Ilma!Start
  <2>2. IlmaKept(Heard) /\ Shown(Heard, Ilma!Seen)
    BY <1>0, HeardKept DEF IlmaKept
  <2> QED BY <1>u, <2>1, <2>2
<1>4. CASE Ilma!IconsLoaded
  <2>1. /\ map' = IF map.ready THEN Ilma!InstallAll(map) ELSE map
        /\ jobs' \subseteq Calls /\ UNCHANGED <<theme, vis>>
    BY <1>0, <1>4 DEF Ilma!IconsLoaded
  <2> QED BY <1>0, <1>u, <2>1, IlmaInstallAll
<1>5. ASSUME NEW ok \in BOOLEAN, Ilma!FetchAircraft(ok)
      PROVE  theme' \in Themes /\ IlmaInv'
  <2> DEFINE n == [map EXCEPT !.got = @ \cup {"aircraft"}]
  <2>1. IlmaKept(n) /\ Shown(n, Ilma!Seen)
    BY <1>0, GotKept DEF IlmaKept
  <2>2. map' = (IF ok THEN Ilma!Render(n) ELSE map)
        /\ jobs' \subseteq Calls /\ UNCHANGED <<theme, vis>>
    BY <1>0, <1>5 DEF Ilma!FetchAircraft
  <2> HIDE DEF n
  <2>3. IlmaKept(Ilma!Render(n)) /\ Shown(Ilma!Render(n), Ilma!Seen)
    BY <2>1, IlmaRender
  <2> QED BY <1>0, <1>u, <2>2, <2>3
<1>6. ASSUME NEW ok \in BOOLEAN, Ilma!FetchAirports(ok)
      PROVE  theme' \in Themes /\ IlmaInv'
  <2> DEFINE n == [map EXCEPT !.got = @ \cup {"airports"}]
  <2>1. IlmaKept(n) /\ Shown(n, Ilma!Seen)
    BY <1>0, GotKept DEF IlmaKept
  <2>2. map' = (IF ok THEN Fill(n, {"airports"}, TRUE) ELSE map)
        /\ jobs' \subseteq Calls /\ UNCHANGED <<theme, vis>>
    BY <1>0, <1>6, IlmaIs DEF Ilma!FetchAirports
  <2> HIDE DEF n
  <2>3. IlmaKept(Fill(n, {"airports"}, TRUE)) /\ Shown(Fill(n, {"airports"}, TRUE), Ilma!Seen)
    BY <2>1, FillKept DEF IlmaKept
  <2> QED BY <1>0, <1>u, <2>2, <2>3
<1>7. ASSUME NEW o \in Ilma!Fetched, Ilma!Poll(o)
      PROVE  theme' \in Themes /\ IlmaInv'
  BY <1>0, <1>7, <1>u DEF Ilma!Poll, Ilma!Start, Ilma!Fetched
<1>8. CASE Ilma!ThemeEffect
  <2>1. ThemeEffect /\ UNCHANGED <<vis, jobs>>
    BY <1>8, IlmaIs DEF ThemeEffect
  <2>2. Ilma!Seen' = Ilma!Seen
    BY <2>1, Zenon DEF Ilma!Seen, Ilma!Asked
  <2> QED BY <1>0, <2>1, <2>2, ThemeKept DEF IlmaInv, Page, IlmaKept, IlmaClickable
<1>9. ASSUME NEW v \in [Ilma!Keys -> BOOLEAN], Ilma!SetVisibility(v)
      PROVE  theme' \in Themes /\ IlmaInv'
  <2>1. vis' = v /\ map' = Show(map, Ilma!Seen') /\ UNCHANGED <<theme, jobs>>
    BY <1>9, IlmaIs DEF Ilma!SetVisibility
  <2>2. Ilma!Seen' \in [Ilma!Overlays -> BOOLEAN]
    <3>1. \A o : Ilma!Asked(o)' = IF o = "labels" THEN vis'["aircraft"] /\ vis'["labels"]
                                  ELSE IF o = "selection" THEN TRUE ELSE vis'[o]
      <4>1. "labels" # "selection"
        OBVIOUS
      <4> QED BY <4>1, Zenon DEF Ilma!Asked
    <3>2. \A o \in Ilma!Overlays : Ilma!Asked(o)' \in BOOLEAN
      BY <2>1, <3>1 DEF Ilma!Overlays, Ilma!Keys
    <3> QED BY <3>2 DEF Ilma!Seen
  <2>3. /\ Kept(theme, map', Ilma!Overlays, IlmaClickable, {})
        /\ Shown(map', Ilma!Seen')
    BY <1>0, <2>1, <2>2, ShowKept DEF IlmaKept
  <2> QED BY <1>0, <2>1, <2>3 DEF IlmaInv, Page, IlmaClickable
<1>10. ASSUME NEW k \in Ilma!Keys, Ilma!ToggleLayer(k)
       PROVE  theme' \in Themes /\ IlmaInv'
  BY <1>0, <1>9, <1>10 DEF Ilma!ToggleLayer
<1>11. CASE Ilma!ShowAllGroups
  BY <1>0, <1>9, <1>11 DEF Ilma!ShowAllGroups
<1> QED BY <1>1, <1>2, <1>3, <1>4, <1>5, <1>6, <1>7, <1>8, <1>10, <1>11
        DEF Ilma!Next, Ilma!Answer

-----------------------------------------------------------------------------
(* The road map.                                                           *)

TieKept(m) ==
  /\ Kept(theme, m, DOMAIN vis \cup {"images"}, DOMAIN vis, Tie!Poi)
  /\ Shown(m, Tie!Seen)

TieCalls == (DOMAIN vis \cup {"install"}) \X (Themes \cup {None})

LEMMA TieIs ==
  /\ Tie!StyleArrives <=> StyleArrives
  /\ Tie!ThemeEffect <=> ThemeEffect
  /\ Tie!Heard = Heard /\ Tie!Loaded = Loaded /\ Tie!Themes = Themes
  /\ \A m, o : Tie!OnMap(m, o) <=> OnMap(m, o)
  /\ \A m, d : Tie!Add(m, d) = Add(m, d)
  /\ \A m, ks : Tie!Bind(m, ks) = Bind(m, ks)
  /\ \A m, seen : Tie!Show(m, seen) = Show(m, seen)
<1>1. (Tie!StyleArrives <=> StyleArrives) /\ (Tie!ThemeEffect <=> ThemeEffect)
  BY DEF Tie!StyleArrives, StyleArrives, Tie!ThemeEffect, ThemeEffect, Tie!CanSwitchTheme,
         CanSwitchTheme, Tie!Other, Other, Tie!SetStyle, SetStyle
<1>2. Tie!Heard = Heard /\ Tie!Loaded = Loaded /\ Tie!Themes = Themes
  BY DEF Tie!Heard, Heard, Tie!Loaded, Loaded, Tie!Themes, Themes
<1>3. /\ \A m, o : Tie!OnMap(m, o) <=> OnMap(m, o)
      /\ \A m, d : Tie!Add(m, d) = Add(m, d)
      /\ \A m, ks : Tie!Bind(m, ks) = Bind(m, ks)
      /\ \A m, seen : Tie!Show(m, seen) = Show(m, seen)
  BY DEF Tie!OnMap, OnMap, Tie!Add, Add, Tie!Bind, Bind, Tie!Show, Show
<1> QED BY <1>1, <1>2, <1>3

\* The overlays of the road map are what is watched, and the images.
LEMMA TieFeeds ==
  ASSUME TieInv
  PROVE  /\ TieKept(map) /\ "images" \notin DOMAIN vis /\ "stations" \in DOMAIN vis
         /\ Tie!Feeds = DOMAIN vis /\ jobs \subseteq TieCalls
<1>1. TieKept(map) /\ jobs \subseteq TieCalls /\ DOMAIN map.on = DOMAIN vis \cup {"images"}
  BY DEF TieInv, Page, TieKept, TieCalls, Kept, Recs
<1>2. "images" \notin DOMAIN vis /\ "stations" \in DOMAIN vis
  BY MapsAssumption DEF TieInv
<1> QED BY <1>1, <1>2 DEF Tie!Feeds, Tie!Overlays

\* What is drawn is shown as asked, in the ink it is drawn with.
LEMMA TieDrawn ==
  ASSUME vis \in [DOMAIN vis -> BOOLEAN], NEW o, o \in DOMAIN vis \/ o = "images",
         NEW ink \in Themes
  PROVE  /\ DOMAIN Tie!Drawn(ink, o) = {o}
         /\ Tie!Drawn(ink, o)[o] \in Overlay
         /\ Tie!Drawn(ink, o)[o].ink = ink
         /\ Tie!Drawn(ink, o)[o].seen = Tie!Seen[o]
<1>1. Tie!Asked(o) \in BOOLEAN
  BY DEF Tie!Asked
<1> QED BY <1>1 DEF Tie!Drawn, Tie!Seen, Overlay

LEMMA TieImages ==
  ASSUME theme \in Themes, vis \in [DOMAIN vis -> BOOLEAN], "images" \notin DOMAIN vis,
         NEW m, TieKept(m), m.ready
  PROVE  TieKept(Tie!RegisterMarkerIcons(m))
<1> DEFINE d == Tie!Drawn(theme, "images")
<1>1. Tie!RegisterMarkerIcons(m) = Add(m, d)
  BY TieIs DEF Tie!RegisterMarkerIcons
<1>2. /\ DOMAIN d \cap DOMAIN vis = {}
      /\ \A p \in DOMAIN d : d[p] \in Overlay /\ d[p].ink = theme /\ d[p].seen = Tie!Seen[p]
  <2>1. /\ DOMAIN d = {"images"} /\ d["images"] \in Overlay
        /\ d["images"].ink = theme /\ d["images"].seen = Tie!Seen["images"]
    BY TieDrawn
  <2> HIDE DEF d
  <2> QED BY <2>1
<1> HIDE DEF d
<1> QED BY <1>1, <1>2, AddKept DEF TieKept

LEMMA TieDraws ==
  ASSUME theme \in Themes, vis \in [DOMAIN vis -> BOOLEAN], NEW m, TieKept(m),
         NEW o \in DOMAIN vis, NEW ink \in Themes, ink = theme \/ o \in Tie!Poi
  PROVE  TieKept(Tie!Draws(m, o, ink))
<1>1. CASE OnMap(m, o) \/ ~m.ready
  BY <1>1, TieIs DEF Tie!Draws
<1>2. CASE ~OnMap(m, o) /\ m.ready
  <2> DEFINE d == Tie!Drawn(ink, o)
  <2>1. Tie!Draws(m, o, ink) = Bind(Add(m, d), {o})
    BY <1>2, TieIs DEF Tie!Draws
  <2>2. /\ DOMAIN d = {o}
        /\ \A p \in DOMAIN d : d[p] \in Overlay /\ d[p].ink = ink /\ d[p].seen = Tie!Seen[p]
    <3>1. DOMAIN d = {o} /\ d[o] \in Overlay /\ d[o].ink = ink /\ d[o].seen = Tie!Seen[o]
      BY TieDrawn
    <3> HIDE DEF d
    <3> QED BY <3>1
  <2> HIDE DEF d
  <2>3. TieKept(Bind(Add(m, d), {o}))
    BY <1>2, <2>2, AddBindKept DEF TieKept
  <2> QED BY <2>1, <2>3
<1> QED BY <1>1, <1>2

\* An answer draws its feed in the ink of the theme, or in that of its call.
LEMMA TieAnswers ==
  ASSUME theme \in Themes, TieInv, NEW o \in DOMAIN vis, NEW ok \in BOOLEAN, Tie!Answer(o, ok)
  PROVE  /\ UNCHANGED <<theme, vis>> /\ jobs' \subseteq TieCalls
         /\ \/ map' = map
            \/ \E ink \in Themes : /\ ink = theme \/ o \in Tie!Poi
                                   /\ map' = Tie!Draws(map, o, ink)
<1>0. jobs \subseteq TieCalls /\ Tie!Themes = Themes /\ Tie!Feeds = DOMAIN vis
  BY TieFeeds, TieIs
<1>1. ASSUME NEW ink \in Themes, ink = theme \/ o \in Tie!Poi, Tie!Settles(o, ink, ok)
      PROVE  /\ UNCHANGED <<theme, vis>> /\ jobs' \subseteq TieCalls
             /\ \/ map' = map
                \/ \E i \in Themes : /\ i = theme \/ o \in Tie!Poi
                                     /\ map' = Tie!Draws(map, o, i)
  BY <1>0, <1>1 DEF Tie!Settles
<1>2. CASE \E ink \in Themes : (ink = theme \/ o \in Tie!Poi) /\ Tie!Settles(o, ink, ok)
  BY <1>1, <1>2
<1>3. CASE o = "stations" /\ Tie!Installing \in jobs
           /\ jobs' = (jobs \ {Tie!Installing}) \cup {Tie!Call(p) : p \in Tie!Feeds \ {"stations"}}
           /\ map' = (IF ok THEN Tie!Draws(map, "stations", theme) ELSE map)
           /\ UNCHANGED <<theme, vis>>
  <2>1. \A p \in DOMAIN vis : Tie!Call(p) \in TieCalls
    BY DEF Tie!Call, TieCalls
  <2> QED BY <1>0, <1>3, <2>1
<1> QED BY <1>0, <1>2, <1>3
        DEF Tie!Answer, Tie!FetchStations, Tie!FetchPoiLayer, Tie!FetchSpeedLimits,
            Tie!FetchParking, Tie!FetchWeathercams, Tie!FetchCharging, Tie!FetchRoadWeather,
            Tie!FetchMaintenance

LEMMA TieStep ==
  ASSUME theme \in Themes, TieInv, Tie!Next
  PROVE  theme' \in Themes /\ TieInv'
<1>0. /\ TieKept(map) /\ "images" \notin DOMAIN vis /\ Tie!Feeds = DOMAIN vis
      /\ jobs \subseteq TieCalls
      /\ DOMAIN vis \in Watched /\ vis \in [DOMAIN vis -> BOOLEAN]
  BY TieFeeds DEF TieInv
<1>u. ASSUME UNCHANGED <<theme, vis>>, TieKept(map'), jobs' \subseteq TieCalls
      PROVE  theme' \in Themes /\ TieInv'
  <2>1. Tie!Seen' = Tie!Seen
    BY <1>u DEF Tie!Seen, Tie!Asked
  <2> QED BY <1>0, <1>u, <2>1 DEF TieInv, Page, TieKept, TieCalls, Tie!Poi
<1>1. CASE Tie!StyleArrives
  <2>1. TieKept(map') /\ UNCHANGED <<theme, vis, jobs>>
    BY <1>0, <1>1, TieIs, ArrivesKept DEF TieKept, StyleArrives
  <2> QED BY <1>0, <1>u, <2>1
<1>i. Tie!Installing \in TieCalls
  BY DEF Tie!Installing, TieCalls
<1>2. CASE Tie!OnLoad
  <2>1. /\ map' = Tie!RegisterMarkerIcons(Loaded) /\ jobs' = jobs \cup {Tie!Installing}
        /\ UNCHANGED <<theme, vis>>
    BY <1>2, TieIs DEF Tie!OnLoad, Tie!Install, Tie!Start
  <2>2. TieKept(Loaded) /\ Loaded.ready
    BY <1>0, LoadedKept DEF TieKept
  <2> QED BY <1>0, <1>u, <1>i, <2>1, <2>2, TieImages
<1>3. CASE Tie!OnReady
  <2>1. /\ map' = Tie!RegisterMarkerIcons(Heard) /\ jobs' = jobs \cup {Tie!Installing}
        /\ UNCHANGED <<theme, vis>>
    BY <1>3, TieIs DEF Tie!OnReady, Tie!Install, Tie!Start
  <2>2. TieKept(Heard) /\ Heard.ready
    BY <1>0, HeardKept DEF TieKept
  <2> QED BY <1>0, <1>u, <1>i, <2>1, <2>2, TieImages
<1>4. ASSUME NEW o \in Tie!Feeds, NEW ok \in BOOLEAN, Tie!Answer(o, ok)
      PROVE  theme' \in Themes /\ TieInv'
  <2>1. /\ UNCHANGED <<theme, vis>> /\ jobs' \subseteq TieCalls
        /\ \/ map' = map
           \/ \E ink \in Themes : /\ ink = theme \/ o \in Tie!Poi
                                  /\ map' = Tie!Draws(map, o, ink)
    BY <1>0, <1>4, TieAnswers
  <2>2. TieKept(map')
    BY <1>0, <2>1, TieDraws
  <2> QED BY <1>u, <2>1, <2>2
<1>5. ASSUME NEW o \in Tie!Feeds, Tie!Poll(o)
      PROVE  theme' \in Themes /\ TieInv'
  <2>1. Tie!Call(o) \in TieCalls
    BY <1>0 DEF Tie!Call, TieCalls
  <2> QED BY <1>0, <1>5, <1>u, <2>1 DEF Tie!Poll, Tie!Start
<1>6. CASE Tie!ThemeEffect
  <2>1. ThemeEffect /\ UNCHANGED <<vis, jobs>>
    BY <1>6, TieIs DEF ThemeEffect
  <2>2. Tie!Seen' = Tie!Seen
    BY <2>1 DEF Tie!Seen, Tie!Asked
  <2>3. /\ theme' \in Themes
        /\ Kept(theme', map', DOMAIN vis \cup {"images"}, DOMAIN vis, Tie!Poi)
        /\ Shown(map', Tie!Seen)
    BY <1>0, <2>1, ThemeKept DEF TieKept
  <2> QED BY <1>0, <2>1, <2>2, <2>3 DEF TieInv, Page, TieCalls, Tie!Poi
<1>7. ASSUME NEW v \in [DOMAIN vis -> BOOLEAN], Tie!SetVisibility(v)
      PROVE  theme' \in Themes /\ TieInv'
  <2>1. vis' = v /\ map' = Show(map, Tie!Seen') /\ UNCHANGED <<theme, jobs>>
    BY <1>7, TieIs DEF Tie!SetVisibility
  <2>2. DOMAIN vis' = DOMAIN vis /\ vis' \in [DOMAIN vis -> BOOLEAN]
    BY <2>1
  <2>3. Tie!Seen' \in [DOMAIN vis \cup {"images"} -> BOOLEAN]
    BY <2>2 DEF Tie!Seen, Tie!Asked
  <2>4. /\ Kept(theme, map', DOMAIN vis \cup {"images"}, DOMAIN vis, Tie!Poi)
        /\ Shown(map', Tie!Seen')
    BY <1>0, <2>1, <2>3, ShowKept DEF TieKept
  <2> QED BY <1>0, <2>1, <2>2, <2>4 DEF TieInv, Page, TieCalls, Tie!Poi
<1>8. ASSUME NEW k \in DOMAIN vis, Tie!ToggleLayer(k)
      PROVE  theme' \in Themes /\ TieInv'
  <2>1. [vis EXCEPT ![k] = ~@] \in [DOMAIN vis -> BOOLEAN]
    BY <1>0
  <2> QED BY <1>7, <1>8, <2>1 DEF Tie!ToggleLayer
<1>9. CASE Tie!ShowAllLayers
  BY <1>7, <1>9 DEF Tie!ShowAllLayers
<1> QED BY <1>1, <1>2, <1>3, <1>4, <1>5, <1>6, <1>8, <1>9 DEF Tie!Next

-----------------------------------------------------------------------------
(* The sea map.                                                            *)

MeriKept(m) ==
  /\ Kept(theme, m, Meri!Overlays, MeriClickable, {})
  /\ \A o \in MeriClickable : m.bound[o] = 1

LEMMA MeriIs ==
  /\ Meri!StyleArrives <=> StyleArrives
  /\ Meri!ThemeEffect <=> ThemeEffect
  /\ Meri!Heard = Heard /\ Meri!Loaded = Loaded
  /\ \A os, cs : Meri!NewMap(os, cs) = NewMap(os, cs)
  /\ \A m, d : Meri!Add(m, d) = Add(m, d)
  /\ \A m, ks : Meri!Bind(m, ks) = Bind(m, ks)
  /\ \A m, seen : Meri!Show(m, seen) = Show(m, seen)
  /\ \A m, fs, full : Meri!Fill(m, fs, full) = Fill(m, fs, full)
<1>1. (Meri!StyleArrives <=> StyleArrives) /\ (Meri!ThemeEffect <=> ThemeEffect)
  BY DEF Meri!StyleArrives, StyleArrives, Meri!ThemeEffect, ThemeEffect, Meri!CanSwitchTheme,
         CanSwitchTheme, Meri!Other, Other, Meri!SetStyle, SetStyle
<1>2. Meri!Heard = Heard /\ Meri!Loaded = Loaded
  BY DEF Meri!Heard, Heard, Meri!Loaded, Loaded
<1>3. /\ \A os, cs : Meri!NewMap(os, cs) = NewMap(os, cs)
      /\ \A m, d : Meri!Add(m, d) = Add(m, d)
      /\ \A m, ks : Meri!Bind(m, ks) = Bind(m, ks)
      /\ \A m, seen : Meri!Show(m, seen) = Show(m, seen)
      /\ \A m, fs, full : Meri!Fill(m, fs, full) = Fill(m, fs, full)
  BY DEF Meri!NewMap, NewMap, Meri!Add, Add, Meri!Bind, Bind, Meri!Show, Show, Meri!Fill, Fill
<1> QED BY <1>1, <1>2, <1>3

\* What is created has the ink of the theme, seen or not.
LEMMA MeriAdds ==
  ASSUME theme \in Themes, NEW m, MeriKept(m), m.ready, NEW os
  PROVE  LET n == Add(m, Meri!Created(os))
         IN  MeriKept(n) /\ n.ready
<1> DEFINE d == Meri!Created(os)
<1>1. \A o \in DOMAIN d : d[o] \in Overlay /\ d[o].ink = theme
  BY DEF Meri!Created, Overlay
<1> HIDE DEF d
<1>2. m \in Recs(Meri!Overlays, MeriClickable)
  BY DEF MeriKept, Kept
<1>3. Add(m, d).ready /\ Add(m, d).bound = m.bound
  BY <1>1, <1>2, AddFields DEF Steady
<1>4. Kept(theme, Add(m, d), Meri!Overlays, MeriClickable, {})
  BY <1>1, AddKept DEF MeriKept
<1> QED BY <1>3, <1>4 DEF MeriKept, d

LEMMA MeriSetup ==
  ASSUME theme \in Themes, NEW m, MeriKept(m), m.ready
  PROVE  MeriKept(Meri!Setup(m)) /\ Meri!Setup(m).due
<1> DEFINE a == Meri!MarkLayers(m)
           b == Meri!TrailLayers(a)
           c == Meri!VesselLayers(b)
           d == Meri!ReplayLayers(c)
           n == [d EXCEPT !.due = TRUE]
<1>1. MeriKept(a) /\ a.ready
  BY MeriIs, MeriAdds DEF Meri!MarkLayers
<1> HIDE DEF a
<1>2. MeriKept(b) /\ b.ready
  BY <1>1, MeriIs, MeriAdds DEF Meri!TrailLayers
<1> HIDE DEF b
<1>3. MeriKept(c) /\ c.ready
  BY <1>2, MeriIs, MeriAdds DEF Meri!VesselLayers
<1> HIDE DEF c
<1>4. MeriKept(d)
  BY <1>3, MeriIs, MeriAdds DEF Meri!ReplayLayers
<1> HIDE DEF d
<1>5. MeriKept(n) /\ n.due
  <2>1. /\ Kept(theme, n, Meri!Overlays, MeriClickable, {})
        /\ n.due = TRUE /\ n.bound = d.bound
    BY <1>4, DueKept DEF MeriKept
  <2> HIDE DEF n
  <2> QED BY <1>4, <2>1 DEF MeriKept
<1>6. Meri!Setup(m) = n
  BY DEF Meri!Setup, a, b, c, d
<1> QED BY <1>5, <1>6

LEMMA MeriFills ==
  ASSUME NEW m, MeriKept(m), NEW fs, NEW full \in BOOLEAN
  PROVE  /\ MeriKept(Fill(m, fs, full))
         /\ \A asked : AsSeen(m, asked) => AsSeen(Fill(m, fs, full), asked)
         /\ \A asked : Shown(m, asked) => Shown(Fill(m, fs, full), asked)
<1>1. m \in Recs(Meri!Overlays, MeriClickable)
  BY DEF MeriKept, Kept
<1>2. Fill(m, fs, full).bound = m.bound
  BY <1>1, FillFields
<1> QED BY <1>2, FillKept DEF MeriKept

LEMMA MeriCleared ==
  ASSUME NEW m, MeriKept(m), NEW s
  PROVE  /\ MeriKept(Meri!Cleared(m, s))
         /\ \A asked : AsSeen(m, asked) => AsSeen(Meri!Cleared(m, s), asked)
         /\ \A asked : Shown(m, asked) => Shown(Meri!Cleared(m, s), asked)
<1> DEFINE n == Fill(m, IF s = "live" THEN {"replay", "ring"} ELSE {}, FALSE)
           o == Fill(n, IF s # "track" THEN {"ghost"} ELSE {}, FALSE)
<1>1. /\ MeriKept(n)
      /\ \A asked : AsSeen(m, asked) => AsSeen(n, asked)
      /\ \A asked : Shown(m, asked) => Shown(n, asked)
  BY MeriFills
<1> HIDE DEF n
<1>2. /\ MeriKept(o)
      /\ \A asked : AsSeen(n, asked) => AsSeen(o, asked)
      /\ \A asked : Shown(n, asked) => Shown(o, asked)
  BY <1>1, MeriFills
<1> HIDE DEF o
<1>3. Meri!Cleared(m, s) = o
  BY MeriIs DEF Meri!Cleared, n, o
<1> QED BY <1>1, <1>2, <1>3

LEMMA MeriShows ==
  ASSUME NEW m, MeriKept(m), NEW seen \in [Meri!Overlays -> BOOLEAN]
  PROVE  MeriKept(Show(m, seen)) /\ AsSeen(Show(m, seen), seen) /\ Shown(Show(m, seen), seen)
<1>1. m \in Recs(Meri!Overlays, MeriClickable)
  BY DEF MeriKept, Kept
<1>2. Show(m, seen).bound = m.bound
  BY <1>1, ShowFields
<1> QED BY <1>2, ShowKept DEF MeriKept

\* What is asked of the overlays, when v is what the visitor wants to see.
MeriAsked(v, o) ==
  IF o = "live" THEN v["scene"] = "live"
  ELSE IF o = "replay" THEN v["scene"] # "live"
  ELSE IF o = "ring" THEN v["scene"] = "fleet"
  ELSE IF o = "trail" THEN v["scene"] # "fleet"
  ELSE IF o = "ghost" THEN v["scene"] = "track"
  ELSE v[o]

LEMMA MeriAskedTypes ==
  ASSUME NEW v, MeriVis(v), NEW o \in Meri!Overlays
  PROVE  MeriAsked(v, o) \in BOOLEAN
<1>1. CASE o \in {"live", "replay", "ring", "trail", "ghost"}
  BY <1>1 DEF MeriAsked
<1>2. CASE o \in MeriToggles
  BY <1>2 DEF MeriAsked, MeriVis
<1> QED BY <1>1, <1>2 DEF Meri!Overlays

LEMMA MeriSeenIs ==
  /\ Meri!Seen = [o \in Meri!Overlays |-> MeriAsked(vis, o)]
  /\ Meri!Seen' = [o \in Meri!Overlays |-> MeriAsked(vis', o)]
<1>0. /\ "live" # "replay" /\ "live" # "ring" /\ "live" # "trail" /\ "live" # "ghost"
      /\ "replay" # "ring" /\ "replay" # "trail" /\ "replay" # "ghost"
      /\ "ring" # "trail" /\ "ring" # "ghost" /\ "trail" # "ghost"
  OBVIOUS
<1>1. ASSUME NEW o PROVE Meri!Asked(o) = MeriAsked(vis, o)
  BY <1>0, Zenon DEF Meri!Asked, Meri!Scene, MeriAsked
<1>2. ASSUME NEW o PROVE Meri!Asked(o)' = MeriAsked(vis', o)
  BY <1>0, Zenon DEF Meri!Asked, Meri!Scene, MeriAsked
<1> QED BY <1>1, <1>2, Zenon DEF Meri!Seen, Meri!Overlays

LEMMA MeriSeenTypes ==
  ASSUME NEW v, MeriVis(v)
  PROVE  [o \in Meri!Overlays |-> MeriAsked(v, o)] \in [Meri!Overlays -> BOOLEAN]
BY MeriAskedTypes

\* The visitor switches a layer, or a replay begins or ends.
LEMMA MeriVisits ==
  ASSUME MeriVis(vis)
  PROVE  /\ \A k \in MeriToggles : MeriVis([vis EXCEPT ![k] = ~@])
         /\ \A s \in Meri!Scenes : MeriVis([vis EXCEPT !["scene"] = s])
<1>1. "scene" \notin MeriToggles
  BY MapsAssumption
<1>2. ASSUME NEW k \in MeriToggles PROVE MeriVis([vis EXCEPT ![k] = ~@])
  <2>1. \A j \in MeriToggles : [vis EXCEPT ![k] = ~@][j] \in BOOLEAN
    BY DEF MeriVis
  <2>2. [vis EXCEPT ![k] = ~@]["scene"] = vis["scene"]
    BY <1>1 DEF MeriVis
  <2> QED BY <2>1, <2>2 DEF MeriVis
<1>3. ASSUME NEW s \in Meri!Scenes PROVE MeriVis([vis EXCEPT !["scene"] = s])
  BY <1>1 DEF MeriVis
<1> QED BY <1>2, <1>3

LEMMA MeriStep ==
  ASSUME theme \in Themes, MeriInv, Meri!Next
  PROVE  theme' \in Themes /\ MeriInv'
<1>0. MeriKept(map) /\ Shown(map, Meri!Seen) /\ MeriVis(vis) /\ jobs = {}
  BY DEF MeriInv, Page, MeriKept
<1>s. Meri!Seen \in [Meri!Overlays -> BOOLEAN]
  BY <1>0, MeriSeenIs, MeriSeenTypes
<1>u. ASSUME UNCHANGED <<theme, vis, jobs>>, MeriKept(map'), Shown(map', Meri!Seen)
      PROVE  theme' \in Themes /\ MeriInv'
  <2>1. Meri!Seen' = Meri!Seen
    BY <1>u, MeriSeenIs
  <2> QED BY <1>0, <1>u, <2>1
          DEF MeriInv, Page, MeriKept, MeriVis, MeriClickable, Meri!Overlays, Meri!Scenes
<1>1. CASE Meri!StyleArrives
  <2>1. /\ MeriKept(map') /\ Shown(map', Meri!Seen)
        /\ UNCHANGED <<theme, vis, jobs>>
    BY <1>0, <1>1, MeriIs, ArrivesKept DEF MeriKept, StyleArrives
  <2> QED BY <1>u, <2>1
<1>2. CASE Meri!OnLoad
  <2>1. map' = Meri!Setup(Loaded) /\ UNCHANGED <<theme, vis, jobs>>
    BY <1>2, MeriIs DEF Meri!OnLoad
  <2>2. MeriKept(Loaded) /\ Loaded.ready
    BY <1>0, LoadedKept DEF MeriKept
  <2>3. MeriKept(map') /\ map'.due
    BY <2>1, <2>2, MeriSetup
  <2> QED BY <1>u, <2>1, <2>3 DEF Shown
<1>3. CASE Meri!OnReady
  <2>1. map' = Meri!Setup(Heard) /\ UNCHANGED <<theme, vis, jobs>>
    BY <1>3, MeriIs DEF Meri!OnReady
  <2>2. MeriKept(Heard) /\ Heard.ready
    BY <1>0, HeardKept DEF MeriKept
  <2>3. MeriKept(map') /\ map'.due
    BY <2>1, <2>2, MeriSetup
  <2> QED BY <1>u, <2>1, <2>3 DEF Shown
<1>4. CASE Meri!Effects
  <2> DEFINE a == Fill(map, MeriToggles \cup {"trail"}, TRUE)
             b == Show(a, Meri!Seen)
             c == Meri!Cleared(b, Meri!Scene)
             n == [c EXCEPT !.due = FALSE]
  <2>1. map' = n /\ UNCHANGED <<theme, vis, jobs>>
    BY <1>4, MeriIs DEF Meri!Effects, Meri!DataEffects
  <2>2. MeriKept(a)
    BY <1>0, MeriFills
  <2> HIDE DEF a
  <2>3. MeriKept(b) /\ AsSeen(b, Meri!Seen)
    BY <1>s, <2>2, MeriShows
  <2> HIDE DEF b
  <2>4. MeriKept(c) /\ AsSeen(c, Meri!Seen)
    BY <2>3, MeriCleared
  <2> HIDE DEF c
  <2>5. /\ Kept(theme, n, Meri!Overlays, MeriClickable, {})
        /\ n.on = c.on /\ n.bound = c.bound
    BY <2>4, DueKept DEF MeriKept
  <2> HIDE DEF n
  <2>6. MeriKept(n) /\ Shown(n, Meri!Seen)
    BY <2>4, <2>5 DEF MeriKept, Shown, AsSeen
  <2> QED BY <1>u, <2>1, <2>6
<1>5. CASE Meri!Frame
  <2>1. /\ \E fs : map' = Fill(map, fs, TRUE)
        /\ UNCHANGED <<theme, vis, jobs>>
    BY <1>5, MeriIs DEF Meri!Frame, Meri!LiveFrame, Meri!FleetFrame, Meri!TrackFrame
  <2>2. MeriKept(map') /\ Shown(map', Meri!Seen)
    BY <1>0, <2>1, MeriFills
  <2> QED BY <1>u, <2>1, <2>2
<1>6. CASE Meri!ThemeEffect
  <2>1. ThemeEffect /\ UNCHANGED <<vis, jobs>>
    BY <1>6, MeriIs DEF ThemeEffect
  <2>2. Meri!Seen' = Meri!Seen
    BY <2>1, MeriSeenIs
  <2>3. /\ theme' \in Themes
        /\ Kept(theme', map', Meri!Overlays, MeriClickable, {})
        /\ map'.bound = map.bound /\ Shown(map', Meri!Seen)
    BY <1>0, <2>1, ThemeKept DEF MeriKept
  <2> QED BY <1>0, <2>1, <2>2, <2>3
          DEF MeriInv, Page, MeriKept, MeriVis, MeriClickable, Meri!Overlays, Meri!Scenes
<1>v. ASSUME MeriVis(vis'), MeriKept(map'), Shown(map', Meri!Seen'), UNCHANGED <<theme, jobs>>
      PROVE  theme' \in Themes /\ MeriInv'
  BY <1>0, <1>v DEF MeriInv, Page, MeriKept, MeriVis, MeriClickable, Meri!Overlays, Meri!Scenes
<1>t. MeriVis(vis') => MeriKept(Show(map, Meri!Seen')) /\ Shown(Show(map, Meri!Seen'), Meri!Seen')
  <2>1. MeriVis(vis') => Meri!Seen' \in [Meri!Overlays -> BOOLEAN]
    BY MeriSeenIs, MeriSeenTypes
  <2> QED BY <1>0, <2>1, MeriShows
<1>7. ASSUME NEW k \in MeriToggles, Meri!ToggleLayer(k)
      PROVE  theme' \in Themes /\ MeriInv'
  <2>1. /\ vis' = [vis EXCEPT ![k] = ~@] /\ map' = Show(map, Meri!Seen')
        /\ UNCHANGED <<theme, jobs>>
    BY <1>7, MeriIs DEF Meri!ToggleLayer
  <2>2. MeriVis(vis')
    BY <1>0, <2>1, MeriVisits
  <2> QED BY <1>t, <1>v, <2>1, <2>2
<1>8. ASSUME NEW s \in Meri!Scenes, Meri!SetScene(s)
      PROVE  theme' \in Themes /\ MeriInv'
  <2>1. /\ vis' = [vis EXCEPT !["scene"] = s]
        /\ map' = Meri!Cleared(Show(map, Meri!Seen'), s)
        /\ UNCHANGED <<theme, jobs>>
    BY <1>8, MeriIs DEF Meri!SetScene
  <2>2. MeriVis(vis')
    BY <1>0, <2>1, MeriVisits
  <2>3. MeriKept(map') /\ Shown(map', Meri!Seen')
    BY <1>t, <2>1, <2>2, MeriCleared
  <2> QED BY <1>v, <2>1, <2>2, <2>3
<1> QED BY <1>1, <1>2, <1>3, <1>4, <1>5, <1>6, <1>7, <1>8 DEF Meri!Next

-----------------------------------------------------------------------------
(* The shell mounts one mode after the other.                              *)

LEMMA MountKeeps ==
  ASSUME theme \in Themes, Mount, UNCHANGED theme
  PROVE  MapsInv'
<1>n. None \notin Modes
  BY MapsAssumption
<1>1. CASE mode' = "raide" /\ Raide!Mount
  <2>1. /\ map' = NewMap(Raide!Keys, {"stations", "trains"})
        /\ vis' = [k \in Raide!Keys |-> TRUE] /\ jobs' = {}
    BY <1>1 DEF Raide!Mount, Raide!NewMap, NewMap, Raide!Unmount
  <2>2. {"stations", "trains"} \subseteq Raide!Keys
    BY DEF Raide!Keys
  <2>3. /\ Kept(theme, map', Raide!Keys, {"stations", "trains"}, {})
        /\ Shown(map', Raide!Seen')
    BY <2>1, <2>2, NewKept
  <2>4. RaideInv'
    BY <2>1, <2>3 DEF RaideInv, Page
  <2> QED BY <1>1, <2>4 DEF MapsInv, Modes
<1>2. CASE mode' = "ilma" /\ Ilma!Mount
  <2>1. /\ map' = NewMap(Ilma!Overlays, IlmaClickable)
        /\ vis' = [k \in Ilma!Keys |-> TRUE] /\ jobs' = {}
    BY <1>2 DEF Ilma!Mount, Ilma!NewMap, NewMap, Ilma!Unmount, IlmaClickable
  <2>2. IlmaClickable \subseteq Ilma!Overlays
    BY DEF IlmaClickable, Ilma!Overlays, Ilma!Keys
  <2>3. /\ Kept(theme, map', Ilma!Overlays, IlmaClickable, {})
        /\ Shown(map', Ilma!Seen')
    BY <2>1, <2>2, NewKept
  <2>4. IlmaInv'
    BY <2>1, <2>3 DEF IlmaInv, Page, IlmaClickable
  <2> QED BY <1>2, <2>4 DEF MapsInv, Modes
<1>3. CASE mode' = "tie" /\ Tie!Mount
  <2>1. PICK w \in Watched : map' = NewMap(w \cup {"images"}, w) /\ vis' = [k \in w |-> TRUE]
    BY <1>3 DEF Tie!Mount, Tie!NewMap, NewMap
  <2>2. DOMAIN vis' = w /\ vis' \in [DOMAIN vis' -> BOOLEAN] /\ jobs' = {}
    BY <1>3, <2>1 DEF Tie!Mount, Tie!Unmount
  <2>3. w \in SUBSET (w \cup {"images"})
    OBVIOUS
  <2>4. /\ Kept(theme, map', w \cup {"images"}, w, Tie!Poi)
        /\ Shown(map', Tie!Seen')
    BY <2>1, <2>3, NewKept
  <2>5. TieInv'
    BY <2>1, <2>2, <2>4 DEF TieInv, Page, Tie!Poi
  <2> QED BY <1>3, <2>5 DEF MapsInv, Modes
<1>4. CASE mode' = "meri" /\ Meri!Mount
  <2> DEFINE n == NewMap(Meri!Overlays, MeriClickable)
  <2>1. map' = Bind(n, MeriClickable) /\ jobs' = {}
    BY <1>4, MeriIs DEF Meri!Mount, Meri!RegisterInteractions, Meri!Unmount, MeriClickable
  <2>2. PICK stored \in [MeriToggles -> BOOLEAN] :
          vis' = [k \in MeriToggles \cup {"scene"} |-> IF k = "scene" THEN "live" ELSE stored[k]]
    BY <1>4 DEF Meri!Mount
  <2>3. MeriVis(vis')
    BY <2>2, MapsAssumption DEF MeriVis, Meri!Scenes
  <2>4. MeriClickable \in SUBSET Meri!Overlays
    BY DEF MeriClickable
  <2>5. /\ Kept(theme, n, Meri!Overlays, MeriClickable, {})
        /\ \A asked : Shown(n, asked)
    BY <2>4, NewKept
  <2> HIDE DEF n
  <2>6. n \in Recs(Meri!Overlays, MeriClickable)
    BY <2>5 DEF Kept
  <2>7. /\ map' \in Recs(Meri!Overlays, MeriClickable)
        /\ Steady(n, map') /\ map'.due = n.due /\ map'.on = n.on
        /\ \A o \in MeriClickable : map'.bound[o] = 1
    BY <2>1, <2>6, BindFields
  <2>8. Target(theme, map') /\ Len(map'.coming) <= MaxComing
    BY <2>5, <2>7, SteadyTarget DEF Kept, Steady
  <2>9. Inked(map', {}) /\ Bound(map')
    BY <2>5, <2>7 DEF Kept, Inked, Steady, Bound, Recs
  <2>10. Kept(theme, map', Meri!Overlays, MeriClickable, {})
    BY <2>4, <2>7, <2>8, <2>9 DEF Kept
  <2>11. Shown(map', Meri!Seen')
    BY <2>5, <2>7 DEF Shown, AsSeen
  <2>12. MeriInv'
    BY <2>1, <2>3, <2>7, <2>10, <2>11
       DEF MeriInv, Page, MeriVis, MeriClickable, Meri!Overlays, Meri!Scenes
  <2> QED BY <1>4, <2>12 DEF MapsInv, Modes
<1> QED BY <1>1, <1>2, <1>3, <1>4 DEF Mount

LEMMA StepKeeps ==
  ASSUME MapsInv, [Next]_allvars
  PROVE  MapsInv'
<1>n. None \notin Modes
  BY MapsAssumption
<1>1. CASE SwitchMode
  BY <1>1, MountKeeps DEF SwitchMode, MapsInv
<1>2. CASE In("raide") /\ Raide!Next
  <2>1. RaideInv /\ mode' = "raide"
    BY <1>2 DEF In, MapsInv
  <2>2. theme' \in Themes /\ RaideInv'
    BY <1>2, <2>1, RaideStep DEF MapsInv
  <2> QED BY <2>1, <2>2 DEF MapsInv, Modes
<1>3. CASE In("ilma") /\ Ilma!Next
  <2>1. IlmaInv /\ mode' = "ilma"
    BY <1>3 DEF In, MapsInv
  <2>2. theme' \in Themes /\ IlmaInv'
    BY <1>3, <2>1, IlmaStep DEF MapsInv
  <2> QED BY <2>1, <2>2 DEF MapsInv, Modes
<1>4. CASE In("tie") /\ Tie!Next
  <2>1. TieInv /\ mode' = "tie"
    BY <1>4 DEF In, MapsInv
  <2>2. theme' \in Themes /\ TieInv'
    BY <1>4, <2>1, TieStep DEF MapsInv
  <2> QED BY <2>1, <2>2 DEF MapsInv, Modes
<1>5. CASE In("meri") /\ Meri!Next
  <2>1. MeriInv /\ mode' = "meri"
    BY <1>5 DEF In, MapsInv
  <2>2. theme' \in Themes /\ MeriInv'
    BY <1>5, <2>1, MeriStep DEF MapsInv
  <2> QED BY <2>1, <2>2 DEF MapsInv, Modes
<1>6. CASE UNCHANGED allvars
  <2>1. UNCHANGED <<theme, vis, map, jobs, mode>>
    BY <1>6 DEF allvars
  <2>2. /\ Raide!Seen' = Raide!Seen /\ Ilma!Seen' = Ilma!Seen
        /\ Tie!Seen' = Tie!Seen /\ Meri!Seen' = Meri!Seen
    <3>1. Raide!Seen' = Raide!Seen /\ Tie!Seen' = Tie!Seen
      BY <2>1 DEF Raide!Seen, Raide!Asked, Tie!Seen, Tie!Asked
    <3>2. Ilma!Seen' = Ilma!Seen
      BY <2>1, Zenon DEF Ilma!Seen, Ilma!Asked
    <3>3. Meri!Seen' = Meri!Seen
      BY <2>1, MeriSeenIs
    <3> QED BY <3>1, <3>2, <3>3
  <2>3. (RaideInv => RaideInv') /\ (IlmaInv => IlmaInv')
    BY <2>1, <2>2 DEF RaideInv, IlmaInv, Page
  <2>4. (TieInv => TieInv') /\ (MeriInv => MeriInv')
    BY <2>1, <2>2 DEF TieInv, MeriInv, Page, Tie!Poi, MeriClickable
  <2> QED BY <2>1, <2>3, <2>4 DEF MapsInv, Modes
<1> QED BY <1>1, <1>2, <1>3, <1>4, <1>5, <1>6 DEF Next

LEMMA MapsInvHolds == Spec => []MapsInv
<1>1. Init => MapsInv
  BY MapsAssumption DEF Init, MapsInv, Modes
<1>2. MapsInv /\ [Next]_allvars => MapsInv'
  BY StepKeeps
<1> QED BY <1>1, <1>2, PTL DEF Spec

-----------------------------------------------------------------------------
(* The properties.                                                         *)

LEMMA AskedIs ==
  /\ mode = "raide" => \A o \in Raide!Keys : Asked(o) = Raide!Seen[o]
  /\ mode = "ilma" => \A o \in Ilma!Overlays : Asked(o) = Ilma!Seen[o]
  /\ mode = "tie" => \A o \in DOMAIN vis \cup {"images"} : Asked(o) = Tie!Seen[o]
  /\ mode = "meri" => \A o \in Meri!Overlays : Asked(o) = Meri!Seen[o]
<1>0. /\ "raide" # "ilma" /\ "raide" # "tie" /\ "raide" # "meri"
      /\ "ilma" # "tie" /\ "ilma" # "meri" /\ "tie" # "meri"
  OBVIOUS
<1>1. \A o : mode = "raide" => Asked(o) = Raide!Asked(o)
  BY <1>0, Zenon DEF Asked
<1>2. \A o : mode = "ilma" => Asked(o) = Ilma!Asked(o)
  BY <1>0, Zenon DEF Asked
<1>3. \A o : mode = "tie" => Asked(o) = Tie!Asked(o)
  BY <1>0, Zenon DEF Asked
<1>4. \A o : mode = "meri" => Asked(o) = Meri!Asked(o)
  BY <1>0, Zenon DEF Asked
<1>5. mode = "raide" => \A o \in Raide!Keys : Asked(o) = Raide!Seen[o]
  BY <1>1 DEF Raide!Seen
<1>6. mode = "ilma" => \A o \in Ilma!Overlays : Asked(o) = Ilma!Seen[o]
  BY <1>2 DEF Ilma!Seen
<1>7. mode = "tie" => \A o \in DOMAIN vis \cup {"images"} : Asked(o) = Tie!Seen[o]
  BY <1>3 DEF Tie!Seen
<1>8. mode = "meri" => \A o \in Meri!Overlays : Asked(o) = Meri!Seen[o]
  BY <1>4 DEF Meri!Seen
<1> QED BY <1>5, <1>6, <1>7, <1>8

\* The map of a mode that is up is in order, with overlays of its own; the
\* jobs are those of its mode.
LEMMA UpIsKept ==
  ASSUME MapsInv, mode # None
  PROVE  /\ \E os, cs : Kept(theme, map, os, cs, IF mode = "tie" THEN Tie!Poi ELSE {})
         /\ \A o \in DOMAIN map.on : ~map.due /\ map.on[o] # None => map.on[o].seen = Asked(o)
         /\ jobs \subseteq Jobs
<1>0. /\ "raide" # "ilma" /\ "raide" # "tie" /\ "raide" # "meri"
      /\ "ilma" # "tie" /\ "ilma" # "meri" /\ "tie" # "meri"
  OBVIOUS
<1>k. ASSUME NEW os, NEW cs, NEW other, NEW asked, Page(os, cs, asked, other),
             \A o \in os : Asked(o) = asked[o]
      PROVE  /\ Kept(theme, map, os, cs, other)
             /\ \A o \in DOMAIN map.on : ~map.due /\ map.on[o] # None => map.on[o].seen = Asked(o)
  <2>1. DOMAIN map.on = os
    BY <1>k DEF Page, Kept, Recs
  <2> QED BY <1>k, <2>1 DEF Page, Shown, AsSeen
<1>1. CASE mode = "raide"
  <2>1. Jobs = {"icons", "stations then trains", "stations", "trains"}
    BY <1>0, <1>1, Zenon DEF Jobs
  <2>2. /\ Page(Raide!Keys, {"stations", "trains"}, Raide!Seen, {})
        /\ jobs \subseteq {"icons", "stations then trains", "stations", "trains"}
    BY <1>1 DEF MapsInv, RaideInv
  <2>3. \A o \in Raide!Keys : Asked(o) = Raide!Seen[o]
    BY <1>1, AskedIs
  <2>4. /\ Kept(theme, map, Raide!Keys, {"stations", "trains"}, {})
        /\ \A o \in DOMAIN map.on : ~map.due /\ map.on[o] # None => map.on[o].seen = Asked(o)
    BY <1>k, <2>2, <2>3
  <2> QED BY <1>1, <2>1, <2>2, <2>4
<1>2. CASE mode = "ilma"
  <2>1. Jobs = {"icons", "airports", "aircraft"}
    BY <1>0, <1>2, Zenon DEF Jobs
  <2> QED BY <1>2, <1>k, <2>1, AskedIs DEF MapsInv, IlmaInv
<1>3. CASE mode = "tie"
  <2>1. Jobs = (DOMAIN vis \cup {"install"}) \X (Themes \cup {None})
    BY <1>0, <1>3, Zenon DEF Jobs
  <2> QED BY <1>3, <1>k, <2>1, AskedIs DEF MapsInv, TieInv
<1>4. CASE mode = "meri"
  <2>1. Jobs = {}
    BY <1>0, <1>4, Zenon DEF Jobs
  <2> QED BY <1>4, <1>k, <2>1, AskedIs DEF MapsInv, MeriInv
<1> QED BY <1>1, <1>2, <1>3, <1>4 DEF MapsInv, Modes

\* Every mode has a map of its own shape, and only the fetches and images of the
\* mode that is up are under way: the mount effect of the mode before it is left
\* with its timers, and what its fetches answer finds no map.
THEOREM MapsTypeCorrect == Spec => []TypeOK
<1>1. MapsInv => TypeOK
  <2> SUFFICES ASSUME MapsInv, mode # None
               PROVE  /\ map.style \in Themes \cup {None}
                      /\ Len(map.coming) <= MaxComing
                      /\ \A i \in DOMAIN map.coming : map.coming[i] \in Themes
                      /\ map.got \subseteq {"airports", "aircraft"}
                      /\ {map.up, map.ready, map.heard, map.early, map.due} \subseteq BOOLEAN
                      /\ \A o \in DOMAIN map.on : map.on[o] \in Overlay \cup {None}
                      /\ \A o \in DOMAIN map.bound : map.bound[o] \in 0..2
    BY UpIsKept DEF TypeOK, MapsInv
  <2>1. PICK os, cs : Kept(theme, map, os, cs, IF mode = "tie" THEN Tie!Poi ELSE {})
    BY UpIsKept
  <2>2. map \in Recs(os, cs) /\ Len(map.coming) <= MaxComing
    BY <2>1 DEF Kept
  <2> QED BY <2>2 DEF Recs
<1> QED BY <1>1, MapsInvHolds, PTL

\* What is on the map is shown if and only if the visitor asked for it, whenever
\* it was added: by the install, by an answer that was under way when a layer was
\* switched off, after a change of the theme; on the sea map, once the effects of
\* the render have run.
THEOREM AsAskedHolds == Spec => []AsAsked
<1>1. MapsInv => AsAsked
  BY UpIsKept DEF AsAsked, OnTheMap, OnMap
<1> QED BY <1>1, MapsInvHolds, PTL

\* No overlay is drawn in the colours of one theme over the basemap of the other,
\* unless the map took an old style for the one that was asked for; roadworks and
\* incidents have the colour of their call.
THEOREM InkOfBasemapHolds == Spec => []InkOfBasemap
<1>1. MapsInv => InkOfBasemap
  BY UpIsKept DEF InkOfBasemap, OnTheMap, OnMap, Kept, Inked
<1> QED BY <1>1, MapsInvHolds, PTL

\* However often the layers are installed, the handlers of a layer that is on
\* the map are registered once.
THEOREM BoundOnceHolds == Spec => []BoundOnce
<1>1. MapsInv => BoundOnce
  BY UpIsKept DEF BoundOnce, OnMap, Kept, Bound
<1> QED BY <1>1, MapsInvHolds, PTL
=============================================================================
