---------------------------- MODULE IngestProofs ----------------------------
(***************************************************************************)
(* Proofs about Ingest, for any set of vessels and names and any clock.    *)
(***************************************************************************)
EXTENDS Ingest, TLAPS

-----------------------------------------------------------------------------
(* Operators.                                                              *)

\* Merging metadata gives a field value, or Unknown when neither source knows.
LEMMA MetaForType ==
  ASSUME NEW m \in Label \cup {Unknown}, NEW s \in Label \cup {Unknown}
  PROVE  /\ MetaFor(m, s) \in Label \cup {Unknown}
         /\ s \in Names => MetaFor(m, s) \in Names
         /\ m \in Names => MetaFor(m, s) = m
  BY IngestAssumption DEF MetaFor, Label

\* Applying metadata keeps the fix and sets at most its name.
LEMMA ApplyMetaFix ==
  ASSUME NEW rec \in Fix, NEW m \in Label \cup {Unknown}
  PROVE  /\ ApplyMeta(rec, m) \in Fix
         /\ ApplyMeta(rec, m).ts = rec.ts
         /\ ApplyMeta(rec, m).src = rec.src
         /\ m # Unknown => ApplyMeta(rec, m).name = m
  BY DEF ApplyMeta, Fix

LEMMA MkFixType ==
  ASSUME NEW ts \in Time, NEW src \in {"digitraffic", "aisstream"}
  PROVE  /\ MkFix(ts, src) \in Fix
         /\ MkFix(ts, src).ts = ts
         /\ MkFix(ts, src).src = src
  BY DEF MkFix, Fix, Label

LEMMA NothingIsNoFix == Nothing \notin Fix
  BY DEF Nothing, Fix

LEMMA NoJobType == NoJob \in Job
  BY IngestAssumption DEF NoJob, Job

-----------------------------------------------------------------------------
(* Type correctness.                                                       *)

\* What Accept does to the variables it sets, whoever calls it.
LEMMA AcceptType ==
  ASSUME TypeOK, NEW t \in Writers, NEW v \in Vessels, NEW rec \in Fix,
         Accept(t, v, rec)
  PROVE  /\ lastPos' \in [Vessels -> Fix \cup {Nothing}]
         /\ job' \in [Writers -> Job]
         /\ pc' \in [Writers -> {"idle", "refresh", "write"}]
         /\ suspect' \in [Vessels -> BOOLEAN]
  BY DEF TypeOK, Accept, Job, OtherWrites

LEMMA TypeStep == TypeOK /\ [Next]_vars => TypeOK'
<1> SUFFICES ASSUME TypeOK, [Next]_vars PROVE TypeOK'
  OBVIOUS
<1> USE DEF Writers
<1>1. ASSUME NEW v \in Vessels, NEW ts \in Time, HandleLocation(v, ts) PROVE TypeOK'
  <2>1. ApplyMeta(MkFix(ts, "digitraffic"), MetaFor(meta[v], sup[v])) \in Fix
    BY MkFixType, MetaForType, ApplyMetaFix DEF TypeOK
  <2> QED BY <1>1, <2>1, AcceptType DEF TypeOK, HandleLocation
<1>2. ASSUME NEW v \in Vessels, NEW n \in MqttNames, HandleMetadata(v, n) PROVE TypeOK'
  <2>1. n \in Label
    BY IngestAssumption DEF Label
  <2>2. CASE lastPos[v] # Nothing
    <3>1. lastPos[v] \in Fix
      BY <2>2 DEF TypeOK
    <3>2. ApplyMeta(lastPos[v], MetaFor(n, sup[v])) \in Fix
      BY <2>1, <3>1, MetaForType, ApplyMetaFix DEF TypeOK
    <3> QED BY <1>2, <2>1, <2>2, <3>2, AcceptType DEF TypeOK, HandleMetadata
  <2>3. CASE lastPos[v] = Nothing
    BY <1>2, <2>1, <2>3 DEF TypeOK, HandleMetadata
  <2> QED BY <2>2, <2>3
<1>3. CASE RefreshMeta
  <2> DEFINE v == job["aisstream"].vessel
             rec == ApplyMeta(lastPos[v], MetaFor(meta[v], sup[v]))
  <2>1. v \in Vessels
    BY DEF TypeOK, Job
  <2>2. CASE lastPos[v] # Nothing /\ rec.name # lastPos[v].name
    <3>1. lastPos[v] \in Fix
      BY <2>1, <2>2 DEF TypeOK
    <3>2. rec \in Fix
      BY <2>1, <3>1, MetaForType, ApplyMetaFix DEF TypeOK
    <3>3. Accept("aisstream", v, rec)
      BY <1>3, <2>2 DEF RefreshMeta
    <3> QED BY <1>3, <2>1, <3>2, <3>3, AcceptType DEF TypeOK, RefreshMeta
  <2>3. CASE ~(lastPos[v] # Nothing /\ rec.name # lastPos[v].name)
    BY <1>3, <2>3, NoJobType DEF TypeOK, RefreshMeta
  <2> QED BY <2>2, <2>3
<1>4. ASSUME NEW v \in Vessels, NEW n \in AisNames, HandleStatic(v, n) PROVE TypeOK'
  <2>1. n \in Label
    BY IngestAssumption DEF Label
  <2> QED BY <1>4, <2>1 DEF TypeOK, HandleStatic, Job
<1>5. ASSUME NEW v \in Vessels, NEW ts \in Time, HandleExternalPosition(v, ts) PROVE TypeOK'
  <2>1. ApplyMeta(MkFix(ts, "aisstream"), MetaFor(meta[v], sup[v])) \in Fix
    BY MkFixType, MetaForType, ApplyMetaFix DEF TypeOK
  <2> QED BY <1>5, <2>1, AcceptType DEF TypeOK, HandleExternalPosition
<1>6. ASSUME NEW v \in Vessels, PruneStatic(v) PROVE TypeOK'
  BY <1>6 DEF TypeOK, PruneStatic
<1>7. ASSUME NEW got \in [Vessels -> MqttNames \cup {Unknown}], HydrateMetadata(got)
      PROVE TypeOK'
  BY <1>7, IngestAssumption DEF TypeOK, HydrateMetadata, Label
<1>8. ASSUME NEW got \in [Vessels -> Time \cup {-1}], FetchLocations(got) PROVE TypeOK'
  BY <1>8 DEF TypeOK, FetchLocations
<1>9. ASSUME NEW v \in Vessels, HydrateLocation(v) PROVE TypeOK'
  <2>1. rest[v] \in Time
    BY <1>9 DEF TypeOK, HydrateLocation
  <2>2. ApplyMeta(MkFix(rest[v], "digitraffic"), MetaFor(meta[v], sup[v])) \in Fix
    BY <2>1, MkFixType, MetaForType, ApplyMetaFix DEF TypeOK
  <2>3. rest' \in [Vessels -> Time \cup {-1}]
    BY <1>9 DEF TypeOK, HydrateLocation
  <2>4. CASE SkipsHydrated(v, rest[v])
    BY <1>9, <2>3, <2>4 DEF TypeOK, HydrateLocation
  <2>5. CASE ~SkipsHydrated(v, rest[v])
    BY <1>9, <2>2, <2>3, <2>5, AcceptType DEF TypeOK, HydrateLocation
  <2> QED BY <2>4, <2>5
<1>10. CASE HydrateDone
  BY <1>10 DEF TypeOK, HydrateDone
<1>11. ASSUME NEW t \in Writers, WritePosition(t) PROVE TypeOK'
  <2>1. job[t].vessel \in Vessels /\ job[t].rec \in Fix \cup {Nothing}
    BY DEF TypeOK, Job
  <2>2. /\ pc' = [pc EXCEPT ![t] = "idle"] /\ job' = [job EXCEPT ![t] = NoJob]
        /\ cache' = [cache EXCEPT ![job[t].vessel] = job[t].rec] \/ cache' = cache
        /\ suspect' = [suspect EXCEPT ![job[t].vessel] = TRUE] \/ suspect' = suspect
        /\ UNCHANGED <<now, meta, sup, lastPos, stage, rest, doomed>>
    BY <1>11 DEF WritePosition
  <2>3. cache' \in [Vessels -> Fix \cup {Nothing}] /\ suspect' \in [Vessels -> BOOLEAN]
    BY <2>1, <2>2 DEF TypeOK
  <2>4. /\ pc' \in [Writers -> {"idle", "refresh", "write"}]
        /\ job' \in [Writers -> Job]
    BY <2>2, NoJobType DEF TypeOK
  <2> QED BY <2>2, <2>3, <2>4 DEF TypeOK
<1>12. CASE SweepRead
  BY <1>12 DEF TypeOK, SweepRead
<1>13. ASSUME NEW v \in Vessels, SweepDelete(v) \/ SweepDeleteFails(v) PROVE TypeOK'
  BY <1>13 DEF TypeOK, SweepDelete, SweepDeleteFails
<1>14. CASE Tick
  BY <1>14, IngestAssumption DEF TypeOK, Tick, Time
<1>15. CASE Restart
  BY <1>15, NoJobType DEF TypeOK, Restart
<1>16. CASE CacheLost
  BY <1>16 DEF TypeOK, CacheLost
<1>17. CASE UNCHANGED vars
  BY <1>17 DEF TypeOK, vars
<1> QED BY <1>1, <1>2, <1>3, <1>4, <1>5, <1>6, <1>7, <1>8, <1>9, <1>10, <1>11, <1>12,
          <1>13, <1>14, <1>15, <1>16, <1>17 DEF Next, Mqtt, Aisstream, Hydrate, Sweep

\* Every reachable state is well typed.
THEOREM TypeCorrect == Spec => []TypeOK
<1>1. Init => TypeOK
  BY IngestAssumption, NoJobType DEF Init, TypeOK, Time, Writers
<1> QED BY <1>1, TypeStep, PTL DEF Spec

-----------------------------------------------------------------------------
(* The cache agrees with lastPos unless writes overlapped or were undone.  *)

\* The inductive form: while a vessel is not suspect at most one goroutine has
\* a record of it to write, and that record is the held one.
SerialInv ==
  \A v \in Vessels : ~suspect[v] =>
    /\ \A t, u \in Writers : Writing(t, v) /\ Writing(u, v) => t = u
    /\ \A t \in Writers : Writing(t, v) => job[t].rec = lastPos[v]
    /\ (\A t \in Writers : ~Writing(t, v)) => cache[v] = lastPos[v]

\* A critical section that ends in Accept keeps it.
LEMMA AcceptSerial ==
  ASSUME TypeOK, SerialInv, NEW t \in Writers, NEW v \in Vessels, NEW rec \in Fix,
         pc[t] # "write", Accept(t, v, rec), cache' = cache
  PROVE  SerialInv'
<1> SUFFICES ASSUME NEW w \in Vessels, ~suspect'[w]
             PROVE  /\ \A x, y \in Writers : Writing(x, w)' /\ Writing(y, w)' => x = y
                    /\ \A x \in Writers : Writing(x, w)' => job'[x].rec = lastPos'[w]
                    /\ (\A x \in Writers : ~Writing(x, w)') => cache'[w] = lastPos'[w]
  BY DEF SerialInv
<1>1. Writing(t, v)' /\ job'[t].rec = lastPos'[v]
  BY DEF TypeOK, Accept, Writing
<1>2. \A x \in Writers \ {t} : Writing(x, w)' <=> Writing(x, w)
  BY DEF TypeOK, Accept, Writing
<1>3. CASE w = v
  <2>1. ~OtherWrites(t, v)
    BY <1>3 DEF TypeOK, Accept
  <2>2. \A x \in Writers : Writing(x, v)' => x = t
    BY <1>2, <1>3, <2>1 DEF OtherWrites, Writing
  <2> QED BY <1>1, <1>3, <2>2
<1>4. CASE w # v
  <2>1. ~Writing(t, w) /\ ~Writing(t, w)'
    BY <1>4 DEF TypeOK, Accept, Writing
  <2>2. ~suspect[w] /\ lastPos'[w] = lastPos[w]
    BY <1>4 DEF TypeOK, Accept
  <2>3. \A x \in Writers \ {t} : job'[x] = job[x]
    BY DEF TypeOK, Accept
  <2> QED BY <1>2, <2>1, <2>2, <2>3 DEF SerialInv
<1> QED BY <1>3, <1>4

\* A step that touches neither lastPos, the cache nor a pending write keeps it.
LEMMA OtherSerial ==
  ASSUME SerialInv, UNCHANGED <<lastPos, cache, suspect>>,
         \A t \in Writers, v \in Vessels : Writing(t, v)' <=> Writing(t, v),
         \A t \in Writers : pc[t] = "write" => job'[t] = job[t]
  PROVE  SerialInv'
  BY DEF SerialInv, Writing

LEMMA SerialStep == TypeOK /\ SerialInv /\ [Next]_vars => SerialInv'
<1> SUFFICES ASSUME TypeOK, SerialInv, [Next]_vars PROVE SerialInv'
  OBVIOUS
<1>1. ASSUME NEW v \in Vessels, NEW ts \in Time, HandleLocation(v, ts) PROVE SerialInv'
  <2>1. ApplyMeta(MkFix(ts, "digitraffic"), MetaFor(meta[v], sup[v])) \in Fix
    BY MkFixType, MetaForType, ApplyMetaFix DEF TypeOK
  <2> QED BY <1>1, <2>1, AcceptSerial DEF HandleLocation, Writers
<1>2. ASSUME NEW v \in Vessels, NEW n \in MqttNames, HandleMetadata(v, n) PROVE SerialInv'
  <2>1. n \in Label
    BY IngestAssumption DEF Label
  <2>2. CASE lastPos[v] # Nothing
    <3>1. lastPos[v] \in Fix
      BY <2>2 DEF TypeOK
    <3>2. ApplyMeta(lastPos[v], MetaFor(n, sup[v])) \in Fix
      BY <2>1, <3>1, MetaForType, ApplyMetaFix DEF TypeOK
    <3> QED BY <1>2, <2>2, <3>2, AcceptSerial DEF HandleMetadata, Writers
  <2>3. CASE lastPos[v] = Nothing
    BY <1>2, <2>3, OtherSerial DEF HandleMetadata, Writing
  <2> QED BY <2>2, <2>3
<1>3. CASE RefreshMeta
  <2> DEFINE v == job["aisstream"].vessel
             rec == ApplyMeta(lastPos[v], MetaFor(meta[v], sup[v]))
  <2>1. v \in Vessels
    BY DEF TypeOK, Job, Writers
  <2>2. CASE lastPos[v] # Nothing /\ rec.name # lastPos[v].name
    <3>1. lastPos[v] \in Fix
      BY <2>1, <2>2 DEF TypeOK
    <3>2. rec \in Fix
      BY <2>1, <3>1, MetaForType, ApplyMetaFix DEF TypeOK
    <3>3. Accept("aisstream", v, rec) /\ pc["aisstream"] # "write" /\ cache' = cache
      BY <1>3, <2>2 DEF RefreshMeta
    <3> QED BY <2>1, <3>2, <3>3, AcceptSerial DEF Writers
  <2>3. CASE ~(lastPos[v] # Nothing /\ rec.name # lastPos[v].name)
    <3>1. /\ pc["aisstream"] = "refresh"
          /\ pc' = [pc EXCEPT !["aisstream"] = "idle"]
          /\ job' = [job EXCEPT !["aisstream"] = NoJob]
          /\ UNCHANGED <<lastPos, cache, suspect>>
      BY <1>3, <2>3 DEF RefreshMeta
    <3> QED BY <3>1, OtherSerial DEF TypeOK, Writing
  <2> QED BY <2>2, <2>3
<1>4. ASSUME NEW v \in Vessels, NEW n \in AisNames, HandleStatic(v, n) PROVE SerialInv'
  BY <1>4, OtherSerial DEF TypeOK, HandleStatic, Writing
<1>5. ASSUME NEW v \in Vessels, NEW ts \in Time, HandleExternalPosition(v, ts)
      PROVE SerialInv'
  <2>1. ApplyMeta(MkFix(ts, "aisstream"), MetaFor(meta[v], sup[v])) \in Fix
    BY MkFixType, MetaForType, ApplyMetaFix DEF TypeOK
  <2> QED BY <1>5, <2>1, AcceptSerial DEF HandleExternalPosition, Writers
<1>6. ASSUME NEW v \in Vessels, HydrateLocation(v) PROVE SerialInv'
  <2>1. rest[v] \in Time
    BY <1>6 DEF TypeOK, HydrateLocation
  <2>2. ApplyMeta(MkFix(rest[v], "digitraffic"), MetaFor(meta[v], sup[v])) \in Fix
    BY <2>1, MkFixType, MetaForType, ApplyMetaFix DEF TypeOK
  <2>3. CASE SkipsHydrated(v, rest[v])
    BY <1>6, <2>3, OtherSerial DEF HydrateLocation, Writing
  <2>4. CASE ~SkipsHydrated(v, rest[v])
    BY <1>6, <2>2, <2>4, AcceptSerial DEF HydrateLocation, Writers
  <2> QED BY <2>3, <2>4
<1>7. ASSUME NEW t \in Writers, WritePosition(t) PROVE SerialInv'
  <2> DEFINE v == job[t].vessel
  <2>1. v \in Vessels /\ Writing(t, v)
    BY <1>7 DEF TypeOK, Job, WritePosition, Writing
  <2>2. \A x \in Writers, w \in Vessels : Writing(x, w)' => x # t /\ Writing(x, w)
    BY <1>7 DEF TypeOK, WritePosition, Writing
  <2>3. \A x \in Writers \ {t} :
          job'[x] = job[x] /\ \A w \in Vessels : Writing(x, w) => Writing(x, w)'
    BY <1>7 DEF TypeOK, WritePosition, Writing
  <2>4. \A w \in Vessels : w # v => ~Writing(t, w) /\ cache'[w] = cache[w]
    BY <1>7 DEF TypeOK, WritePosition, Writing
  <2>5. lastPos' = lastPos
    BY <1>7 DEF WritePosition
  <2>6. \A w \in Vessels : w # v => suspect'[w] = suspect[w]
    BY <1>7 DEF TypeOK, WritePosition
  <2>7. ~suspect'[v] => ~suspect[v] /\ cache'[v] = job[t].rec
    BY <1>7, <2>1 DEF TypeOK, WritePosition
  <2>8. SUFFICES ASSUME NEW w \in Vessels, ~suspect'[w]
        PROVE  /\ \A x, y \in Writers : Writing(x, w)' /\ Writing(y, w)' => x = y
               /\ \A x \in Writers : Writing(x, w)' => job'[x].rec = lastPos'[w]
               /\ (\A x \in Writers : ~Writing(x, w)') => cache'[w] = lastPos'[w]
    BY DEF SerialInv
  <2>9. ~suspect[w]
    BY <2>6, <2>7, <2>8
  <2>10. CASE w = v
    BY <2>1, <2>2, <2>5, <2>7, <2>8, <2>9, <2>10 DEF SerialInv
  <2>11. CASE w # v
    BY <2>2, <2>3, <2>4, <2>5, <2>9, <2>11 DEF SerialInv
  <2> QED BY <2>10, <2>11
<1>8. ASSUME NEW v \in Vessels, SweepDelete(v) PROVE SerialInv'
  BY <1>8 DEF TypeOK, SerialInv, SweepDelete, Writing
<1>9. CASE Restart
  BY <1>9 DEF SerialInv, Restart
<1>10. CASE CacheLost
  BY <1>10 DEF SerialInv, CacheLost
<1>11. CASE UNCHANGED <<lastPos, cache, suspect, pc, job>>
  BY <1>11, OtherSerial DEF Writing
<1>12. CASE UNCHANGED vars
  BY <1>11, <1>12 DEF vars
<1> QED BY <1>1, <1>2, <1>3, <1>4, <1>5, <1>6, <1>7, <1>8, <1>9, <1>10, <1>11, <1>12
        DEF Next, Mqtt, Aisstream, Hydrate, Sweep, PruneStatic, HydrateMetadata,
            FetchLocations, HydrateDone, SweepRead, SweepDeleteFails, Tick

\* Serial writes leave the cache with exactly the held record (ingest.go:126-137).
THEOREM SerialWritesAgreeHolds == Spec => []SerialWritesAgree
<1>1. Init => SerialInv
  BY DEF Init, SerialInv, Writing
<1>2. SerialInv => SerialWritesAgree
  BY DEF SerialInv, SerialWritesAgree
<1> QED BY <1>1, <1>2, TypeCorrect, SerialStep, PTL DEF Spec

-----------------------------------------------------------------------------
(* Who may change a held record, and into what.                            *)

\* A record that a handler may leave in lastPos[v]: a Digitraffic report, the
\* held fix under another name, or a fix that passed the test of its source.
Allowed(t, v, rec) ==
  \/ t = "mqtt" /\ rec.src = "digitraffic"
  \/ lastPos[v] # Nothing /\ rec.src = lastPos[v].src /\ rec.ts = lastPos[v].ts
  \/ rec.src = "aisstream" /\ ~DropsExternal(v, rec.ts)
  \/ rec.src = "digitraffic" /\ ~SkipsHydrated(v, rec.ts)

\* ... carrying the metadata known at that moment.
Named(v, rec) ==
  /\ meta'[v] \in Names => rec.name = meta'[v]
  /\ sup'[v] \in Names => rec.name \in Names

LEMMA MergedIsNamed ==
  ASSUME TypeOK, NEW v \in Vessels, NEW rec \in Fix,
         meta'[v] \in Label \cup {Unknown}, sup'[v] \in Label \cup {Unknown}
  PROVE  Named(v, ApplyMeta(rec, MetaFor(meta'[v], sup'[v])))
<1> DEFINE m == MetaFor(meta'[v], sup'[v])
<1>1. /\ m \in Label \cup {Unknown}
      /\ sup'[v] \in Names => m \in Names
      /\ meta'[v] \in Names => m = meta'[v]
  BY MetaForType
<1>2. m # Unknown => ApplyMeta(rec, m).name = m
  BY <1>1, ApplyMetaFix
<1> HIDE DEF m
<1>3. Unknown \notin Names
  BY IngestAssumption
<1> QED BY <1>1, <1>2, <1>3 DEF Named, m

LEMMA HowLastPosMoves ==
  ASSUME TypeOK, [Next]_vars
  PROVE  \/ lastPos' = lastPos
         \/ lastPos' = [v \in Vessels |-> Nothing]
         \/ \E t \in Writers, v \in Vessels, rec \in Fix :
              Accept(t, v, rec) /\ sup' = sup /\ Allowed(t, v, rec) /\ Named(v, rec)
<1> DEFINE Moves == \E t \in Writers, v \in Vessels, rec \in Fix :
              Accept(t, v, rec) /\ sup' = sup /\ Allowed(t, v, rec) /\ Named(v, rec)
<1> USE DEF Writers
<1>0. TypeOK'
  BY TypeStep
<1>1. ASSUME NEW v \in Vessels, NEW ts \in Time, HandleLocation(v, ts) PROVE Moves
  <2> DEFINE rec == ApplyMeta(MkFix(ts, "digitraffic"), MetaFor(meta[v], sup[v]))
  <2>1. meta' = meta /\ sup' = sup /\ Accept("mqtt", v, rec)
    BY <1>1 DEF HandleLocation
  <2>2. rec \in Fix /\ rec.src = "digitraffic"
    <3>1. MkFix(ts, "digitraffic") \in Fix /\ MkFix(ts, "digitraffic").ts = ts
            /\ MkFix(ts, "digitraffic").src = "digitraffic"
      BY MkFixType
    <3> QED BY <3>1, MetaForType, ApplyMetaFix DEF TypeOK
  <2>3. Named(v, rec)
    BY <2>1, MkFixType, MergedIsNamed DEF TypeOK
  <2> QED BY <2>1, <2>2, <2>3 DEF Allowed
<1>2. ASSUME NEW v \in Vessels, NEW n \in MqttNames, HandleMetadata(v, n), lastPos[v] # Nothing
      PROVE Moves
  <2> DEFINE rec == ApplyMeta(lastPos[v], MetaFor(n, sup[v]))
  <2>1. meta'[v] = n /\ sup' = sup /\ Accept("mqtt", v, rec)
    BY <1>2 DEF HandleMetadata, TypeOK
  <2>2. lastPos[v] \in Fix /\ n \in Label
    BY <1>2, IngestAssumption DEF TypeOK, Label
  <2>3. rec \in Fix /\ rec.src = lastPos[v].src /\ rec.ts = lastPos[v].ts
    BY <2>2, MetaForType, ApplyMetaFix DEF TypeOK
  <2>4. Named(v, rec)
    BY <2>1, <2>2, MergedIsNamed DEF TypeOK
  <2> QED BY <1>2, <2>1, <2>3, <2>4 DEF Allowed
<1>3. ASSUME RefreshMeta, lastPos' # lastPos PROVE Moves
  <2> DEFINE v == job["aisstream"].vessel
             rec == ApplyMeta(lastPos[v], MetaFor(meta[v], sup[v]))
  <2>1. v \in Vessels
    BY DEF TypeOK, Job
  <2>2. meta' = meta /\ sup' = sup /\ lastPos[v] # Nothing /\ Accept("aisstream", v, rec)
    BY <1>3 DEF RefreshMeta
  <2>3. lastPos[v] \in Fix
    BY <2>1, <2>2 DEF TypeOK
  <2>4. rec \in Fix /\ rec.src = lastPos[v].src /\ rec.ts = lastPos[v].ts
    BY <2>1, <2>3, MetaForType, ApplyMetaFix DEF TypeOK
  <2>5. Named(v, rec)
    BY <2>1, <2>2, <2>3, MergedIsNamed DEF TypeOK
  <2> QED BY <2>1, <2>2, <2>4, <2>5 DEF Allowed
<1>4. ASSUME NEW v \in Vessels, NEW ts \in Time, HandleExternalPosition(v, ts) PROVE Moves
  <2> DEFINE rec == ApplyMeta(MkFix(ts, "aisstream"), MetaFor(meta[v], sup[v]))
  <2>1. meta' = meta /\ sup' = sup /\ ~DropsExternal(v, ts) /\ Accept("aisstream", v, rec)
    BY <1>4 DEF HandleExternalPosition
  <2>2. rec \in Fix /\ rec.src = "aisstream" /\ rec.ts = ts
    <3>1. MkFix(ts, "aisstream") \in Fix /\ MkFix(ts, "aisstream").ts = ts
            /\ MkFix(ts, "aisstream").src = "aisstream"
      BY MkFixType
    <3> QED BY <3>1, MetaForType, ApplyMetaFix DEF TypeOK
  <2>3. Named(v, rec)
    BY <2>1, MkFixType, MergedIsNamed DEF TypeOK
  <2> QED BY <2>1, <2>2, <2>3 DEF Allowed
<1>5. ASSUME NEW v \in Vessels, HydrateLocation(v), ~SkipsHydrated(v, rest[v]) PROVE Moves
  <2> DEFINE rec == ApplyMeta(MkFix(rest[v], "digitraffic"), MetaFor(meta[v], sup[v]))
  <2>1. meta' = meta /\ sup' = sup /\ Accept("hydrate", v, rec) /\ rest[v] \in Time
    BY <1>5 DEF HydrateLocation, TypeOK
  <2>2. rec \in Fix /\ rec.src = "digitraffic" /\ rec.ts = rest[v]
    BY <2>1, MkFixType, MetaForType, ApplyMetaFix DEF TypeOK
  <2>3. Named(v, rec)
    BY <2>1, MkFixType, MergedIsNamed DEF TypeOK
  <2> QED BY <1>5, <2>1, <2>2, <2>3 DEF Allowed
<1>6. CASE lastPos' = lastPos
  BY <1>6
<1>7. CASE Restart
  BY <1>7 DEF Restart
<1> HIDE DEF Moves
<1>8. lastPos' = lastPos \/ Restart \/ Moves
  BY <1>1, <1>2, <1>3, <1>4, <1>5
     DEF Next, vars, Mqtt, Aisstream, Hydrate, Sweep, HandleMetadata, HandleStatic,
         PruneStatic, HydrateMetadata, FetchLocations, HydrateLocation, HydrateDone,
         WritePosition, SweepRead, SweepDelete, SweepDeleteFails, Tick, CacheLost
<1> QED BY <1>6, <1>7, <1>8 DEF Moves

\* Digitraffic keeps every vessel it has reported (ingest.go:47-49).
THEOREM AuthorityKeptHolds == Spec => AuthorityKept
<1>1. ASSUME TypeOK, [Next]_vars
      PROVE  [\A v \in Vessels :
                lastPos[v].src = "digitraffic" =>
                  lastPos'[v].src = "digitraffic" \/ lastPos' = [u \in Vessels |-> Nothing]]_vars
  <2>1. ASSUME NEW v \in Vessels, NEW t \in Writers, NEW w \in Vessels, NEW rec \in Fix,
               Accept(t, w, rec), Allowed(t, w, rec), lastPos[v].src = "digitraffic"
        PROVE  lastPos'[v].src = "digitraffic"
    BY <1>1, <2>1 DEF TypeOK, Accept, Allowed, DropsExternal, Nothing
  <2> QED BY <1>1, <2>1, HowLastPosMoves
<1> QED BY <1>1, TypeCorrect, PTL DEF Spec, AuthorityKept

\* Late aisstream reports and the hydration answer never undo a newer fix.
THEOREM HeldFixAdvancesHolds == Spec => HeldFixAdvances
<1>1. ASSUME TypeOK, [Next]_vars
      PROVE  [\A v \in Vessels :
                (lastPos'[v] # Nothing /\ lastPos'[v].ts < lastPos[v].ts) =>
                  \/ job'["mqtt"] = [vessel |-> v, rec |-> lastPos'[v]]
                  \/ lastPos[v].src = "aisstream" /\ lastPos'[v].src = "digitraffic"]_vars
  <2>1. ASSUME NEW v \in Vessels, lastPos'[v] # Nothing, lastPos'[v].ts < lastPos[v].ts,
               NEW t \in Writers, NEW w \in Vessels, NEW rec \in Fix,
               Accept(t, w, rec), Allowed(t, w, rec)
        PROVE  \/ job'["mqtt"] = [vessel |-> v, rec |-> lastPos'[v]]
               \/ lastPos[v].src = "aisstream" /\ lastPos'[v].src = "digitraffic"
    <3>1. lastPos[v] \in Fix \cup {Nothing} /\ lastPos[v].ts \in Int
      BY <1>1 DEF TypeOK, Fix, Nothing, Time
    <3>2. rec.ts \in Int /\ rec.ts >= 0
      BY IngestAssumption DEF Fix, Time
    <3>3. CASE w # v
      BY <1>1, <2>1, <3>1, <3>3 DEF TypeOK, Accept
    <3>4. CASE w = v
      <4>1. lastPos'[v] = rec /\ job'[t] = [vessel |-> v, rec |-> rec]
        BY <1>1, <2>1, <3>4 DEF TypeOK, Accept
      <4>2. lastPos[v] # Nothing
        BY <2>1, <3>2, <4>1 DEF Nothing
      <4> QED BY <2>1, <3>1, <3>2, <3>4, <4>1, <4>2
              DEF Allowed, DropsExternal, SkipsHydrated, Fix
    <3> QED BY <3>3, <3>4
  <2> QED BY <1>1, <2>1, HowLastPosMoves DEF TypeOK, Fix, Nothing, Time
<1> QED BY <1>1, TypeCorrect, PTL DEF Spec, HeldFixAdvances

\* The supplement never overrides Digitraffic (ingest.go:73-74).
THEOREM SupplementOnlyFillsHolds == Spec => SupplementOnlyFills
<1>1. ASSUME TypeOK, [Next]_vars
      PROVE  [\A v \in Vessels :
                (lastPos'[v] # lastPos[v] /\ lastPos'[v] # Nothing /\ meta'[v] \in Names) =>
                  lastPos'[v].name = meta'[v]]_vars
  <2>1. ASSUME NEW v \in Vessels, NEW t \in Writers, NEW w \in Vessels, NEW rec \in Fix,
               Accept(t, w, rec), Named(w, rec), lastPos'[v] # lastPos[v], meta'[v] \in Names
        PROVE  lastPos'[v].name = meta'[v]
    BY <1>1, <2>1 DEF TypeOK, Accept, Named
  <2> QED BY <1>1, <2>1, HowLastPosMoves
<1> QED BY <1>1, TypeCorrect, PTL DEF Spec, SupplementOnlyFills

-----------------------------------------------------------------------------
(* Names appear.                                                           *)

\* The inductive form of NameAppears: while a static report is being handled,
\* every other vessel already satisfies it.
NameInv ==
  \A v \in Vessels :
    (sup[v] \in Names /\ lastPos[v] # Nothing
       /\ ~(pc["aisstream"] = "refresh" /\ job["aisstream"].vessel = v))
      => lastPos[v].name \in Names

LEMMA NameStep == TypeOK /\ NameInv /\ [Next]_vars => NameInv'
<1> SUFFICES ASSUME TypeOK, NameInv, [Next]_vars, NEW v \in Vessels,
                    sup'[v] \in Names, lastPos'[v] # Nothing,
                    ~(pc'["aisstream"] = "refresh" /\ job'["aisstream"].vessel = v)
             PROVE  lastPos'[v].name \in Names
  BY DEF NameInv
<1>1. CASE lastPos' = [u \in Vessels |-> Nothing]
  BY <1>1
<1>2. ASSUME NEW t \in Writers, NEW w \in Vessels, NEW rec \in Fix,
             Accept(t, w, rec), sup' = sup, Named(w, rec)
      PROVE  lastPos'[v].name \in Names
  <2>1. CASE w = v
    BY <1>2, <2>1 DEF TypeOK, Accept, Named
  <2>2. CASE w # v
    <3>1. lastPos'[v] = lastPos[v] /\ sup[v] \in Names
      BY <1>2, <2>2 DEF TypeOK, Accept
    <3>2. CASE pc["aisstream"] = "refresh" /\ job["aisstream"].vessel = v
      <4>1. t # "aisstream"
        <5>1. CASE RefreshMeta
          BY <1>2, <2>2, <3>2, <5>1 DEF RefreshMeta, Accept, TypeOK, Writers
        <5>2. CASE ~RefreshMeta
          BY <1>2, <3>2, <5>2
             DEF Next, vars, Mqtt, Aisstream, Hydrate, Sweep, Accept, TypeOK, Writers,
                 HandleLocation, HandleMetadata, HandleStatic, HandleExternalPosition,
                 PruneStatic, HydrateMetadata, FetchLocations, HydrateLocation, HydrateDone,
                 WritePosition, SweepRead, SweepDelete, SweepDeleteFails, Tick, CacheLost,
                 Restart
        <5> QED BY <5>1, <5>2
      <4> QED BY <1>2, <3>2, <4>1 DEF TypeOK, Accept, Writers
    <3>3. CASE ~(pc["aisstream"] = "refresh" /\ job["aisstream"].vessel = v)
      BY <3>1, <3>3 DEF NameInv
    <3> QED BY <3>2, <3>3
  <2> QED BY <2>1, <2>2
<1>3. CASE lastPos' = lastPos
  <2>1. CASE sup[v] \in Names /\ ~(pc["aisstream"] = "refresh" /\ job["aisstream"].vessel = v)
    BY <1>3, <2>1 DEF NameInv
  <2>2. CASE sup[v] \notin Names
    <3>1. sup' # sup
      BY <2>2
    <3>2. \E w \in Vessels : (\E n \in AisNames : HandleStatic(w, n)) \/ PruneStatic(w) \/ Restart
      BY <3>1 DEF Next, vars, Mqtt, Aisstream, Hydrate, Sweep,
                  HandleLocation, HandleMetadata, HandleExternalPosition,
                  HydrateMetadata, FetchLocations, HydrateLocation, HydrateDone,
                  WritePosition, SweepRead, SweepDelete, SweepDeleteFails, Tick, CacheLost,
                  RefreshMeta
    <3>3. Unknown \notin Names
      BY IngestAssumption
    <3>4. PICK w \in Vessels, n \in AisNames : HandleStatic(w, n)
      BY <2>2, <3>2, <3>3 DEF PruneStatic, Restart, TypeOK
    <3>5. w = v
      BY <2>2, <3>4 DEF HandleStatic, TypeOK
    <3>6. pc'["aisstream"] = "refresh" /\ job'["aisstream"].vessel = v
      BY <3>4, <3>5 DEF HandleStatic, TypeOK, Writers
    <3> QED BY <3>6
  <2>3. CASE pc["aisstream"] = "refresh" /\ job["aisstream"].vessel = v
    <3>1. RefreshMeta
      BY <1>3, <2>3 DEF Next, vars, Mqtt, Aisstream, Hydrate, Sweep, TypeOK, Writers, Accept,
                 HandleLocation, HandleMetadata, HandleStatic, HandleExternalPosition,
                 PruneStatic, HydrateMetadata, FetchLocations, HydrateLocation, HydrateDone,
                 WritePosition, SweepRead, SweepDelete, SweepDeleteFails, Tick, CacheLost,
                 Restart
    <3>2. ApplyMeta(lastPos[v], MetaFor(meta[v], sup[v])).name = lastPos[v].name
      BY <1>3, <2>3, <3>1 DEF RefreshMeta, Accept, TypeOK
    <3>3. v \in Vessels /\ lastPos[v] \in Fix /\ sup[v] \in Names
      BY <1>3, <3>1 DEF TypeOK, RefreshMeta
    <3>4. MetaFor(meta[v], sup[v]) \in Names
      BY <3>3, MetaForType DEF TypeOK
    <3>5. MetaFor(meta[v], sup[v]) \in Label \cup {Unknown}
            /\ MetaFor(meta[v], sup[v]) # Unknown
      BY <3>4, IngestAssumption DEF Label
    <3> QED BY <1>3, <3>2, <3>3, <3>4, <3>5, ApplyMetaFix
  <2> QED BY <2>1, <2>2, <2>3
<1> QED BY <1>1, <1>2, <1>3, HowLastPosMoves

\* "a name appears without waiting for the next position fix" (ingest.go:92-94).
THEOREM NameAppearsHolds == Spec => []NameAppears
<1>1. Init => NameInv
  BY DEF Init, NameInv
<1>2. NameInv => NameAppears
  BY DEF NameInv, NameAppears
<1> QED BY <1>1, <1>2, TypeCorrect, NameStep, PTL DEF Spec

=============================================================================
