------------------------------- MODULE Ingest -------------------------------
(***************************************************************************)
(* How a vessel's record reaches the live cache: meri/ais/ingest.go,       *)
(* meri/ais/hydrate.go and the stale sweep of meri/service.go.             *)
(*                                                                         *)
(* Three goroutines write records.  Each takes IngestionWorker.mu, decides *)
(* and updates lastPos, RELEASES the lock, and only then writes the cache, *)
(* so between the two halves any other goroutine may run:                  *)
(*   "mqtt"      the Digitraffic callbacks (paho delivers them in order),  *)
(*   "aisstream" the callbacks of the aisstream.io session,                *)
(*   "hydrate"   the one REST hydration after the start.                   *)
(* A fourth, the sweep, reads the whole cache and then deletes the stale   *)
(* entries one by one, without the lock.  The process may restart; lastPos *)
(* and the metadata are then lost, the cache only when it is in memory.    *)
(*                                                                         *)
(* A fix is its time stamp, its source and its name: "name" stands for the *)
(* seven metadata fields, which the code handles alike.                    *)
(***************************************************************************)
EXTENDS Integers

CONSTANTS
  Vessels,     \* the MMSIs
  Names,       \* the non-empty values of a metadata field
  NoName,      \* the field left empty
  Unknown,     \* no metadata record at all
  MqttNames,   \* the field as Digitraffic may report it
  AisNames,    \* the field as aisstream may report it
  MaxTime,     \* bound of the model: the clock stops here
  StaleAfter,  \* staleThresholdSeconds
  Persistent   \* the cache is Redis and outlives the process

ASSUME IngestAssumption ==
  /\ Vessels # {}
  /\ NoName \notin Names
  /\ Unknown \notin Names \cup {NoName}
  /\ MqttNames \subseteq Names \cup {NoName}
  /\ AisNames \subseteq Names \cup {NoName}
  /\ MaxTime \in Nat
  /\ StaleAfter \in Nat
  /\ Persistent \in BOOLEAN

VARIABLES
  now,      \* the wall clock, seconds
  meta,     \* w.meta: what Digitraffic reported
  sup,      \* aisstream's static data, behind w.supplement
  lastPos,  \* w.lastPos
  cache,    \* the positions in the cache
  pc,       \* what each writing goroutine is about to do
  job,      \* the vessel and the record it carries out of the lock
  stage,    \* how far hydration is
  rest,     \* the time stamps of the REST answer still to be applied, or -1
  doomed,   \* the vessels the running sweep is about to delete
  suspect   \* history: the vessel's last write overlapped another or was undone

vars == <<now, meta, sup, lastPos, cache, pc, job, stage, rest, doomed, suspect>>

Writers == {"mqtt", "aisstream", "hydrate"}
Time == 0..MaxTime
Label == Names \cup {NoName}
Fix == [ts : Time, src : {"digitraffic", "aisstream"}, name : Label]
Nothing == [ts |-> -1, src |-> "none", name |-> NoName]
Job == [vessel : Vessels, rec : Fix \cup {Nothing}]

TypeOK ==
  /\ now \in Time
  /\ meta \in [Vessels -> Label \cup {Unknown}]
  /\ sup \in [Vessels -> Label \cup {Unknown}]
  /\ lastPos \in [Vessels -> Fix \cup {Nothing}]
  /\ cache \in [Vessels -> Fix \cup {Nothing}]
  /\ pc \in [Writers -> {"idle", "refresh", "write"}]
  /\ job \in [Writers -> Job]
  /\ stage \in {"metadata", "fetch", "locations", "done"}
  /\ rest \in [Vessels -> Time \cup {-1}]
  /\ doomed \subseteq Vessels
  /\ suspect \in [Vessels -> BOOLEAN]

NoJob == [vessel |-> CHOOSE v \in Vessels : TRUE, rec |-> Nothing]

Init ==
  /\ now = 0
  /\ meta = [v \in Vessels |-> Unknown]
  /\ sup = [v \in Vessels |-> Unknown]
  /\ lastPos = [v \in Vessels |-> Nothing]
  /\ cache = [v \in Vessels |-> Nothing]
  /\ pc = [t \in Writers |-> "idle"]
  /\ job = [t \in Writers |-> NoJob]
  /\ stage = "metadata"
  /\ rest = [v \in Vessels |-> -1]
  /\ doomed = {}
  /\ suspect = [v \in Vessels |-> FALSE]

-----------------------------------------------------------------------------
(* Metadata.                                                               *)

\* Faulty: the supplement overrides Digitraffic.
MetaForSupplementFirst(m, s) == IF s \in Names THEN s ELSE m

\* metaFor and fillFrom: Digitraffic's field, else the supplement's.
MetaFor(m, s) == IF s = Unknown \/ m \in Names THEN m ELSE s

\* Faulty: the name of a vessel without metadata is overwritten all the same.
ApplyMetaUnchecked(rec, m) == [rec EXCEPT !.name = m]

\* applyMeta, when there is metadata to apply.
ApplyMeta(rec, m) == IF m = Unknown THEN rec ELSE [rec EXCEPT !.name = m]

MkFix(ts, src) == [ts |-> ts, src |-> src, name |-> NoName]

\* Another goroutine holds a record of v that it has not written yet.
OtherWrites(t, v) == \E u \in Writers \ {t} : pc[u] = "write" /\ job[u].vessel = v

\* The end of every critical section that accepts a record: lastPos has it, and
\* the goroutine goes on to write it to the cache.
Accept(t, v, rec) ==
  /\ lastPos' = [lastPos EXCEPT ![v] = rec]
  /\ job' = [job EXCEPT ![t] = [vessel |-> v, rec |-> rec]]
  /\ pc' = [pc EXCEPT ![t] = "write"]
  /\ suspect' = [suspect EXCEPT ![v] = OtherWrites(t, v)]

\* writePosition: an error of the cache is only logged.
WritePosition(t) ==
  LET v == job[t].vessel IN
  /\ pc[t] = "write"
  /\ pc' = [pc EXCEPT ![t] = "idle"]
  /\ job' = [job EXCEPT ![t] = NoJob]
  /\ \/ /\ cache' = [cache EXCEPT ![v] = job[t].rec]
        /\ UNCHANGED suspect
     \/ /\ suspect' = [suspect EXCEPT ![v] = TRUE]
        /\ UNCHANGED cache
  /\ UNCHANGED <<now, meta, sup, lastPos, stage, rest, doomed>>

-----------------------------------------------------------------------------
(* Digitraffic over MQTT.                                                  *)

\* handleLocation: always accepted, however old the fix is.
HandleLocation(v, ts) ==
  /\ pc["mqtt"] = "idle"
  /\ ts <= now
  /\ Accept("mqtt", v, ApplyMeta(MkFix(ts, "digitraffic"), MetaFor(meta[v], sup[v])))
  /\ UNCHANGED <<now, meta, sup, cache, stage, rest, doomed>>

\* Faulty: the merged record is written but not kept.
HandleMetadataNotKept(v, n) ==
  /\ pc["mqtt"] = "idle"
  /\ lastPos[v] # Nothing
  /\ meta' = [meta EXCEPT ![v] = n]
  /\ pc' = [pc EXCEPT !["mqtt"] = "write"]
  /\ job' = [job EXCEPT !["mqtt"] =
               [vessel |-> v, rec |-> ApplyMeta(lastPos[v], MetaFor(n, sup[v]))]]
  /\ UNCHANGED <<now, sup, lastPos, cache, stage, rest, doomed, suspect>>

\* handleMetadata: the held record, if any, is re-written with the new metadata.
HandleMetadata(v, n) ==
  /\ pc["mqtt"] = "idle"
  /\ meta' = [meta EXCEPT ![v] = n]
  /\ \/ /\ lastPos[v] # Nothing
        /\ Accept("mqtt", v, ApplyMeta(lastPos[v], MetaFor(n, sup[v])))
     \/ /\ lastPos[v] = Nothing
        /\ UNCHANGED <<lastPos, job, pc, suspect>>
  /\ UNCHANGED <<now, sup, cache, stage, rest, doomed>>

-----------------------------------------------------------------------------
(* aisstream.io.                                                           *)

\* handle's static merge: the supplement changes under the client's own lock,
\* and OnStatic is called after it.
HandleStatic(v, n) ==
  /\ pc["aisstream"] = "idle"
  /\ sup[v] # n
  /\ sup' = [sup EXCEPT ![v] = n]
  /\ pc' = [pc EXCEPT !["aisstream"] = "refresh"]
  /\ job' = [job EXCEPT !["aisstream"] = [vessel |-> v, rec |-> Nothing]]
  /\ UNCHANGED <<now, meta, lastPos, cache, stage, rest, doomed, suspect>>

\* RefreshMeta: re-merge, and write only if the metadata of a held record changed.
RefreshMeta ==
  LET v == job["aisstream"].vessel
      updated == ApplyMeta(lastPos[v], MetaFor(meta[v], sup[v]))
      changed == lastPos[v] # Nothing /\ updated.name # lastPos[v].name
  IN
  /\ pc["aisstream"] = "refresh"
  /\ \/ /\ changed
        /\ Accept("aisstream", v, updated)
     \/ /\ ~changed
        /\ pc' = [pc EXCEPT !["aisstream"] = "idle"]
        /\ job' = [job EXCEPT !["aisstream"] = NoJob]
        /\ UNCHANGED <<lastPos, suspect>>
  /\ UNCHANGED <<now, meta, sup, cache, stage, rest, doomed>>

\* Faulty: only the age is compared.
DropsExternalByAge(v, ts) == lastPos[v].ts >= ts

\* HandleExternalPosition's test: Digitraffic reports v, or the fix is not newer.
DropsExternal(v, ts) ==
  /\ lastPos[v] # Nothing
  /\ lastPos[v].src # "aisstream" \/ lastPos[v].ts >= ts

\* Faulty: the fix is stored as it came.
HandleExternalPositionBare(v, ts) ==
  /\ pc["aisstream"] = "idle"
  /\ ts <= now
  /\ ~DropsExternal(v, ts)
  /\ Accept("aisstream", v, MkFix(ts, "aisstream"))
  /\ UNCHANGED <<now, meta, sup, cache, stage, rest, doomed>>

HandleExternalPosition(v, ts) ==
  /\ pc["aisstream"] = "idle"
  /\ ts <= now
  /\ ~DropsExternal(v, ts)
  /\ Accept("aisstream", v, ApplyMeta(MkFix(ts, "aisstream"), MetaFor(meta[v], sup[v])))
  /\ UNCHANGED <<now, meta, sup, cache, stage, rest, doomed>>

\* pruneLoop: static data not seen for the retention time goes.
PruneStatic(v) ==
  /\ sup[v] # Unknown
  /\ sup' = [sup EXCEPT ![v] = Unknown]
  /\ UNCHANGED <<now, meta, lastPos, cache, pc, job, stage, rest, doomed, suspect>>

-----------------------------------------------------------------------------
(* Hydration from REST.                                                    *)

\* hydrateMetadata never replaces what MQTT delivered.  A failed request is an
\* answer with no vessel in it.
HydrateMetadata(got) ==
  /\ stage = "metadata"
  /\ stage' = "fetch"
  /\ meta' = [v \in Vessels |-> IF meta[v] = Unknown THEN got[v] ELSE meta[v]]
  /\ UNCHANGED <<now, sup, lastPos, cache, pc, job, rest, doomed, suspect>>

\* hydrateLocations' request: the answer is as old as the moment it was made.
FetchLocations(got) ==
  /\ stage = "fetch"
  /\ stage' = "locations"
  /\ \A v \in Vessels : got[v] <= now
  /\ rest' = got
  /\ UNCHANGED <<now, meta, sup, lastPos, cache, pc, job, doomed, suspect>>

\* Faulty: the REST answer is taken for fresher than anything held.
SkipsHydratedNever(v, ts) == FALSE

\* MQTT already delivered a fix at least as fresh.
SkipsHydrated(v, ts) ==
  /\ lastPos[v] # Nothing
  /\ lastPos[v].src # "aisstream"
  /\ lastPos[v].ts >= ts

\* One iteration of hydrateLocations' loop, up to the write.
HydrateLocation(v) ==
  /\ stage = "locations"
  /\ pc["hydrate"] = "idle"
  /\ rest[v] # -1
  /\ rest' = [rest EXCEPT ![v] = -1]
  /\ \/ /\ SkipsHydrated(v, rest[v])
        /\ UNCHANGED <<lastPos, job, pc, suspect>>
     \/ /\ ~SkipsHydrated(v, rest[v])
        /\ Accept("hydrate", v,
                  ApplyMeta(MkFix(rest[v], "digitraffic"), MetaFor(meta[v], sup[v])))
  /\ UNCHANGED <<now, meta, sup, cache, stage, doomed>>

HydrateDone ==
  /\ stage = "locations"
  /\ pc["hydrate"] = "idle"
  /\ \A v \in Vessels : rest[v] = -1
  /\ stage' = "done"
  /\ UNCHANGED <<now, meta, sup, lastPos, cache, pc, job, rest, doomed, suspect>>

-----------------------------------------------------------------------------
(* The sweep, the clock, the process and the cache.                        *)

Stale(v) == cache[v] # Nothing /\ now - cache[v].ts > StaleAfter

\* Faulty: only the vessels this process has heard of are swept.
SweepReadHeld ==
  /\ doomed = {}
  /\ doomed' = {v \in Vessels : Stale(v) /\ lastPos[v] # Nothing}
  /\ doomed' # {}
  /\ UNCHANGED <<now, meta, sup, lastPos, cache, pc, job, stage, rest, suspect>>

\* cleanupStaleVessels reads every position and the clock first ...
SweepRead ==
  /\ doomed = {}
  /\ doomed' = {v \in Vessels : Stale(v)}
  /\ doomed' # {}
  /\ UNCHANGED <<now, meta, sup, lastPos, cache, pc, job, stage, rest, suspect>>

\* ... and deletes afterwards, by key alone.  A failed delete is only logged.
SweepDelete(v) ==
  /\ v \in doomed
  /\ doomed' = doomed \ {v}
  /\ cache' = [cache EXCEPT ![v] = Nothing]
  /\ suspect' = [suspect EXCEPT ![v] = TRUE]
  /\ UNCHANGED <<now, meta, sup, lastPos, pc, job, stage, rest>>

SweepDeleteFails(v) ==
  /\ v \in doomed
  /\ doomed' = doomed \ {v}
  /\ UNCHANGED <<now, meta, sup, lastPos, cache, pc, job, stage, rest, suspect>>

Tick ==
  /\ now < MaxTime
  /\ now' = now + 1
  /\ UNCHANGED <<meta, sup, lastPos, cache, pc, job, stage, rest, doomed, suspect>>

\* The process dies at any point and is started again.
Restart ==
  /\ meta' = [v \in Vessels |-> Unknown]
  /\ sup' = [v \in Vessels |-> Unknown]
  /\ lastPos' = [v \in Vessels |-> Nothing]
  /\ cache' = IF Persistent THEN cache ELSE [v \in Vessels |-> Nothing]
  /\ pc' = [t \in Writers |-> "idle"]
  /\ job' = [t \in Writers |-> NoJob]
  /\ stage' = "metadata"
  /\ rest' = [v \in Vessels |-> -1]
  /\ doomed' = {}
  /\ suspect' = [v \in Vessels |-> TRUE]
  /\ UNCHANGED now

\* The installed Redis is capped at 64 MB and evicts any key: the positions are
\* one hash, so they go all at once.
CacheLost ==
  /\ cache # [v \in Vessels |-> Nothing]
  /\ cache' = [v \in Vessels |-> Nothing]
  /\ suspect' = [v \in Vessels |-> TRUE]
  /\ UNCHANGED <<now, meta, sup, lastPos, pc, job, stage, rest, doomed>>

-----------------------------------------------------------------------------
Mqtt == \E v \in Vessels :
  \/ \E ts \in Time : HandleLocation(v, ts)
  \/ \E n \in MqttNames : HandleMetadata(v, n)

Aisstream ==
  \/ RefreshMeta
  \/ \E v \in Vessels :
       \/ \E n \in AisNames : HandleStatic(v, n)
       \/ \E ts \in Time : HandleExternalPosition(v, ts)
       \/ PruneStatic(v)

Hydrate ==
  \/ \E got \in [Vessels -> MqttNames \cup {Unknown}] : HydrateMetadata(got)
  \/ \E got \in [Vessels -> Time \cup {-1}] : FetchLocations(got)
  \/ \E v \in Vessels : HydrateLocation(v)
  \/ HydrateDone

Sweep ==
  \/ SweepRead
  \/ \E v \in Vessels : SweepDelete(v) \/ SweepDeleteFails(v)

Next ==
  \/ Mqtt
  \/ Aisstream
  \/ Hydrate
  \/ \E t \in Writers : WritePosition(t)
  \/ Sweep
  \/ Tick
  \/ Restart
  \/ CacheLost

Spec == Init /\ [][Next]_vars

\* The sweep runs every minute; strong fairness says that its deletes are not
\* all lost to failures of the cache or to a process that keeps dying.
Fairness ==
  /\ WF_vars(SweepRead)
  /\ \A v \in Vessels : SF_vars(SweepDelete(v))

FairSpec == Spec /\ Fairness

-----------------------------------------------------------------------------
(* Properties.                                                             *)

Writing(t, v) == pc[t] = "write" /\ job[t].vessel = v

\* The lock covers lastPos but not the cache (ingest.go:126-137).  The two may
\* still disagree on a vessel only if two of its writes overlapped, one failed,
\* or the entry was deleted: a serial write leaves exactly the held record.
SerialWritesAgree ==
  \A v \in Vessels :
    (~suspect[v] /\ \A t \in Writers : ~Writing(t, v)) => cache[v] = lastPos[v]

\* After a static report has been handled, the vessel's held record is named:
\* "a name appears without waiting for the next position fix" (ingest.go:92-94).
NameAppears ==
  \A v \in Vessels :
    (pc["aisstream"] # "refresh" /\ sup[v] \in Names /\ lastPos[v] # Nothing)
      => lastPos[v].name \in Names

\* "Digitraffic takes over any MMSI it reports itself" (ingest.go:47-49): as long
\* as the process lives no handler gives the held record back to aisstream.
AuthorityKept ==
  [][\A v \in Vessels :
       lastPos[v].src = "digitraffic" =>
         lastPos'[v].src = "digitraffic" \/ lastPos' = [u \in Vessels |-> Nothing]]_vars

\* A held fix goes back in time only for a live Digitraffic report, or when
\* Digitraffic takes the vessel over: hydration works on an answer fetched
\* earlier and aisstream reports arrive late, and neither may undo a newer fix.
HeldFixAdvances ==
  [][\A v \in Vessels :
       (lastPos'[v] # Nothing /\ lastPos'[v].ts < lastPos[v].ts) =>
         \/ job'["mqtt"] = [vessel |-> v, rec |-> lastPos'[v]]
         \/ lastPos[v].src = "aisstream" /\ lastPos'[v].src = "digitraffic"]_vars

\* "Digitraffic stays authoritative; the supplement only fills empty fields"
\* (ingest.go:73-74), whichever handler writes the record.
SupplementOnlyFills ==
  [][\A v \in Vessels :
       (lastPos'[v] # lastPos[v] /\ lastPos'[v] # Nothing /\ meta'[v] \in Names) =>
         lastPos'[v].name = meta'[v]]_vars

\* "anything silent for 15 min is gone" (service.go:143-144): a stale entry is
\* removed or refreshed, although metadata handlers may write it back.
StaleGoes == \A v \in Vessels : Stale(v) ~> ~Stale(v)

\* The claim of ingest.go:47-49 read on the cache that clients see: "the two
\* sources never interleave on one vessel".  A late aisstream write refutes it.
SourcesNeverInterleave ==
  [][\A v \in Vessels : ~(cache[v].src = "digitraffic" /\ cache'[v].src = "aisstream")]_vars

=============================================================================
