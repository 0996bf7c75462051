# Fintraffic: a verification project in TLA+

Fintraffic is one Go process and one React page.  The process collects what
Finnish and community services publish about ships (*meri*), trains (*raide*),
roads (*tie*) and aircraft (*ilma*), keeps it in a cache, and serves it; the page
draws it.  This directory holds TLA+ modules for the concurrent parts of both, the TLC
configurations that check them on small instances, and proofs that TLAPS checks for
every instance.

Run, in this directory:

    tlc -workers 2 -config StreamHub.cfg MCStreamHub.tla    # a model-checking run
    tlapm StreamHubProofs.tla                               # a proof module

`PROJECT.json` lists the components, the runs with their properties, the source
lines behind every definition, the hazards, the findings, the theorems, and for
each checked property a *mutant*: a plausible bug in one definition (the operators
marked `Faulty:` in the modules) under which the property fails.

## 1. Inventory

`B` is `src/backend/internal`, `F` is `src/frontend/src`.

| Component | State | Operations | Hard behaviour | What makes it correct |
|---|---|---|---|---|
| Vessel ingest (`B/meri/ais`, the sweep in `B/meri/service.go`) | metadata, `lastPos`, the live cache | MQTT location and metadata, aisstream position and static data, REST hydration, stale sweep | three writers and a sweep; the lock covers `lastPos` but not the cache; late answers; restart with a Redis that kept or lost its data | one source owns a vessel; positions do not go back; names appear and are not overwritten; stale vessels leave |
| Live stream (`B/meri/ws/hub.go`, `F/modes/meri/hooks/useWebSocket.ts`, `useVesselData.ts`) | clients, `lastSent`, a channel per client, a vessel map per browser | register, deregister, tick, write, reconnect, unmount | one `lastSent` for all clients; full channels; half-dead connections; cache errors | no send on a closed channel; deltas fit; the map converges |
| Upstream proxy cache (`B/core/upstream`) | entries with expiry, single flights | get, fetch, set with sweep | bursts of requests, failures, expiry during a flight | few upstream calls; fresh answers; bounded memory; everyone is answered |
| Trail store (`B/meri/trail`) | gate, queue, buffer, SQLite table | add, flush, prune, close, queries | queue limit, failed transactions, crash, restart | spacing; one order from queue to table; rows stay; close loses nothing |
| aisstream client (`B/meri/aisstream`) | static data, connection state | session, handle, prune | reconnect backoff, reports in parts | a blank field never wipes a known one; it reconnects |
| Live cache (`B/core/cache`) | positions, values with a time to live | set, get, delete | expiry, Redis outage | expiry is honoured |
| Snapshot stores and pollers (`B/raide`, `B/tie`, `B/ilma` stores and services, `B/meri/seaconditions.go`) | cached snapshot, in-process mirror, health | poll, retry, get, health | cache failures between polls, dead pollers, joins of feeds polled at different times | what visitors get is a poll result; age is bounded; health tells |
| Railway merge and boards (`B/raide/merge.go`) | none | merge positions with timetables, boards | cancelled, late, duplicate rows | nothing is lost or doubled; order |
| Road feeds (`B/tie`) | none | seasons, work zones, maintenance routes, nearest weather | year ends, gaps, empty feeds | agree with a reference definition |
| Air feed and trails (`B/ilma/adsb.go`, `trails.go`) | trail per aircraft | normalise, merge circles, record | the same aircraft in several circles, eviction | newest wins; trails bounded and ordered |
| Sea conditions feed (`B/meri/fmi`) | none | parse | missing values | as above |
| Meri HTTP handlers (`B/meri/handlers.go`) | none | clamp, compose, reply | limits | replies respect the caps |
| Server, health, configuration (`B/core/server`, `B/core/config`) | none | route, health | - | the worst mode decides |
| Process lifecycle (`src/backend/cmd/fintraffic`) | running goroutines | start, signal, stop | order of stops, blocked handlers | the trail store closes last and cleanly |
| Replay in the browser (`F/modes/meri/hooks/use*Replay.ts`, `useVesselTrail.ts`, the frame loop of `F/modes/meri/components/Map.tsx`) | sessions, play state, load ids, the map's refs and clocks | open, leave, play, pause, seek, choose a window, an answer, an animation frame | answers after the vessel, the window or the mind has changed; refs one effect behind the state; latches that stop the drawing | what plays is what is selected and was asked for; play moves; the overlay is fresh; loading and playing end |
| Application shell (`F/App.tsx`, the four `*App.tsx`, `F/shared/hooks`, `Panel.tsx`, `SheetViewSwitch.tsx`) | mode, selection, folds, the sheet of a phone, what the details fetched, address bar, local storage | select, close, fold, turn the phone, switch mode, poll, answer, reload | late answers; a selection that the stream takes away and brings back; one sheet for two panels | the page is about one thing; answers leave the visitor in peace; a reload comes back |
| Maps (`F/modes/*/components/Map.tsx`, `mapIcons.ts`, `markerIcons.ts`, `layers.ts`) | style, overlays, handlers, refs, fetches and images under way | mount, theme, toggle, style events, images, answers, frames | `setStyle` throws overlays away while fetches and images are under way; closures as old as the map | shown as asked, in the basemap's colours, handlers once, everything returns |
| Markup of panels and popups, style sheets | - | draw | - | - |
| Deployment and changelog scripts, workflows | files | - | - | - |

How they interact: the aisstream client calls back into ingest and is asked by it
for static data; ingest writes the live cache and adds to the trail store; the hub
and the health check read the cache; handlers read the trail store, the snapshot
stores and the proxy; pollers write the snapshot stores; the page opens one stream
and polls the endpoints of the mode it shows.  In the page the shell mounts one mode;
the mode owns the selection and hands it, with the theme and the visibility of the
layers, to its map; the map calls back with clicks and with what it has polled; the
replay hooks hand the sea map a control and are called back by its frame loop.

## 2. Modules

| Module | Models | Runs | Proofs |
|---|---|---|---|
| `Ingest` | `ais/ingest.go`, `ais/hydrate.go`, sweep of `service.go` | `Ingest.cfg`, `IngestRace.cfg` | `IngestProofs` |
| `StreamHub`, `MCStreamHub` | `ws/hub.go` and the two hooks | `StreamHub.cfg` | `StreamHubProofs` |
| `VesselFeed` | what the stream promises a page | through `StreamFeed` | `StreamFeedProofs` |
| `StreamFeed`, `MCStreamFeed` | `StreamHub` with the reports numbered | `StreamFeed.cfg` | `StreamFeedProofs` |
| `UpstreamBudget` | what the proxy promises its upstream | through `CachedProxy` | `CachedProxyProofs` |
| `CachedProxy`, `MCCachedProxy` | `core/upstream/proxy.go` | `CachedProxy.cfg` | `CachedProxyProofs` |
| `TrailLog` | what the trail store promises ingest and its readers | through `TrailStore` | `TrailStoreProofs` |
| `TrailStore` | write side of `trail/store.go` | `TrailStore.cfg`, `TrailRestart.cfg` | `TrailStoreProofs` |
| `Replay` | the three replay hooks, `MeriApp`'s part in them, the frame loop of the sea map | `Replay.cfg`, `ReplayBar.cfg` | `ReplayProofs` |
| `StyledMap` | what the four maps share: style, theme, overlays, handlers | through `Maps` | `MapsProofs` |
| `RaideMap`, `IlmaMap`, `TieMap`, `MeriMap` | one `Map.tsx` each, with its images and layers | through `Maps` | `MapsProofs` |
| `Maps` | the composition: one mode's map at a time | `Maps.cfg` | `MapsProofs` |
| `Panels` | what the four pages share: filters, details, the phone's sheet | through `Apps` | `AppsProofs` |
| `RaideApp`, `IlmaApp`, `TieApp`, `MeriApp` | one `*App.tsx` each, with its searches and popups | through `Apps` | `AppsProofs` |
| `Apps` | the composition: `App.tsx`, link, reload | `Apps.cfg`, `AppsShown.cfg` | `AppsProofs` |

### Ingest

`meta`, `lastPos` and `cache` are the worker's maps and the positions in the cache;
`sup` is the static data of the aisstream client.  A critical section under `w.mu`
is one action; the write to the cache that follows it is another, because the lock
has been released (`pc[t] = "write"`, `job[t]`).  paho delivers the callbacks of the
one MQTT subscription in order (`SetOrderMatters` is not changed), so MQTT is one
writer; the aisstream session and the hydration goroutine are the other two.  The
sweep reads all positions, then deletes by key.  The seven metadata fields are
handled alike and are one field, `name`; the coordinates decide nothing.  Calls of
`trail.Add` touch only the trail store and are modelled there.  `Restart` empties
the process at any point; `Persistent` tells whether the cache survives; `CacheLost`
is the eviction of the hash in the Redis that `deploy/install.sh` configures.

`suspect` is a history variable: a vessel is suspect when its last write overlapped
another, failed, or was deleted.  It lets `SerialWritesAgree` say exactly when the
missing lock over the cache matters.

### StreamHub

`Hub.Run` is one goroutine whose sends never block, so `Register`, `Unregister` and
each kind of tick are single actions; the two hub channels are unbuffered, hence
their guards.  A connection consists of its handler (`handler`), its writer
(`writer`), its queue (`send`) and the state of the link; browsers own connections
through `socket` and may have several that the server still believes alive.
`lastSent[v] = -1` stands for a vessel that is not in the map, `Absent` for one that
is not in the cache.  Records are opaque but for their time stamp.  The reconnect
delay is any delay.  Resyncs are counted modulo the interval.

Two history variables: `told[c]`, the map a client has once it has read its queue,
and `based[c]`, whether the client got a snapshot to which `lastSent` was set and
no message to it was skipped since.

`StreamFeed` numbers the reports of a vessel: the tag of a record is the number of its
write, whatever its time stamp.  Its actions are those of `StreamHub` with two history
variables, `writes`, the last number per vessel, and `shown`, the number a page last
showed.  `VesselFeed`, the abstract specification, has these two alone: a report is
written, a page catches up with some vessels, never back and never ahead, or a page is
left.  What a page shows may disappear and come back, but no earlier than it was.

### CachedProxy and UpstreamBudget

A payload is represented by the time at which upstream gave it, so freshness can be
stated.  A request looks in the cache (`Ask`), and joins or leads the flight of its
key; a flight looks again, fetches, stores, returns.  `golang.org/x/sync/singleflight`
is modelled from its use: one flight per key, everyone on board gets its result.
The clock does not advance while a flight is returning: waking the waiters takes
less than the clock's unit (a second); fetching and everything else may take any time.
`UpstreamBudget` is the abstract specification: sets of keys being called and keys
with a fresh copy; a call starts only for a key in neither.

### TrailStore

`gate` is `lastTs`, `queue` the channel, `buf` the writer's buffer, `rows` the table
with its primary key.  `Add` is called for one vessel by two goroutines, MQTT's
(`B/meri/ais/ingest.go:260`) and aisstream's (`ingest.go:138`), and is two steps: `Pass` takes the
fix through the gate under the lock, `Send` queues it, or drops it, when the lock has
been released.  In between the point is in the caller's hand (`held`), and the other
caller may pass the gate with a later point and queue it first.  So points are queued,
buffered and committed in an order that need not be that of time; readers of the table
do not see that, for their queries sort by time stamp.  A transaction is atomic: it commits all points of the buffer
or none, and the buffer is empty either way.  `Close` tells the writer, which drains,
flushes and ends while ingest may still add.  `Crash` happens at any time.  History:
`written`, what this process committed, and `owed`, what `Close` found in queue and
buffer; what a caller holds at that moment is owed to nobody.
`TrailLog` is the abstract specification: `passed` is what the gate has accepted and the
callers hold, `pending` what is queued and not in the table, the buffer followed by the
queue (`pending <- buf \o queue`), `last` the gate.  What has passed enters `pending`
once, in any order, or is dropped.  A batch, which is the front of `pending`, is committed whole or lost whole,
and with the process goes all of it.  Whether a point finds room is left open.

### Replay

React is what makes these hooks hard, so it is in the model.  A state update and its
render are one step; the effects of a render run later.  `due` says when: a click's
run before anything else (`"sync"`), those of a fetch or a frame after any other
callback (`"passive"`), and always before the next render, so every step first
applies `Flush`.  `view` is what effects maintain and what late code reads instead of
the state: `keyRef`, the controls mirrored for the frame loop, its clocks and dirty
latches, the vessel the trail is polled for.  `sought` is a seek whose nonce the map
has not seen.  A track is its vessel and its last moment; a request is stale once
`loadIdRef` has moved on.  A frame may take the clock anywhere ahead and may or may
not report (reports are throttled).  History: `wanted`, per playback, whether it was
asked for and not left since.

### StyledMap, the four maps, Maps

A map is a record: the theme of its style, the styles asked for that have not come,
whether `load` was announced, `styleReadyRef`, whether somebody listens for
`styledata`, the overlays (none, or ink, visibility, data), and per clickable overlay
how often its handlers were registered.  Ink is the theme whose colours an overlay
was drawn in.  `jobs` is what the mount effect has under way.  The four maps differ in
exactly what makes overlays come back: Raide installs rails at once and trains after
stations after icons; Ilma installs all at once from what refs keep; Tie starts nine
fetches after the stations; Meri creates empty layers and lets effects and a frame
loop fill them.  A mode change clears timers and removes the map; answers that still
come find no map, their errors are caught.

MapLibre is external and modelled from its use: documents of styles arrive in the
order they were asked for, and throw away layers, sources and images;
`styledata` may be about the style still on the map.  `early` is the history of that
last case, in which a listener takes the old style for the new one;
`InkOfBasemap` and `OverlaysReturn` say what holds without it.

Alike in the code, in loops, and one in the model: the four groups of trains and of
aircraft; two calls of one fetch that are under way.  Incidents are roadworks with
another address (`fetchPoiLayer`), so the run watches roadworks.  Tie's feeds meet
only in what `installLayers` starts, so a map watches the stations and one of the
others (`Watched`).

### Panels, the four pages, Apps

A click with its render and its effects is one step.  `sel` has one field per kind of
selection of the mode; `lastKey` is the selection as last rendered, which `useSheetView`
compares; `view` is what the phone's one sheet shows; `loads` are the fetches of
boards, trails and popups, alive until their effect is cleaned up, and `panel` is what
their last answer was about.  `screen` is what the two media queries say: wide, upright
phone, phone on its side.  Where a panel covers the map, the map cannot be tapped
(`MapInSight`, `Tappable`).  Meri adds the linked vessel, the stream that brings and
takes vessels, the vessel's page, and the address bar; the fleet replay begins, ends
and finds the vessel as it likes (`Replay` has it in full).  History: `browsed`, whether
the filters were asked for over this very selection.

## 3. Runs

| Run | Instance | What it shows |
|---|---|---|
| `ingest` | 1 vessel, 2 source names, clock 0..1, persistent cache | `SerialWritesAgree`, `NameAppears`, `AuthorityKept`, `HeldFixAdvances`, `SupplementOnlyFills`, `StaleGoes` under all interleavings |
| `ingest_race` | the same without persistence | finding 1 below |
| `stream_hub` | 2 vessels, 1 browser, 2 connections, queue 1, resync every 2nd tick | `NoSendOnClosed`, `BasedTracksHub`, `ToldArrives` |
| `stream_feed` | 1 vessel with three reports, each on time, late or with the time stamp of the last, 1 browser, 1 connection, queue 2, resync every 3rd tick | `KeepsOrder`, that `VesselFeed` is implemented, and `Converges` |
| `cached_proxy` | 2 keys, 2 requests, time to live 1, sweep every 2, clock 0..3 | `AnswersAreFresh`, `SweptClean`, `EveryRequestReturns`, and that `UpstreamBudget` is implemented |
| `trail_store` | 2 callers, 1 vessel, 2 contents, time stamps 1..4, interval 2, queue 1, batch 2 | `RecordedSpaced`, `CloseFlushes`, `NothingLingers`, `CloseReturns`, and `KeepsLog`, that `TrailLog` is implemented |
| `trail_restart` | the same with one content and queue 2 | finding 2 below |
| `replay` | 2 vessels, 1 window, time 0..1, 1 fetch of a track at a time | `OnlyWhatWasAsked`, `PlaysSelection`, `PlayingMoves`, `OverlayFresh`, `LoadingEnds`, `PlaybackEnds` |
| `replay_bar` | 1 vessel | finding 3 below |
| `maps` | all modes, 2 themes, 2 styles under way, Meri with two toggles, Tie with the stations and one of seven feeds | `AsAsked`, `InkOfBasemap`, `BoundOnce`, `OverlaysReturn` |
| `apps` | all modes, two selectable things of the main kind of each, 3 screens | `OfSelection`, `BrowseWasAsked`, `AnswersKeepSelection`, `ReloadKeepsPlace` |
| `apps_shown` | the same | finding 4 below |

Why the bounds are enough.  Vessels in `Ingest` and `TrailStore` do not interact
except through queues, so one vessel shows every interleaving of its writers; two
time stamps suffice for older, equal and newer.  In `StreamHub` two vessels are
needed, because a message that mentions one must not disturb the other, and two
connections, so that a dying one and a new one coexist; capacity one makes every
skip happen, capacity two a queue of several messages.  Two requests are enough for
one to miss while the other's flight lands; two keys make the sweep meet foreign
entries.  In `Replay` two vessels make the selection change under a load, and moments 0
and 1 are the start and the end of a window, which is where clocks latch; one fetch of
a track at a time still leaves stale ones, because leaving makes the pending one
stale; with one window the run says nothing of a change of window, which
`PlaysSelectionHolds` covers.  In `Maps` two styles under way are enough for a theme
that changes before the last change has arrived.  In `Apps` two of a kind make one
selection replace another.
In `TrailStore` two points of a vessel can pass the gate before the process ends, which
is enough for the second to be queued before the first, or in its place.  `CloseReturns`
holds with ingest adding because `MaxTs` leaves it finitely much to add: the loop that
drains ends when it finds the queue empty, and ingest is stopped before the store is
closed (`service.go:190-195`), save for what callbacks under way still add.
In `StreamFeed` three reports are enough to go back after a skipped one, and a queue of
two to have two under way; a later one may have the earlier time stamp, so that no delta
mentions it.  With one connection a page comes back when the server has done with the
old one; the page with several is left to `StreamKeepsOrder`, for the instance with
fairness would be too large.
Symmetry (connections, vessels) is used in the safety run of the hub only.
Every action fires in these runs.

Bounds that are in the modules: `MaxTime` (clock of `Ingest` and `CachedProxy`),
`MaxTs` (time stamps of `TrailStore`), `QueueCap`, `BatchSize`, `ResyncInterval`
(parameters of the code, small in the runs), `End` and `MaxReqs` (recorded time and
fetches of `Replay`), `MaxComing` (styles under way in `Maps`), `Watched` and
`MeriToggles` (overlays of `Maps`).  Deadlock is checked in every passing
run.

Fairness.  `Ingest`: the sweep's ticker fires (weak), and its delete does not fail
for ever (strong, for Redis may be away at times).  `StreamHub`: the ticker, the hub's receive and
the writers run (weak), and not every resync meets a cache error (strong).
`CachedProxy`: goroutines run and a call upstream ends, its client has a timeout of
30 s (weak).  `TrailStore`: callers run on to their send, which does not block, the
writer runs, and Go's `select` picks every ready case in the long run (weak).  `Replay`: React runs effects (weak); frames go on, their clock
advancing, and a fetch ends, though clicks may come between (strong).  `Maps`: the
events of a style, images, effects, frames and timers come (weak), and an endpoint
that is polled again and again does not fail for ever (strong).  Nothing is assumed of visitors, upstream services or links.

### Findings

1. `ingest_race`.  `ingest.go:47-49` says the two sources never interleave on one
   vessel.  They do in the cache: the aisstream callback updates `lastPos` and
   releases the lock, a Digitraffic location is accepted and written, and then the
   aisstream record is written over it.  The cache shows aisstream's fix until the
   next report.
2. `trail_restart`.  `store.go:73-75` calls `intervalSec` the minimum spacing between
   recorded points per vessel.  It is, within one process (`RecordedSpaced`); the
   gate is not loaded from the table, so a restart may record two closer points.

3. `replay_bar`.  `useFleetReplay.ts:21-22` says `visible` is true when the bar should be
   on the screen, and `exit` means to abandon a fetch under way (`:122`).  It does not
   reset `loading`: leave while the window loads, and the answer is dropped, nothing
   is under way, and the bar stays.
4. `apps_shown`.  `useSheetView.ts:22-23` says selecting something shows it.  On an
   upright phone, ask for the filters over a selection and tap the same marker
   again: the key has not changed, and the filters, or their launcher where they are
   folded as in the trace, stay in the place of the details.

Two more races are named in the modules instead of having a run.  The colours of
roadworks and incidents are read when their fetch is called, and not when it is
answered as the comment at `tie/components/Map.tsx:246-247` has it, so a theme that
changes in between leaves them in the other one's colours (`InkOfBasemap` excludes
them).  And a listener for `styledata` may be called for the old style (`early`).

## 4. Proofs

TLAPS proves, for every value of the constants under the named assumptions
(`IngestAssumption`, `HubAssumption`, `FeedAssumption`, `ProxyAssumption`, `TrailAssumption`,
`ReplayAssumption`, `MapsAssumption`, `AppsAssumption`), every safety property the
passing runs check, invariants and action properties, and the three refinements.  The
assumptions say that the null values are no members of the sets they stand beside,
that bounds and intervals are positive, in `FeedAssumption` that reports are numbered
from one and no report is number zero, and, in `MapsAssumption`, that the instance
watches overlays the code has.

* `IngestProofs`: the types, `SerialWritesAgree`, `AuthorityKept`, `HeldFixAdvances`,
  `SupplementOnlyFills`, `NameAppears`.  The types are inductive.  For
  `SerialWritesAgree` the inductive invariant adds what the pending job of each
  writer says about `lastPos`; the action properties follow from the types by a
  case per action; `NameAppears` adds that records held while `sup` has a name are
  merged with it.
* `StreamHubProofs`: the types, `NoSendOnClosed`, `BasedTracksHub`, `ToldArrives`.  The inductive
  invariant `HubInv` adds `ClientsHandled`: a client is registered only between the
  two requests of its handler, its channel is open as long as there is a handler,
  and only registered clients are based.  Without it a new connection could reuse a
  based client's entry.  The core is `DeltaTracks`: applying the delta between
  `lastSent` and the cache to a map that tracks `lastSent` gives one that tracks the
  cache.  `ToldArrives` says that a queue `Turns` the browser's map into what was told,
  which is a fold written as the row of maps in between, for the provers cannot do an
  induction over the queue; a send makes the row longer (`TurnsMore`), a write takes its
  first map away (`TurnsRead`).  The invariant `Fed` adds that the queue of a connection
  that is not registered is empty, and that a working link has a handler that reads or
  will be registered.
* `StreamFeedProofs`: `StreamKeepsOrder`, the refinement of `VesselFeed`.  The inductive
  invariant stands on `HubInv` and `Fed`.  `Numbered` says that what is cached is the
  last report and that what a page has on its map is the last it has shown; `Underway`
  that every queue has the reports of a vessel in order, none after the last one
  written and, for the page of the connection, none before what it has shown.  A new
  connection has an empty queue (`Fed`), so a page brings nothing along that could be
  earlier than its map; and a connection has one page (`OnePage`), so a message that is
  shown is one page catching up.
* `CachedProxyProofs`: the types, `AnswersAreFresh`, `SweptClean` and
  `ProxyKeepsBudget`, the refinement of `UpstreamBudget`.  The inductive invariant
  adds that a flight about to return holds an unexpired payload; the refinement
  maps each step to a call, an answer, an expiry or a stutter (`BudgetStep`).
* `TrailStoreProofs`: the types, `RecordedSpaced`, `CloseFlushes`, `RowsStay`, and
  `TrailKeepsLog`, the refinement of `TrailLog`.  The run checks neither the types
  nor `RowsStay`: `KeepsLog` implies `RowsStay` and the primary key of the table.
  The types need `Life` (the writer runs while the store is open).  `RecordedSpaced`
  is inductive with them (`SpacedInv`): committed, buffered and queued points form one
  track, and the gate is at or above all of it and all that callers hold, so what it
  lets through is `Interval` from any of them.  A held point is apart from the track
  (`Clear`) and from what the other callers hold (`Hands`), so it may be queued at any
  time; a point that moves on leaves the track as it is, and a failed transaction drops
  its middle (`MiddleDropped`).  For `CloseFlushes` the invariant says where the owed
  points may be while the store closes.  The refinement maps each step to one of the
  log or a stutter (`LogStep`).  It needs `SpacedInv` twice: no two callers hold the
  same point, so one that is sent has left `passed`; and in a batch whose points are
  apart no two have the same key, so `INSERT OR IGNORE` ignores nothing but what the
  table already has (`InsertedSpread`).
* `ReplayProofs`: the types, `OnlyWhatWasAsked`, `PlaysSelection`, `PlayingMoves` and
  `OverlayFresh`.  `OnlyWhatWasAsked` and `PlaysSelection` are inductive with `Asked` (a
  fetch whose number is still the latest was asked for) and `Settled` (the track is
  settled under the key of the moment, and `keyRef` has its vessel and window unless a
  click has just been rendered).  `Clocks` relates each clock of the map to the hook it
  reports to: unless a seek is about to move it, it runs to the same end, and when it
  has latched that end the hook is paused there, so play starts over.  `EffectsFit`
  shows that the effects establish it and `TameStep` that no step of a visitor or an
  answer breaks it.  `OverlayFresh` needs `Drawing`: without a mark that asks for a frame
  the drawing is that of the control and the clock of the frame loop, and the control
  belongs to a session of the same vessel or a seek is about to be seen; otherwise a
  new session could take over the clean mark of the one before.  For the types (`Types`)
  the pending fetches, the seeks and the mirrored controls have types of their own.
* `MapsProofs`: the types, `AsAsked`, `InkOfBasemap` and `BoundOnce`, for the map of every
  mode.  The inductive invariant is, per mode, `Kept`: the last style asked for is that
  of the theme, and a map that takes layers waits for no other style unless it took an
  old one for it (`Target`); what is on it has the ink of its style (`Inked`); handlers
  are registered at most once, and once while the overlay is on (`Bound`); and
  `Shown` says what is visible, on the sea map up to the effects that are due.  Each
  step of a mode keeps its own `Kept`, and `setStyle` and the events of a style are
  treated once for all four.  `MapsInv` is checked by TLC as well.
* `AppsProofs`: the types, `OfSelection`, `BrowseWasAsked`, and the action properties
  `AnswersKeepSelection` and `ReloadKeepsPlace`.  The inductive invariant says of each
  page that the key last rendered is the key of the selection, that what the details
  show and every fetch that is alive are about the selection, and, of the sea page,
  that the address bar names the selected vessel.  A fetch about something else would
  let its answer put that on the page; that none is alive is what the cleanup of the
  effects is for.

Only model-checked: everything temporal under fairness, which is out of the provers'
reach (`StaleGoes`, `Converges`, `EveryRequestReturns`, `NothingLingers`, `CloseReturns`,
`LoadingEnds`, `PlaybackEnds`, `OverlaysReturn`).  The four runs that expect a violation
need no proof: a counterexample on a small instance is one.

## 5. Plan

In this order:

1. Done: `Ingest`, `StreamHub`, `CachedProxy` with `UpstreamBudget`, `TrailStore`, and the
   page: `Replay`, `Maps`, `Apps`.
2. Done: the proofs of every safety property of these modules, and abstract
   specifications of the stream (`VesselFeed`) and of the trail store (`TrailLog`) with
   the refinements proved.
3. `Snapshots`: a poller, the shared cache with expiry and failures, the in-process
   mirror and the health report, for raide, tie, ilma and the sea conditions; the
   comment on the times to live (`raide/store.go:32-34`) against the mirror that
   never expires.
4. `AisstreamSession`: dial, subscribe, read, backoff, and the merge of static
   reports that come in parts.
5. `Feeds`: pure operators for `decimate`, `Track`, `FleetTrack`, `MergeTrains`,
   `BuildBoard`, `mergeAircraft`, `mergeMaintenanceRoutes`, the seasonal limits and the
   ilma trails, each against a reference definition over bounded inputs.
6. `Meri`: the composition of ingest and stream, from a report to the browser's map.

## 6. Not modelled

Markup of panels and popups, style sheets, static assets, the geometry of what is
drawn (positions, interpolation, clustering) and the parsing of the upstream formats
beyond what a property is about: they keep no state that several actors share.  So do
the railway merge, the road feeds, the sea conditions feed and the meri handlers,
stateless functions over one answer; they are in the plan as operators.  The
deployment scripts, the changelog tools and the workflows are outside the program.
Prometheus counters and log lines decide nothing.

The search boxes and taps on the map are
modelled by the selections they make; the locate button keeps a marker of its own
and is left out.  Errors inside MapLibre (a style that cannot be
fetched, an image that cannot be decoded) are not: the code has no path for them but
the one an overlay takes that is never drawn.

The snapshot stores, the session of the aisstream client, the trails of aircraft and
the process lifecycle do have behaviour worth checking and are next in the plan;
`PROJECT.json` marks them `not_modelled` or `partly`.
