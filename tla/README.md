# A verification development of the restaurant wait-time estimator

TLA+ models of `restaurant-wait-time-estimator` (package `wte`), checked with TLC
on small instances, and theorems about them checked with TLAPS for every instance.
Paths below are relative to `src/restaurant-wait-time-estimator/src/wte` unless
they say otherwise; `PROJECT.json` maps every definition to the lines it stands for.

## 1. The system

A camera in the restaurant watches the queue. An **edge agent** reads its stream,
blurs faces, detects and tracks people, and uploads one metadata frame (tracked
people and their boxes, no pixels) per sampled picture. The **API process** turns
frames into zone events ("track 7 entered the queue", "left after 90 s"), keeps a
live estimate of the waiting time per location, mixes in orders that **POS
providers** send as webhooks, decides when a scene is worth a call to a
vision-language model, and pushes estimates to browsers. With a database URL set it
stores zone events and POS events in TimescaleDB under row-level security.

| Component | Source | State | Operations |
|---|---|---|---|
| Zone engine | `vision/zones.py` | `_enter_ts`, `_last_seen` | `update`, `expire`, `occupancy`, the hit test of the zones |
| Edge uplink | `edge/agent.py` | the spool directory, the frame in hand | `send`, `_post`, `_drain`, the loop of `run` |
| Wait-time engine | `waittime/engine.py` | per location: dwells, people in the queue, orders, last video time | `on_zone_event`, `on_pos_event`, `on_heartbeat`, `estimate` (which trims) |
| Matcher | `connectors/matcher.py` | per location: unmatched exits, pending check_opens | `on_zone_event`, `on_pos_event` |
| Trigger policy | `vlm/triggers.py` | per camera id: last call, history, dwell baseline | `record_dwell`, `evaluate` |
| Webhooks, deduplication | `api/state.py`, `connectors/base.py`, `db/repo.py` | LRU of event ids, table `pos_events` | `ingest_webhook`, `seen`, `_on_pos_event` |
| Application state, bus | `api/state.py`, `core/bus.py` | everything above, plus `last_estimates`, `vlm_triggers`, `pos_orders_5m` | `ingest_frame`, `register_camera`, the bus handlers |
| WebSocket hub | `api/state.py` | sockets by tenant and location | `add`, `remove`, `broadcast` |
| Pipeline, tracker | `vision/pipeline.py`, `vision/tracker.py` | empty streak; tracks | `process`, `update` |
| Detector, blur | `vision/detector.py`, `edge/blur.py` | none | pure |
| Forecast | `forecast/*` | latest forecast by location | `run`, `latest`, best times |
| Connectors | `connectors/{toast,square,sevenrooms}.py` | none | `verify`, `normalize` |
| Repository, RLS | `db/*` | tables, a pool of connections, the tenant context of each | inserts, reads |
| HTTP API, auth | `api/main.py`, `api/auth.py` | none of its own | routes |
| VLM client | `vlm/client.py` | none | one external call |
| Widget | `web/widget/wait-widget.js` | timer, socket, chart | callbacks |

**Interaction.** Edge to API and POS to API are HTTP requests that fail, time out
and are retried. Inside the API process everything runs on one asyncio event loop.
The in-memory bus calls its handlers one after the other, and nothing in them
suspends except the database insert (and, at the very end of a request, the sends
to sockets). So a request runs alone up to the insert, and any number of other
requests run before it goes on. All services share state keyed by location id or
camera id.

**What is hard.** Frames arrive late, twice and out of order (spool, lost answers,
requests overtaking each other at the insert), while the zone engine, the windows,
the matcher and the trigger policy all compare times. State is read after an await.
The database may refuse an insert after the live state has changed. Agent and server
may be killed at any point, with a spool file half written or a save half done.
Retries race the request they repeat. Shared state is trimmed by every reader. A camera
is registered again while its frames are under way. Calls of all tenants share ten
connections whose sessions carry the tenant.

**What makes each component correct.** The zone engine: each person in a zone is
counted once, from entering to leaving or to being silent for `max_silence_s`, and
every dwell goes back to pictures that show it. Zones that share a border share it
without gap or overlap. The uplink: nothing the camera took
is lost, little is sent twice, and a backlog is worked off. The wait engine: the
windows contain what they say, readers do not disturb each other, stale video is
never reported as fresh, the band contains the percentiles. The matcher: a pairing
is one-to-one, and maximal. The trigger policy: calls are spaced, and made. Webhooks:
an order is counted once and stored once, and an answered order is stored. The
repository: writes are atomic, reads see their own tenant only, and calls end. The whole:
the live count, the engines, the published estimate and the tables agree. Hub and
widget: what is shown in the end is the current wait. Tracker and pipeline: an id
stays with the place of the person it was given to, and somebody the detector loses for
a moment keeps their stay. The
forecast: the times it proposes are the best, and apart.

## 2. Modules

The operations of a component are operators on its state (`ZoneTracking`, `Polygon`,
`WaitTime`, `OrderStatistics`, `Matching`, `TriggerPolicy`, `Idempotency`, `Connectors`,
`IouTracker`), one operator per function or step of the code. A state machine drives them: alone
(`ZoneEngine`, `WaitEngine`, `Matcher`, `VlmTriggers`, `TenantPool`, `Forecast`) with
everything its callers may do, and together: `AppState` instantiates the operator
modules of the API process, `Webhook` puts the connectors in front of the
deduplication store they share, `EdgeCamera` joins tracker, frame rate, hit test and
zone engine of a camera, and `WaitWidget` puts a browser at the other end of the
sockets of `WsHub`. Two abstract specifications say what a part promises: `Presence`
(the events of a zone engine) and `TenantStore` (the calls of the repository).

| Module | What it models | Correspondence |
|---|---|---|
| `ZoneTracking` | the two dictionaries of a zone engine | `SeenNow`, `EnterNow`, `EnteredKeys` are the first loop of `update`, `LeftKeys` the second, `Silent` to `ExpireEvents` are `expire`, `Dwell` and the events are `_close` and `_event`; `UpdateEvents`, `UpdateEnter`, `UpdateSeen` are `update` as a whole |
| `ZoneEngine` | one camera, frames in any order | `Update` is `update`; `film` and `shown` remember what the camera showed, `ordered` whether the frames came in order so far, to state what the engine should say |
| `Presence` | the abstract contract of the events | implemented by `ZoneEngine` (`ContractSpec`) |
| `Uplink` | agent, spool, wall clock and link | `Capture` is the loop body, `SendAcked`/`SendFailed` are `send`, `DrainAcked`/`Unlink`/`DrainFailed` are `_drain`, step by step because the agent can be killed between them; the spool is the directory in the order of its names, `clock` says where the wall clock stands among them, `Save` is `write_bytes` under the name it gives, `StepBack` a correction of the clock |
| `UplinkHistory` | the same with a record of what the server processed and in which order frames were taken | each step of `Uplink` with what the server made of its post; answers may be lost; `recent` and `before` leave out what the clock was stepped back between |
| `WaitTime` | the state of one location and all operations on it | times are integers, waits are exact fractions; `Estimate` has the branches of `estimate` in order |
| `OrderStatistics` | `np.percentile` and `np.median`, of a sequence or of a series by bucket | `Quantile` interpolates between the neighbours of its place; used by `WaitTime` and `Forecast` |
| `WaitEngine` | everything that calls it | zone events keep the contract of `Presence`; POS events carry the server's clock |
| `Matching`, `Matcher` | the two deques; a server clock with late exits and a skewed edge clock | `MatchExit` is `on_zone_event`, `MatchPos` is `on_pos_event`, both with `_trim` |
| `TriggerPolicy`, `VlmTriggers` | what is kept per camera; one call of the policy per frame | `Reason` and `Evaluate` are `evaluate`, the four anomalies are `_anomalies` |
| `Idempotency`, `Connectors` | the LRU with TTL; `normalize` of Toast, Square and SevenRooms | `Normalize` is the set of the events a payload stands for (none or one), with the providers' event maps, Square's rule for fulfilments, and the id that `str()` makes of a missing one; `Key` is the key of `seen` |
| `Webhook` | the life of a payload | `DeliverNew` and `DeliverAgain` are `ingest_webhook` of a POS event up to the insert, `Saved`/`SaveFails` its outcome, `DeliverBooking` the whole of it for a booking |
| `TenantStore` | the abstract contract of the repository: writes take effect in one step, reads get rows of their tenant only, and calls end | implemented by `TenantPool` (`StoreSpec`) |
| `TenantPool` | connections, their waiters, transactions, and the tenant of a session | one action per awaited step of `tenant()` and of the inserts and reads inside it: `Acquire`, `Begin`, `SetTenant` (`set_config`), `InsertRow`, `FetchSeries` (`wait_series`), `FetchExport` (`export_tenant`), `Commit`, `Release`, and `AcquireFails` and `Rollback` wherever one raises; `Refresh` is the database filling the aggregate `wait_time_15m` in the background |
| `AppState` | the API process | `Frame` is `ingest_frame` up to the insert, `FrameSaved` the rest of it; `Order`/`OrderSaved` are `_on_pos_event`; `Read` is a GET, a new socket, or a seated reservation (which publishes an estimate and does nothing else); `RegisterAgain` is `register_camera` of a camera that is running; `orphans` remembers who was counted then |
| `WsHub` | the hub, its broadcasts, the handlers of sockets | `Publish`, `Send`, `SendShut` are `broadcast` between two awaits; `Connect`, `Greet`, `HandlerEnds` are `ws_location`; `Change` and `Shut` are the world |
| `WaitWidget` | one widget | one action per callback of `wait-widget.js`: `Connected`, `Disconnected`, `Closed` (onclose), `Reconnect` (its timer), `Poll` (the interval), `RenderAnswer` |
| `Polygon` | ray casting, and the point of a person that is tested | `Crosses` is the body of the loop of `point_in_polygon`, `Anchor` is `BBox.anchor`, `ZoneContains` is `Zone.contains` |
| `IouTracker`, `EdgeCamera` | the greedy tracker; one camera and its zones | `Candidates`, `Sorted`, `Matching`, `TracksAfter`, `NewId` are the parts of `update` in their order, on tracks kept by id (the list is always in the order of its ids); `Process` is `CameraPipeline.process`, `Turn` one turn of the loop of `run` |
| `Forecast` | training, cache, forecasts, best times | `Run` is `ForecastService.run` with `Series`, `Tier`, `SlotBuckets`, `Predict` for what it calls; `Train` is `train_forecast` up to the insert, `TrainRaises` the same when `fit` raises, `Saved`/`SaveFails` the rest; `Ranked` is the sort in `best_windows`; `BestWindows` and `BestTimes` are the functions of the same names |
| `CameraProofs`, `TenantPoolProofs`, `UplinkProofs`, `WebhookProofs`, `WaitWidgetProofs`, `LocationProofs`, `VlmTriggersProofs`, `AppStateProofs` | theorems about the module each is named after (`CameraProofs`: `ZoneEngine` and `EdgeCamera`; `UplinkProofs`: `UplinkHistory`; `LocationProofs`: `WaitEngine`, `Matcher` and `Forecast`, which keep the figures of a location) | section 5 |
| `MCVlmTriggers`, `MCWebhook`, `MCAppState`, `MCEdgeCamera`, `MCForecast`, `MCTenantPool`, `MCServices` | scenes, payloads and a symmetry set, cameras, boxes and polygons, observations, and calls for TLC | `MCServices` puts `Matcher`, `VlmTriggers` and `Forecast` in one run: they share no state, so one of them moves at a time. `MCEdgeCamera` also assumes, so that TLC evaluates it, that the hit test agrees with the textbook definition on every triangle of a grid, and that a floor cut in two by any bent line has each of its points in exactly one part |

Choices a reader may ask about:

- In `ZoneEngine` a frame is what remains after the polygon test (which `EdgeCamera` makes): the tracked people it shows and the
  keys `<<tracker, zone kind>>` whose polygon contains them. Detections without a
  track id are skipped by the code and are not in a frame.
- A frame delivered twice is the same frame: `film` holds what the camera took at a
  time. Two frames of one camera do not share a timestamp (they are 100 ms apart).
- The events of one `update` are a set in `ZoneTracking`; `AppState` hands them to
  the handlers in every order the code can produce (`Batches`): enters, then exits
  seen, then exits by silence, in any order inside a group.
- Heartbeats use the location in the frame's metadata, zone events the one of the
  registered camera. The models assume the two agree, as `run` and the registration
  take both from the camera's configuration.
- Requests that await the database when their camera is registered again keep the
  replaced engine (`held`), as the local variable of the coroutine does.
- `np.percentile` is modelled by its linear interpolation on exact fractions, `round`
  by round-half-even. The one-decimal display values are left out.
- The frames of `EdgeCamera` show boxes of one height side by side, so a box is an
  interval and an IoU is a fraction of integers. Their feet are level with a vertex of
  a zone, and one is on the slanted border of both: the cases in which a ray-casting
  test counts a vertex twice or a border for both sides. The model divides exactly;
  `x_at_y` of the code is a float.
- The tables that the inserts write are one set of rows in `TenantPool`: each has the
  same policy in `001_init.sql`. The rows of an insert carry the tenant of its call
  (`OwnRowsAssumption`): one camera's engine stamps all events of a frame. Reads go
  elsewhere. `wait_series` reads the continuous aggregate `wait_time_15m`, which the
  database fills from `zone_events` now and then and which has no policy
  (`001_init.sql:170-182` only grants it): what keeps a series to its tenant is the WHERE
  of `repo.py:88` alone. `export_tenant` reads `wait_time_buckets`, which has a policy and
  which no code of the repository writes. Nothing calls either yet.
- A spool file is named `int(time.time() * 1000)` and the names are sorted
  (`agent.py:58`, `:72`). Two frames whose clock only advances have different names, since
  a post that fails and the detection of the next frame lie between them; the clock may be
  stepped back at any time, and a file then lies before older ones or replaces the one of
  that millisecond. The loop's throttle (`agent.py:105-107`) reads the same clock, and takes
  no frame until it has passed the time of the last one again.
- `WaitWidget` chooses at the start whether the browser takes the address of the element
  (`usable`): where the constructor of the socket throws, `openSocket` opens nothing and
  schedules nothing, and the poll goes on.
- An estimate in `WsHub` and `WaitWidget` is the number of the state of the location it
  was computed from: what a client shows is current or it is not.
- A socket that the client has shut swallows messages until a send to it raises or its
  handler is told; `SendShut` leaves open which comes first.
- The warm tier's library (Prophet) is an optional dependency. In `Forecast` it is
  installed or not (`prophet`). Where it is, a warm training may forecast anything (`Fits`),
  cut off at zero as `models.py:95-104` does. Where it is not, `fit` raises
  (`models.py:81-82`, called at `service.py:60`) and the training with it (`TrainRaises`):
  the `except ImportError` of `service.py:33-36` is around a constructor that imports
  nothing. The mature tier needs a number of locations that no caller passes.
- `zoneRows` is a set, so it cannot show a zone event stored twice; the engine's
  contract is what excludes that.

Operators marked `mutant` are plausible bugs. They are used by no specification;
each replaces the definition below it in turn, and TLC then finds the property
violated that the run claims, which shows the property depends on the code's detail.

## 3. Runs

Times in the runs are small integers, and the code's spans (15 s, 60 s, 30 min) are
scaled to 1 to 3 units, so that instants before, on and after each limit occur.

| Run | Shows | Bounds |
|---|---|---|
| `ZoneEngine` | types, expiry always possible, bounded silence, nobody counted where they were last seen outside, dwells witnessed by frames, what a replayed frame does ends with the next ones, the contract is kept; and as long as frames come in order, occupancy is exact and stays are unbroken | 2 trackers, 1 zone, 4 instants, silence 1: a frame can be late by more and by less than the silence; leave, return, expiry and return after expiry; the engine treats keys independently, and two trackers show that one's silence leaves the other alone |
| `UplinkHistory` | what leaves the agent unprocessed, what arrives twice, in which order, and that all in front of a torn file is replayed | 4 frame bodies, used again and again; spool of 3, replay in batches of 2, 1 kill (it may tear a file), 1 lost answer, a clock that is stepped back to any place among the names, any number of times |
| `WaitEngine` | windows, readers, source and band | 4 instants that differ by 4, 5, 9, 10 and 14: on and beyond each window (5, 4, 2), and dwells on both sides of the 10-minute switch; up to 3 dwells (interpolation) and 3 orders (the minimum for a POS estimate); one person: nothing in the engine relates two |
| `Webhook` | what is counted, stored and answered, and each cause of a loss | 5 payloads (an order, two checks without an id, a booking, an unfinished fulfilment) of 3 providers with a store of 2 (least recently used differs from first in), TTL 2 on a clock to 2, any answer lost, 1 fault (a refused save or a restart); the two checks are symmetric |
| `AppState` | live count, published answers, that who is no longer shown leaves, persistence | 2 cameras of a location, 1 person each, 3 frames at 3 instants, 1 order, 1 mishap (a refused insert or a registration in the middle), readers at any time |
| `EdgeCamera` | ids stay with the place of their person, who is in one zone at a time, the association is stable, people lost and found keep their stay | 2 zones with a slanted, bent border in common, 3 places of which neighbours overlap, up to 2 people, 5 frames at periods 1 and 2, a buffer of 2 frames and a silence of 3, any stall longer than the silence: a track is lost, found again, dies, and its stay expires before, with and after it |
| `WaitWidget` | which sockets the hub keeps, who gets what is broadcast, how many sockets a widget has, what it shows in the end | an address the browser takes or not, 2 sockets, 2 states of the location, 2 broadcasts, the element put in twice: two broadcasts, or a broadcast and a greeting, overlap on two sockets of which one dies or reconnects |
| `Services` | matcher: no entry pairs twice or stays behind, and no exit and check_open within the tolerance both stay unpaired; triggers: spacing of calls and timer, and queue jumps, with frames in any order; forecast: best times are best and apart, forecasts stay in range, the newest training is served | one of the three moves. Matcher: clock to 6, tolerance 1, keep 4, lag 2, skew 1, 3 exits and 3 check_opens. Triggers: 4 calls at 5 instants, one scene for each anomaly and one for none, a history of 2 and a baseline of 2, so that both overflow. Forecast: every subset of 6 observations over two weeks of 2 days of 4 slots (weekly, daily, global and no basis), Prophet installed or not and forecasting from below zero or above its own bound, 8 steps ahead, 3 choices 2 steps apart, 2 trainings that overlap, raise, fail to be saved, or are forgotten in a restart, a clock that moves on by 2 |
| `TenantPool` | no tenant context outlives its call, and the pool implements the store: batches whole or not at all, series and exports of their own tenant only, every call ends | 4 calls of 2 tenants (a batch of two rows, a row, a series, an export) on 2 connections, any step may raise, any commit may lose its answer, the aggregate takes in any of the rows at any time: calls wait, a connection changes its tenant, and a read runs between the rows of a batch |

Deadlock is not checked (`CHECK_DEADLOCK FALSE`) only where a bound on requests,
calls or time ends the behaviour, or (`WaitWidget`) where the element is taken out of the
document for good and no socket is left.

Three runs state what the repository says of itself and end with a violation:

| Run | Statement | What the code does |
|---|---|---|
| `WebhookAcked` | `api/state.py:3-4` "With ``WTE_DATABASE_URL`` set, events are also persisted through the RLS-scoped repository.", with `blueprint.md:506` "POS retries on transient HTTP errors." | an order is marked as seen (`state.py:158`) before it is saved (`state.py:181`): its save is refused and answered 500, and the retry is taken for a duplicate and answered 202, with no row and no save under way. The property is about the moment of the answer |
| `WebhookRows` | `001_init.sql:89` "UNIQUE (provider, event_id, received_at) -- idempotency (§6.3)" and `blueprint.md:506` "every webhook handler must dedupe by `event_id`" | the key has the time of reception in it, which is another at each retry, and the memory of ids does not survive a restart: the trace is a save that commits as the server restarts, whose answer is lost, and the retry's second row. Within one life of the process the same happens to an event that the store has forgotten, after 7 days or 100 000 other events |
| `ForecastServed` | `forecast/service.py:35` "prophet not installed → still serve something" | the `try` is around a constructor that imports nothing; `fit` raises ModuleNotFoundError and nothing is cached. `deploy/Dockerfile.api` does not install Prophet |

More disagreements show in the conditions of properties that hold, or in what the
models leave possible:

- People counted when their camera is registered again are unknown to its new engine,
  and unless it sees them come and go they stay in the live queue
  (`api/state.py:117` against `vision/zones.py:51` "treated as having exited");
  `VanishedHaveExited` speaks of everybody else. For a camera that is dark no time
  passes: its people stay while the other camera keeps the video fresh.
- A Toast or Square payload without an id, and a SevenRooms one alike, gets the id
  "None", and the store has no tenants (`connectors/base.py:45`): the second such event
  of a provider, of whichever tenant, is answered as a duplicate of the first and never
  counted nor stored (`connectors/toast.py:49` against `api/state.py:3`).
  `LossHasACause` lists it among the causes of a loss.
- A frame whose answer was lost is sent again after newer ones (N, N+1, N). The server's
  engine takes it for news: it puts back people who have left since and closes stays that
  go on, and what is opened and closed so is reported as stays of their own
  (`vision/zones.py:65-103`). `ReplaysHeal` says that the next frames put it right and that
  nobody stays counted for longer than the silence.
- If the wall clock of the edge is stepped back in an outage, the spool is replayed in
  another order than the frames were taken, and a file may be written over one of the same
  millisecond (`edge/agent.py:58` against `edge/agent.py:8`). `ReplayIsInOrder` and
  `LossesHaveACause` name that as the one exception.
- A spool file torn by a kill is refused by the server every time, heads the spool for
  ever, and nothing behind it is replayed (`edge/agent.py:72` against `edge/agent.py:8`
  "metadata is buffered on disk and replayed"); `SoundFilesAreReplayed` speaks of the
  files before it.
- The spool directory has no bound: `max_spool` limits a list in memory that nothing reads
  (`edge/agent.py:51`, `:57`). The run bounds the files (section 3).
- A late exit that arrives behind a newer one outlives the window
  (`waittime/engine.py:146` against `waittime/engine.py:4` "a sliding window of
  completed queue dwell times"); `NoSampleLost` says only that nothing goes too early.
- No policy filters `wait_time_15m`, against `README.md:92-93` "every query runs inside a
  transaction that sets `app.current_tenant_id` (transaction-local), so cross-tenant reads
  return zero rows": a query of the aggregate without a WHERE would return all tenants'.
  `wait_series` has one, so the store of `TenantStore` is implemented;
  the mutant `FetchSeriesByPolicy` shows that it rests on that alone.
- A person who stands where somebody was lost a moment ago, before the track dies, takes
  over the id and the stay (`vision/tracker.py:56-62`). An agent that is started again counts ids
  from 1 (`tracker.py:42`) while the server's engine of the camera lives on
  (`api/state.py:90`): ids of before name other people then, and a stay that was open goes
  on as theirs unless the silence ended it. `IdsStayWithTheirPlace` speaks of one life
  of the tracker.
- The wait state and the forecast cache are keyed by the location id alone
  (`waittime/engine.py:57`, `forecast/service.py:66` against `tests/test_api.py:101`
  "Tenant B sees no data for A's location"): two tenants whose location ids coincide
  share them.
- Zone events whose insert failed are never stored, because the engine returns none
  when the frame is sent again (`EventsArePersisted` excepts them; `api/state.py:3`).
- At ten frames a second the 120 snapshots of the trigger policy are 12 s, too short for
  the "jumped > 50 % in 60 s" of `vlm/triggers.py:6` (`JumpIsNoticed` asks for a history
  that covers the span).
- A widget taken out of the document reopens the socket it has just closed, and one put
  in again has two (`wait-widget.js:82` against `blueprint.md:609` "a single WebSocket
  per tab"); `OneSocketPerAttachment` counts them.
- `best-times` bounds the forecast from above only, so that hours after a training it
  proposes times that have passed (`api/main.py:194` against `README.md:105`
  "Lowest-wait windows in the next 24 h"). `BestTimesAreBest` says only which of the points
  it is given it takes; in the run every point still lies ahead.
- With the 120 frames of buffer that `core/settings.py:30` suggests for fine dining a
  track that is lost while the camera turns idle lives 33 s, its stay 15 s
  (`vision/zones.py:58`): the person found again starts a second stay.
  `SilenceAssumption` of `EdgeCamera` is the room that the defaults (60 frames, 13 s)
  have and that `MissedPeopleKeepTheirStay` needs.

## 4. Fairness

*The agent* (`UplinkHistory`): weak fairness of its steps as a whole, `HAgent`. Its
loop runs for ever, the camera keeps delivering pictures (a stream that stops is
reopened), and every post returns within the client's timeout of 5 s. Nothing is
assumed of the network: `SoundFilesAreReplayed` speaks of behaviours in which the link
stays up from some time on. Kills are bounded by a constant; with kills for ever the
agent could be killed before every replay. After a step back of the clock the loop takes no
frame until the clock has caught up: that it does is assumed, that is, that the clock is not
put back again and again before.

*The repository* (`TenantPool`): weak fairness of the steps of each call, `Progress`.
The event loop runs what is ready, the database ends what it began, and asyncpg serves
those who wait in their order; an acquire has no timeout, so that a connection never
returned would be waited for in vain. Nothing is assumed of failures. Only the current
step of a call is enabled, but for the rows of a batch, which are finitely many: so one
fairness condition per call is enough for `CallsEnd`.

*The server and the browser* (`WaitWidget`): `FairServer` is weak fairness of each
socket's sends, greeting and end of handler, since the event loop runs what is ready
and a send to a socket returns or raises; `Poll` is the browser's interval timer, and
`RenderAnswer` says that of the answers under way some one is rendered at last: an
answer may be overtaken for ever, but polls are not all in vain. Nothing is assumed of
`Reconnect`, of broadcasts, or of when a connection ends. `ShowsTheCurrentWait` speaks
of an element that stays in the document; states of the location are bounded, so the
wait stops changing. With pushes alone it is false, as some changes of the wait (the
passing of time) are broadcast by nobody.

## 5. What is proved

### The zone engine

`CameraProofs` proves, for every set of trackers, zone kinds and timestamps and
every `MaxSilence`, each property of the run `ZoneEngine`. The assumptions are
`MaxSilenceAssumption` (a natural number), `AbsentAssumption` ("no value" is not a
time) and `TimesAssumption` (times are integers).

*Any order.* None of the invariants is inductive by itself: that an exit's dwell is
witnessed needs that every recorded enter time is a frame that shows the person
inside; that `expire` can close a stay needs that the two dictionaries stay in step,
which needs what the last frame showed. The inductive invariant is

    IInv == TypeOK /\ OpenKeysCanClose /\ OpenMeansLastShownInside
              /\ StaysAreWitnessed /\ RecordsAreFrames /\ Settled

where `RecordsAreFrames` says the recorded times are times of frames that show what
was recorded, and `Settled` what the two dictionaries look like right after a frame.
Lemmas about the operators (`UpdateSeenLemma`, `UpdateEnterLemma`,
`UpdateEventsLemma`, `EventKeysLemma`) are stated once and carry the step
(`StepLemma`). `BoundedSilence` follows from `Settled`, and so does `ReplaysHeal`: every stay has
a last-seen time, that of a frame which shows the person inside, and no such time is older
than the silence. `EngineKeepsContract`, the refinement of `Presence`, follows from
`IInv` and the same lemmas.

*In order.* `OrderInv` adds that the last-seen time of a track is the latest frame
that shows it, and that open stays are unbroken. `ordered => OrderInv` is an
invariant, from which `OccupancyIsExactHolds` and `OpenStayIsUnbrokenHolds` follow;
without `ordered` both are false.

### The camera

`CameraProofs` also proves the four properties of the run `EdgeCamera`, for any boxes and
number of people, any buffer and threshold of the tracker, any zones and any frame rates,
from `BoxesAssumption` (a box has a width), `LostTrackBufferAssumption` and
`MaxSilenceAssumption` (both are natural numbers), `RateAssumption` (the idle rate is no
faster than the active one) and `SilenceAssumption` (section 3).

    CameraInv == CameraTypes /\ Paced

`Paced` relates the two clocks of the camera. A track is lost by frames and a stay by
seconds, and how many seconds a frame is depends on what was seen. The invariant
therefore bounds the time since somebody lost was last seen by `Elapsed` of the frames
they missed, the longest time these can have taken, and says that the empty streak is no
longer than that number of frames: an idle camera has missed everybody. `ElapsedGrows`
and `SilenceAssumption` then keep the time below the silence as long as the track lives,
and `UpdateSeenLemma` and `UpdateEnterLemma`, those of the zone engine, keep the stay:
`MissedPeopleKeepTheirStayHolds`.

`AssociationIsStableHolds` and `IdsStayWithTheirPlaceHolds` are about the greedy loop of
`update`. Scores are fractions, compared crosswise; that this is a total order is
`ExceedsLemma` and `BeforeLemma`, where it matters that no union of boxes is empty.
Counting the pairs that come before a pair then gives each its place (`SortedInTurn`),
and `TakeKeeps` shows that each step of the loop leaves an association that is one to one
and in which each pair taken up so far has a rival at least as good (`MatchingLemma`).
From this, the ids: old ones belong to one track each, and new ones, counted on from
`_next_id`, are in a row, because a detection is matched as often as a track
(`NewIdsInARow`, `IdsLemma`).

`NobodyIsCountedTwiceHolds` has the hypothesis `ZonesAreDisjoint`, that no box stands in
two zones; where zones overlap the property is false, as it should be. That the ray
casting makes it true of zones that share a border, whatever the border's slant, is
checked with TLC: the run's frames show every box, and `MCEdgeCamera` assumes it of every
cut of a floor. What the theorem adds is the rest of the way: one person, one id, one box
in the frame, and the stay in one zone closed by the frame that opens the next.

### The pool of the repository

`TenantPoolProofs` proves, for any calls, tenants, rows and any set of connections,
that no context leaks (`TenantContextIsScopedHolds`) and that the pool implements the
safety part of `TenantStore` (`PoolImplementsStore`). The assumption used is
`AbsentAssumption` ("no connection" is not one); `OwnRowsAssumption`, that rows carry the
tenant of their call, is needed by the liveness that TLC checks: a row of another tenant
would be refused.

`TenantContextIsScoped` is not inductive: that a free connection has no context needs
that whoever returned it had ended its transaction, and that nobody else held it. The
inductive invariant is

    IInv == WellTyped /\ HoldersHaveOne /\ NobodyShares /\ CleanOutside /\ OwnInside

where a call has a connection exactly between acquire and release (`HoldersHaveOne`),
no two calls have the same (`NobodyShares`), a connection without a call that runs
statements is clean (`CleanOutside`), and the state of one with such a call is that
call's (`OwnInside`). Each action has a lemma; commit and rollback share
`EndTransactionLemma`. In the refinement, `Call`, `FetchSeries`, `FetchExport`, `Commit`,
`AcquireFails`, `Rollback` and `Refresh` are steps of the store and all others stutter. The
context matters for an export, whose policy must let the tenant's own rows through; a series
owes its tenant to its WHERE.

### The uplink

`UplinkProofs` proves, for any frames, any batch and bound of the spool and any number of
kills, lost answers and steps back of the clock, the three safety properties of
`UplinkHistory` (`LossesHaveACauseHolds`, `DuplicatesHaveACauseHolds`,
`ReplayIsInOrderHolds`), from `DrainBatchAssumption` (a batch is at least one file). The
inductive invariant is

    IInv == WellTyped /\ HandIsNew /\ Distinct(spool) /\ ReplayHasFiles
              /\ UnlinkedIsProcessed /\ InOrder /\ Repeats

That `_drain` removes only what was processed needs that the file at the head is still
the one it posted (`UnlinkedIsProcessed`) and that no second file holds the same frame
(`Distinct`). The count of repeats is not inductive by itself: a lost answer is paid for
when it is lost and repeats a frame only later. `Repeats` therefore counts, with the
frames processed again, those that *would* be processed again if they were posted now,
and allows one more while an unlink is under way. `InOrder` relates names and order: the
files named since the clock was stepped back last all lie before the place where the clock
stands, so that the next name comes behind them and over none of them; and of any two files
the clock was not stepped back between, the one taken first has the smaller name.

### Webhooks

`WebhookProofs` proves `OnlyForgottenOrdersCountAgain` (an action property),
`LossHasACause` and `LiveAgreesWithTable` for any payloads, size and time to live of the
store, faults and times, from `IdempotencyAssumption` (both are natural numbers).

    IInv == WellTyped /\ StoreInv /\ Stamped /\ KnownAreTaken /\ CountedAreKnown
              /\ CountIsRows

`StoreInv` is about the LRU: its entries are distinct and in the order of the last
deliveries, so that every entry behind one came since. An entry that was evicted was the
first of `MaxSize + 1` distinct ones, hence `MaxSize` other events came since it was last
delivered (the counting in `StoreKeeps`, with an injection into them). `KnownAreTaken`
follows an id from its acceptance: whoever is answered as a duplicate has the id of
somebody who is a row, a save under way or a refused save. `CountIsRows` is stronger than
`LiveAgreesWithTable`, which follows from it: each counting has one row or save of its own.
That is how the code is, not what it should be (`OneRowPerEvent` is violated), and so it is a
lemma of the proof and no property; `Stamped` keeps such rows apart.

### The hub and the widget

`WaitWidgetProofs` proves `NobodyIsPassedBy` and `OneSocketPerAttachment` for any number
of sockets, broadcasts, states and attachments, from `MaxSocketsAssumption`.

    IInv == WellTyped /\ NothingIsNewer /\ OpenAreServed /\ OpenAreReached
              /\ OneSocketPerAttachment

`NobodyIsPassedBy` speaks of broadcasts that have ended. While one is under way, the
sockets it has not come to have nothing of it; so `OpenAreReached` says of each open
socket and each broadcast that the socket is still to be sent to, or was sent, or will be
greeted with, something as new. That rests on `OpenAreServed`: an open socket is a
subscriber and no broadcast holds it for dead. `OneSocketPerAttachment` counts one socket
or timer for each attachment, and none where the browser does not take the address
(`UnusableLemma`).

### The wait engine

`LocationProofs` proves `NoSampleLost`, `ReadsDoNotDisturb`, `SourceIsHonest` and
`BandCoversEstimate` for any windows, people and times in any order, from
`WaitTimeAssumption` (windows are positive, an estimate needs at least one sample, "no
value" is neither a time nor a sample) and `TimesAssumption` (times are integers).

    IInv == TypeInv /\ SamplesKept(...) /\ OrdersKept(...) /\ InOrder(received)
              /\ VideoClock(...)

Each deque is the rest of everything it was told, and what is gone was older than its
window for the latest caller. The work is in the lemmas about `_trim`: dropping old heads
of a rest leaves a rest (`DropOldHeadIsRest`, `DropFromRest`), and trimming for an early
and then for a later time is trimming for the later one (`DropTwice`, `TrimTwice`) even if
the deque is not sorted, which is the reason why `ReadsDoNotDisturb` holds of dwells that
arrive late. `SourceIsHonest` needs `InOrder(received)`: the three orders that
`estimate` finds in the trimmed deque are then all that arrived within the window
(`OrdersOfTheWindow`).

`BandCoversEstimate` needs beside `IInv` that dwells are never negative and that finitely
many people queue (`CountsInv`). That there is a k-th smallest dwell at all is shown by
counting (`Extremes`, `KthExists`), without sorting; a later place holds no shorter dwell
(`KthGrows`), so the interpolated p50 is no more than p90 (`QuantilesInOrder`). These
lemmas are about any function with finitely many integer values, as the forecast needs
them too.
`BandCovers` is the arithmetic of `_band`: rounding down and up to steps of 2 or 5 minutes
never cuts into what is rounded.

### The matcher

`LocationProofs` also holds the matcher's proof, as both components trim their deques at
the head. `PairingIsMaximalHolds` is proved for any tolerance,
retention, lag and clock skew from `MatchingAssumption` and `RetentionAssumption`.

    MatcherInv == Arrived /\ UnpairedAreKept /\ PairingIsMaximal

`Arrived` numbers what arrived without repeats. `UnpairedAreKept` says what a deque may
have lost: whatever arrived and has no partner is still in its deque, or old
enough that the fastest clock may have trimmed it (`Forgotten`), and then too far from
everything still to come to be paired with it. This is where `RetentionAssumption` is needed, with less
retention the property is false. An arriving event takes the closest partner in the other
deque, and none only if none is within the tolerance (`MatchExitLemma`,
`MatchPosLemma`).

### The forecast

`LocationProofs` proves `ForecastStaysInRange`, `NewestTrainingIsServed` and
`BestTimesAreBest` for any finite set of observations with integer times and waits, any
lengths of step, day, week and horizon, Prophet installed or not, and any number of
trainings that overlap, raise, fail to be saved or are forgotten in a restart, from
`ForecastAssumption`. What that asks of the constants is
what the code has: a slot needs at least one observation (`min_slot_obs` is 3), a gap and
a number of best times are at least one (`min_gap_steps` is 4, `n` is at least 1,
`api/main.py:190`).

    ForecastInv == ForecastTypeInv /\ ForecastStaysInRange /\ NewestTrainingIsServed

Whatever slot `predict` goes by is not empty while there is an observation (`SlotLemma`;
with a threshold of zero it would be). A quantile of some of the values lies between the
least and the greatest of them (`QuantileWithin`), hence a bucket's median between what
was observed (`SeriesLemma`) and a forecast of the seasonal forecaster between the medians
(`PredictLemma`). Of a forecast that Prophet made the theorem says only that it is not
negative, which is all the code sees to. `NewestTrainingIsServed` says that every training
after the one served raised in `fit`, so that without Prophet an old forecast, or none, may
be served for good (the run `ForecastServed`).

`BestTimesAreBest` follows from the types alone, by two arguments about data.
`RankedIsSorted`: counting the points that come before a point is a bijection from the
points to their places, so the ranking is a stable sort. `BestWindowsUnfold` gives the
value of the greedy fold over a ranking of any length step by step, and `PickKeeps` shows
that each step preserves `Chosen`: the choices are a gap apart, and each point so far is
near a choice that is no worse, or the choices are complete and none is worse.

### The trigger policy

`VlmTriggersProofs` proves `CallsAreSpaced` and `JumpIsNoticed` for any spans, scenes and
lengths of the history and frames in any order, from `TriggerAssumption` and
`SceneAssumption` (types of the constants).

    IInv == TypeInv /\ (latest = Absent => past = <<>>) /\ IsEndOf(cam.history, Evaluated)
              /\ LastFireIsLast /\ CallsAreSpaced /\ JumpIsNoticed

That the bounded history is the end of the snapshots evaluated links the policy's
decision to what the camera saw; that `lastFire` is the time of the last call links the
gap the policy measures to the one the property speaks of.

### The application state

`AppStateProofs` proves the four properties of the run `AppState`, for any cameras,
people, zones, times and spans and any number of requests, refusals and registrations.
The assumptions are `CamerasAssumption` (a camera is a tenant and an id, as in the keys
of `zone_engines`) and `EngineAssumption` (a silence that is a natural number, integer
times, finitely many track ids and zone kinds, so that the events of a frame are
finitely many). `EventsArePersistedHolds` needs nothing else:

    IInv == TypeInv /\ (for each camera: SightingsAreShown /\ StaysHaveSightings)
              /\ EventsArePersisted

Its steps need that the batch handed to the handlers holds exactly the events that
`update` returned (`BatchesHoldTheEvents`, by counting), and that a request keeps its
events when its camera is registered again (`HeldLemma`).

The other three are about what cameras of a location share, and have the hypothesis
`OneTenantPerLocation`: cameras with the same location belong to one tenant. Without it
they are false, since wait states are keyed by the location alone (section 3). Under it

    SharedInv == IInv /\ LiveCountAgrees /\ AnswersAreFresh

is inductive. `LiveCountAgrees` compares two stores that one frame moves separately: the
engine opens and closes stays (`StaysAfter`), and the wait engine is told of it event by
event, in an order the code does not fix. What is told one after the other is a fold
over a batch of any length. `WaitAfterUnfolds` gives its value step by step, and
`QueueAfter` who is in the queue at its end: as no key both enters and leaves in one
frame (`NobodyComesAndGoes`), the order does not matter. That the engine's dictionaries
are in step is needed because a key without a last-seen time would never close.
`AnswersAreFresh` follows the estimates: a step that moves somebody leaves a request
under way or publishes itself (`FrameReaches`), and publishing tells of the queue as it
is then (`PublishLemma`). `VanishedHaveExited` follows from `SharedInv`: who is in the
queue is in an engine, which saw them at a time of `SightingsAreShown`.

### Model-checked only

Liveness (`SoundFilesAreReplayed`, `GoneAreDropped`, `ShowsTheCurrentWait`, `CallsEnd` in `StoreSpec`) is
beyond this prover, and so is induction over data: the library's induction theorems take
an operator as a parameter, which none of its backends can instantiate. Where a
proof needs it, the numbers for which a claim is true are taken as a set, and `Induction`
is applied to that set: this carries the folds of `AppState`, of `best_windows` and of
the tracker. Checked with TLC only is also the hit test of `Polygon`: it agrees with the
textbook definition, and zones that share a border share no point.

## 6. Not modelled, and why

The detector and the blur are numerical filters without state. Token and signature
checks are pure functions in front of the handlers. The VLM client is one external call
whose result nothing on the live path reads. What Prophet and Chronos compute
and the features for regression models are library code around numbers; ByteTrack and BoT-SORT are libraries behind the
same interface as `IouTracker`. `KafkaBus` is not wired into the program. Settings and
schemas are data. `scripts/simulate_edge.py` is a load generator for demonstrations.

Of what is modelled, the following is left out. *Connectors*: timestamps, party sizes,
channels and names, on which nothing in the program decides, and the formats of
signatures. *Repository*: `start`, `stop` and `migrate`, which run before and after the
server serves (a pool that closes waits for its calls); retention, which
the database runs, and the arithmetic of the aggregate and the ranges of its refreshes (in
`TenantPool` it takes in any of the rows at any time). *Hit test*: the rounding of floats. *Zones*: a
camera's zones do not change while it runs, except by registering it again.

## 7. Plan

Done, in this order: the zone engine with its contract and proofs; the uplink; the
wait engine; matcher and triggers; webhooks; the composition `AppState`; the hub and
the widget; tracker and pipeline; the forecast; the hit test, inside `EdgeCamera`; the
connectors, inside `Webhook`; the pool of the repository with its abstract store and
proofs; registration of a running camera, inside `AppState`.

Then proofs: the uplink, the webhooks, the hub and the widget, the wait engine, the
trigger policy, the application state, the matcher, the forecast, the camera. Every
safety property of a passing run is a theorem; the hit test and liveness are not.

Next:

1. An abstract at-least-once channel, implemented by `UplinkHistory`, checked and then
   proved.
2. Two agents on one spool; a server whose restart forgets the registered cameras, at
   the other end of the uplink; two tenants that share a camera id.
