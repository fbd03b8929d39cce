------------------------------ MODULE AppState ------------------------------
(***************************************************************************)
(* The API process: camera frames and POS orders flow through the shared   *)
(* services of src/wte/api/state.py (class AppState) on one event loop.    *)
(*                                                                         *)
(* A request runs alone until it awaits the database (Frame, Order); it    *)
(* goes on, after any number of other requests, when the insert is done    *)
(* (FrameSaved, OrderSaved) or raises (SaveFails).  Without a database it  *)
(* never stops: that is a Saved step taken at once.                        *)
(*                                                                         *)
(* The services are the operators of the modules instantiated below; the   *)
(* deduplication of webhooks in front of Order is module Webhook's.        *)
(***************************************************************************)
EXTENDS Integers, Sequences, FiniteSets, SequencesExt

CONSTANTS
    Trackers, Kinds, MaxSilence,                          \* of ZoneTracking
    Minute, Window, PosWindow, Burst, StaleAfter,         \* of WaitTime
    MinSamples, MinDwell,
    Tolerance, Keep,                                      \* of Matching
    Cadence, MinGap, JumpSpan, OrdersSpan, LongQueue,     \* of TriggerPolicy
    HighCount, HistoryMax, BaselineMin, BaselineMax,
    Absent,
    Cameras,      \* the keys of zone_engines, [tenant, location, id]
    OrderEvents,  \* the POS event types received
    Times,        \* the times of frames and of orders
    MaxFrames,    \* bounds of the runs: frames and orders handled, and
    MaxOrders,    \*   inserts that the database refuses together with
    MaxMishaps    \*   cameras that are registered again

ASSUME CamerasAssumption ==
    \A c, d \in Cameras : c.tenant = d.tenant /\ c.id = d.id => c = d
(* Track ids of the requests there have been are finitely many, and zone   *)
(* kinds an enumeration of the schema.                                     *)
ASSUME EngineAssumption ==
    /\ MaxSilence \in Nat /\ Times \subseteq Int
    /\ IsFiniteSet(Trackers) /\ IsFiniteSet(Kinds)

Z == INSTANCE ZoneTracking
W == INSTANCE WaitTime
M == INSTANCE Matching
T == INSTANCE TriggerPolicy

Locations == {c.location : c \in Cameras}
CameraIds == {c.id : c \in Cameras}
Accounts == {<<c.tenant, c.location>> : c \in Cameras}
Account(c) == <<c.tenant, c.location>>

VARIABLES
    engine,      \* zone_engines, a camera's dictionaries [enter, seen]
    wait,        \* WaitTimeEngine._state, by location
    match,       \* the matcher's deques, by location
    policy,      \* what TriggerPolicy keeps, by camera id
    orders5m,    \* pos_orders_5m, by account
    published,   \* last_estimates, by account
    triggers,    \* vlm_triggers
    saving,      \* the requests that await the database
    zoneRows,    \* the table zone_events, <<camera, event>>
    posRows,     \* the table pos_events
    frames,      \* frames handled so far
    orders,      \* orders handled so far
    again,       \* cameras registered again so far
    refused,     \* history: the requests whose insert raised
    emitted,     \* history: every zone event that engines returned
    orphans,     \* history: those in a queue when their engine was replaced
    film,        \* history: for a camera, its processed frames by time
    lastTs       \* history: the time of the frame it processed last

services == <<engine, wait, match, policy, orders5m>>
outputs == <<published, triggers>>
rows == <<zoneRows, posRows>>
database == <<saving, rows>>
requests == <<frames, orders, again>>
history == <<emitted, orphans, film, lastTs, refused>>
vars == <<services, outputs, database, requests, history>>

NewEngine == [enter |-> <<>>, seen |-> <<>>]

Init ==
    /\ engine = [c \in Cameras |-> NewEngine]
    /\ wait = [l \in Locations |-> W!EmptyLocation]
    /\ match = [l \in Locations |-> M!EmptyMatcher]
    /\ policy = [i \in CameraIds |-> T!NewCamera]
    /\ orders5m = [a \in Accounts |-> <<>>]
    /\ published = [a \in Accounts |-> Absent]
    /\ triggers = <<>>
    /\ saving = {} /\ zoneRows = {} /\ posRows = {} /\ frames = 0 /\ orders = 0 /\ again = 0
    /\ emitted = {} /\ refused = {} /\ orphans = {} /\ film = [c \in Cameras |-> <<>>] /\ lastTs = [c \in Cameras |-> Absent]

-----------------------------------------------------------------------------
\* mutant: people are known by the tracker id alone
WhoByTracker(c, key) == <<Z!Tid(key)>>

(* A zone event as the wait engine gets it: people are known to it by the  *)
(* camera id and the tracker id.                                           *)
Who(c, key) == <<c.id, Z!Tid(key)>>

WaitEvent(c, e) ==
    [type |-> e.type, zone |-> e.key[2], who |-> Who(c, e.key), ts |-> e.ts, dwell |-> e.dwell]

QueueExits(batch) == SelectSeq(batch, LAMBDA e : e.type = "exit" /\ e.key[2] = "queue")

(* Dwells of zero are false in the handler's condition and in the average. *)
QueueDwells(batch) ==
    LET exits == SelectSeq(QueueExits(batch), LAMBDA e : e.dwell > 0)
    IN  [i \in DOMAIN exits |-> exits[i].dwell]

(* _on_zone_event for every event of a batch, service by service. *)
WaitAfter(c, batch, st) == FoldLeft(LAMBDA s, e : W!OnZoneEvent(s, WaitEvent(c, e)), st, batch)

MatchAfter(c, batch, m) ==
    FoldLeft(LAMBDA s, e : M!MatchExit(s, [ts |-> e.ts, who |-> Who(c, e.key)]).stores,
             m, QueueExits(batch))

PolicyAfter(batch, cam) == FoldLeft(LAMBDA p, d : T!RecordDwell(p, d), cam, QueueDwells(batch))

(* The order of a batch: enters, then exits seen, then exits by silence;   *)
(* inside a group the order of the detections and of the dictionary.       *)
Batches(events, ts) ==
    LET Group(e) == CASE e.type = "enter" -> 1
                      [] e.type = "exit" /\ e.ts = ts -> 2
                      [] OTHER -> 3
    IN  {b \in SetToSeqs(events) :
            \A i, j \in DOMAIN b : i < j => Group(b[i]) <= Group(b[j])}

(* _avg_recent_dwell, in whole units. *)
AvgDwell(batch) ==
    LET dwells == QueueDwells(batch)
    IN  IF dwells = <<>> THEN Absent ELSE FoldLeft(+, 0, dwells) \div Len(dwells)

(* _orders_5m: the list loses what is older than five minutes. *)
RecentOrders(a, now) == SelectSeq(orders5m[a], LAMBDA t : now - t <= OrdersSpan)

Snapshot(c, ts, batch, enter) ==
    [ts |-> ts, queue |-> Z!Occupancy(enter, "queue"), service |-> Z!Occupancy(enter, "service"),
     dwell |-> AvgDwell(batch), orders |-> Len(RecentOrders(Account(c), ts))]

\* mutant: while requests are under way the estimate is left to them
PublishUnlessBusy(a, now, waits) ==
    IF saving # {}
      THEN wait' = waits /\ UNCHANGED published
      ELSE /\ published' = [published EXCEPT ![a] = W!Estimate(waits[a[2]], now)]
           /\ wait' = [waits EXCEPT ![a[2]] = W!Trim(@, now)]

(* _publish_estimate: computed from the state of the location at this      *)
(* moment, which estimate trims, for the time the request carries.         *)
Publish(a, now, waits) ==
    /\ published' = [published EXCEPT ![a] = W!Estimate(waits[a[2]], now)]
    /\ wait' = [waits EXCEPT ![a[2]] = W!Trim(@, now)]

(* The rest of ingest_frame after the insert, on the wait states and the   *)
(* policies it finds; enter is the open stays of the engine it holds.      *)
Finish(c, ts, batch, enter, waits, policies) ==
    LET snap == Snapshot(c, ts, batch, enter)
        why == T!Reason(policies[c.id], snap)
    IN  /\ policy' = [policies EXCEPT ![c.id] = T!Evaluate(@, snap)]
        /\ orders5m' = [orders5m EXCEPT ![Account(c)] = RecentOrders(Account(c), ts)]
        /\ triggers' = IF why = Absent THEN triggers
                       ELSE Append(triggers, [camera |-> c.id, ts |-> ts, why |-> why])
        /\ Publish(Account(c), ts, waits)

(* ingest_frame up to the insert: the engine's update, the heartbeat, the  *)
(* bus handlers of the batch.  Without events there is no insert.          *)
Frame(c, f, ts) ==
    /\ frames < MaxFrames /\ frames' = frames + 1
    /\ ts \in DOMAIN film[c] => film[c][ts] = f
    /\ film' = [film EXCEPT ![c] = [u \in DOMAIN @ \union {ts} |-> IF u = ts THEN f ELSE @[u]]]
    /\ lastTs' = [lastTs EXCEPT ![c] = ts]
    /\ LET old == engine[c]
           events == Z!UpdateEvents(old.enter, old.seen, f, ts)
           new == [enter |-> Z!UpdateEnter(old.enter, old.seen, f, ts),
                   seen  |-> Z!UpdateSeen(old.seen, f, ts)]
       IN  /\ engine' = [engine EXCEPT ![c] = new]
           /\ emitted' = emitted \union {<<c, e>> : e \in events}
           /\ \E batch \in Batches(events, ts) :
                LET waits == [wait EXCEPT ![c.location] = WaitAfter(c, batch, W!Heard(@, ts))]
                    policies == [policy EXCEPT ![c.id] = PolicyAfter(batch, @)]
                IN  /\ match' = [match EXCEPT ![c.location] = MatchAfter(c, batch, @)]
                    /\ IF batch = <<>>
                         THEN Finish(c, ts, batch, new.enter, waits, policies) /\ UNCHANGED saving
                         ELSE /\ wait' = waits /\ policy' = policies
                              /\ saving' = saving \union
                                   {[camera |-> c, ts |-> ts, batch |-> batch, held |-> Absent]}
                              /\ UNCHANGED <<orders5m, outputs>>
    /\ UNCHANGED <<rows, orders, again, orphans, refused>>

IsFrameTask(s) == "batch" \in DOMAIN s
FrameTasks == {s \in saving : IsFrameTask(s)}
OrderTasks == saving \ FrameTasks

TaskRows(s) == {<<s.camera, e>> : e \in ToSet(s.batch)}

\* mutant: only the exits are inserted
InsertExits(table, s) == table \union {r \in TaskRows(s) : r[2].type = "exit"}

(* insert_zone_events *)
InsertZoneEvents(table, s) == table \union TaskRows(s)

(* The insert of a frame's events is done and ingest_frame goes on.  The   *)
(* engine it holds is the camera's, or the one a registration replaced.    *)
FrameSaved(s) ==
    /\ s \in FrameTasks
    /\ saving' = saving \ {s}
    /\ zoneRows' = InsertZoneEvents(zoneRows, s)
    /\ Finish(s.camera, s.ts, s.batch,
              IF s.held = Absent THEN engine[s.camera].enter ELSE s.held, wait, policy)
    /\ UNCHANGED <<engine, match, posRows, requests, history>>

(* _on_pos_event up to the insert. *)
Order(a, type, at) ==
    /\ orders < MaxOrders /\ orders' = orders + 1
    /\ wait' = [wait EXCEPT ![a[2]] = W!OnPosEvent(@, type, at)]
    /\ match' = IF type = "check_open"
                  THEN [match EXCEPT ![a[2]] = M!MatchPos(@, [ts |-> at]).stores]
                  ELSE match
    /\ orders5m' = IF type \in W!OrderTypes THEN [orders5m EXCEPT ![a] = Append(@, at)]
                                            ELSE orders5m
    /\ saving' = saving \union {[account |-> a, type |-> type, at |-> at, number |-> orders]}
    /\ UNCHANGED <<engine, policy, outputs, rows, frames, again, history>>

(* The insert of an order is done and _on_pos_event goes on. *)
OrderSaved(s) ==
    /\ s \in OrderTasks
    /\ saving' = saving \ {s}
    /\ posRows' = posRows \union {s}
    /\ Publish(s.account, s.at, wait)
    /\ UNCHANGED <<engine, match, policy, orders5m, triggers, zoneRows, requests, history>>

(* GET wait, and the first message of a socket: an estimate for the time   *)
(* of the call.                                                            *)
Read(a, now) ==
    /\ Publish(a, now, wait)
    /\ UNCHANGED <<engine, match, policy, orders5m, triggers, database, requests, history>>

MishapAllowed == Cardinality(refused) + again < MaxMishaps

(* The insert raises: the request is answered 500 and goes no further. *)
SaveFails(s) ==
    /\ s \in saving /\ MishapAllowed
    /\ saving' = saving \ {s}
    /\ refused' = refused \union {s}
    /\ UNCHANGED <<services, outputs, rows, requests, emitted, orphans, film, lastTs>>

(* Those whom the zone engine of a camera has in the queue, as the wait    *)
(* engine knows them.                                                      *)
InQueue(c) == {Who(c, k) : k \in {x \in DOMAIN engine[c].enter : x[2] = "queue"}}

(* register_camera for a camera that is registered, say after its zones    *)
(* are redrawn: a new zone engine.  Requests that await the database keep  *)
(* the one they hold.                                                      *)
RegisterAgain(c) ==
    /\ engine[c] # NewEngine
    /\ MishapAllowed /\ again' = again + 1
    /\ engine' = [engine EXCEPT ![c] = NewEngine]
    /\ orphans' = orphans \union InQueue(c)
    /\ saving' = {IF s \in FrameTasks /\ s.camera = c /\ s.held = Absent
                    THEN [s EXCEPT !.held = engine[c].enter] ELSE s : s \in saving}
    /\ UNCHANGED <<wait, match, policy, orders5m, outputs, rows, frames, orders,
                   emitted, film, lastTs, refused>>

Next ==
    \/ \E c \in Cameras, f \in Z!Frames, ts \in Times : Frame(c, f, ts)
    \/ \E s \in saving : FrameSaved(s) \/ OrderSaved(s) \/ SaveFails(s)
    \/ \E a \in Accounts, type \in OrderEvents, at \in Times : Order(a, type, at)
    \/ \E a \in Accounts, now \in Times : Read(a, now)
    \/ \E c \in Cameras : RegisterAgain(c)

Spec == Init /\ [][Next]_vars

-----------------------------------------------------------------------------
(* The wait engine keeps the queue by adding and removing people as events *)
(* come.  It agrees with the zone engines of the location's cameras at     *)
(* every moment, however frames are delayed, repeated or interleaved, on   *)
(* everybody but those whose engine was replaced while they queued.        *)
LiveCountAgrees ==
    \A l \in Locations :
        wait[l].inQueue \ orphans =
            (UNION {InQueue(c) : c \in {d \in Cameras : d.location = l}}) \ orphans

(* When no frame of an account is under way, the queue length it was last  *)
(* told is the present one: the requests that finish last, whatever they   *)
(* carry, publish the state they find and not the one they left.  (A frame *)
(* whose insert is refused has changed the queue and tells nobody.)        *)
AnswersAreFresh ==
    \A a \in Accounts :
        /\ published[a] # Absent /\ published[a].source = "vision"
        /\ \A s \in saving \union refused : IsFrameTask(s) => s.camera.location # a[2]
        => published[a].queueLength = Cardinality(wait[a[2]].inQueue)

(* "With WTE_DATABASE_URL set, events are also persisted" (state.py:3):    *)
(* every zone event is in the database or on its way there, but for those  *)
(* in the very insert that the database refused.  For those nothing makes  *)
(* up: the frame is sent again, and the engine, which has processed it,    *)
(* returns no events.                                                      *)
EventsArePersisted ==
    \A r \in emitted :
        r \in zoneRows \/ \E s \in saving \union refused : IsFrameTask(s) /\ r \in TaskRows(s)

(* "a track that hasn't been seen for max_silence_s is treated as having   *)
(* exited" (zones.py:51): nobody is counted in a queue whom the camera has *)
(* not shown for MaxSilence before its latest frame, except those counted  *)
(* when the camera was registered again: of them the new engine knows      *)
(* nothing, and unless it sees them come and go nothing removes them.      *)
(* That time stands still for a camera that is dark, whatever the other    *)
(* cameras of the location show.                                           *)
VanishedHaveExited ==
    \A c \in Cameras, t \in Trackers :
        <<c.id, t>> \in wait[c.location].inQueue \ orphans =>
            \E u \in DOMAIN film[c] : t \in film[c][u].visible /\ lastTs[c] - u <= MaxSilence

=============================================================================
