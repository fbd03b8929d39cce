--------------------------- MODULE ZoneTracking ---------------------------
(***************************************************************************)
(* The dwell bookkeeping of one camera's zone engine                       *)
(* (src/wte/vision/zones.py, class ZoneEngine), as operators on its two    *)
(* dictionaries.  The modules ZoneEngine and AppState run them.            *)
(*                                                                         *)
(*   enter  : _enter_ts, a partial function from keys <<tracker, kind>> to *)
(*            the time the track entered the zone                          *)
(*   seen   : _last_seen, a partial function from trackers to the time of  *)
(*            the latest processed frame that shows the track              *)
(*                                                                         *)
(* A frame is what the edge uploads after the polygon test: the tracked    *)
(* people it shows, and for each the zones its foot point lies in.         *)
(***************************************************************************)
EXTENDS Integers, FiniteSets

CONSTANTS
    Trackers,     \* tracker ids a camera's tracker hands out
    Kinds,        \* the zone kinds drawn on the camera (queue, service, ...)
    MaxSilence,   \* ZoneEngine.max_silence_s
    Absent        \* "no value": a track not seen, an event without a dwell

ASSUME MaxSilenceAssumption == MaxSilence \in Nat
ASSUME AbsentAssumption == Absent \notin Int

Keys == Trackers \X Kinds

(* The tracker of a key. *)
Tid(k) == k[1]

(* Detections without a tracker id are skipped by update, so a frame is    *)
(* the set of tracked people and the keys whose polygon contains them.     *)
Frames == {f \in [visible : SUBSET Trackers, present : SUBSET Keys] :
              \A k \in f.present : Tid(k) \in f.visible}

\* mutant: a late frame does not move the last-seen time back
SeenNewest(seen, f, ts) ==
    [t \in DOMAIN seen \union f.visible |->
        IF t \in f.visible /\ (t \in DOMAIN seen => seen[t] < ts) THEN ts ELSE seen[t]]

(* update, first loop: every track in the frame is now seen at ts, and a   *)
(* key that is inside and not open yet opens at ts.                        *)
SeenNow(seen, f, ts) ==
    [t \in DOMAIN seen \union f.visible |-> IF t \in f.visible THEN ts ELSE seen[t]]

EnteredKeys(enter, f) == f.present \ DOMAIN enter

EnterNow(enter, f, ts) ==
    [k \in DOMAIN enter \union f.present |-> IF k \in DOMAIN enter THEN enter[k] ELSE ts]

\* mutant: no exit sweep, stays end by silence only
LeftNever(enter, seen, f, ts) == {}

(* update, second loop: an open key is left when its track was seen at ts  *)
(* and the frame does not show it inside.                                  *)
LeftKeys(enter, seen, f, ts) ==
    {k \in DOMAIN enter \ f.present : Tid(k) \in DOMAIN seen /\ seen[Tid(k)] = ts}

\* mutants: the silence limit is off by one, either way
SilentLater(seen, t, ts) == t \in DOMAIN seen /\ ts - seen[t] > MaxSilence + 1
SilentSooner(seen, t, ts) == t \in DOMAIN seen /\ ts - seen[t] >= MaxSilence

(* expire: tracks silent for more than MaxSilence at ts; their open keys   *)
(* close at the time the track was last seen, and the track is forgotten.  *)
Silent(seen, t, ts) == t \in DOMAIN seen /\ ts - seen[t] > MaxSilence

ExpiredKeys(enter, seen, ts) == {k \in DOMAIN enter : Silent(seen, Tid(k), ts)}

\* mutant: the forgetting loop of expire tests >= where the closing loop tests >
ForgetSooner(seen, ts) == [t \in {u \in DOMAIN seen : ts - seen[u] < MaxSilence} |-> seen[t]]

SeenAfterExpire(seen, ts) == [t \in {u \in DOMAIN seen : ~Silent(seen, u, ts)} |-> seen[t]]

Without(enter, keys) == [k \in DOMAIN enter \ keys |-> enter[k]]

\* mutant: a dwell may be negative
DwellUnclamped(from, to) == to - from

(* _close and _event: the exit of a key, its dwell never negative. *)
Dwell(from, to) == IF to >= from THEN to - from ELSE 0

EnterEvent(k, ts) == [type |-> "enter", key |-> k, ts |-> ts, dwell |-> Absent]
ExitEvent(enter, k, ts) ==
    [type |-> "exit", key |-> k, ts |-> ts, dwell |-> Dwell(enter[k], ts)]

ZoneEvents(times) ==
    [type : {"enter"}, key : Keys, ts : times, dwell : {Absent}]
      \union [type : {"exit"}, key : Keys, ts : times, dwell : Nat]

\* mutant: expire bills the silence, closing at the current frame's time
ExpireEventsAtNow(enter, seen, ts) ==
    {ExitEvent(enter, k, ts) : k \in ExpiredKeys(enter, seen, ts)}

(* The exit events of expire: they carry the time of the last sighting. *)
ExpireEvents(enter, seen, ts) ==
    {ExitEvent(enter, k, seen[Tid(k)]) : k \in ExpiredKeys(enter, seen, ts)}

(* The whole of update(detections, ts) on (enter, seen): the batch of      *)
(* events it returns and the two dictionaries it leaves.                   *)
UpdateEvents(enter, seen, f, ts) ==
    LET s == SeenNow(seen, f, ts)
        e == EnterNow(enter, f, ts)
        left == LeftKeys(e, s, f, ts)
    IN  {EnterEvent(k, ts) : k \in EnteredKeys(enter, f)}
          \union {ExitEvent(e, k, ts) : k \in left}
          \union ExpireEvents(Without(e, left), s, ts)

\* mutant: expire emits the exit and does not pop the key
UpdateEnterKeepsExpired(enter, seen, f, ts) ==
    LET s == SeenNow(seen, f, ts)
        e == EnterNow(enter, f, ts)
    IN  Without(e, LeftKeys(e, s, f, ts))

\* mutant: a stay begins when the track was seen last, inside or not
UpdateEnterBackdates(enter, seen, f, ts) ==
    LET s == SeenNow(seen, f, ts)
        began(k) == IF Tid(k) \in DOMAIN seen THEN seen[Tid(k)] ELSE ts
        e == [k \in DOMAIN enter \union f.present |->
                 IF k \in DOMAIN enter THEN enter[k] ELSE began(k)]
    IN  Without(e, LeftKeys(e, s, f, ts) \union ExpiredKeys(e, s, ts))

UpdateEnter(enter, seen, f, ts) ==
    LET s == SeenNow(seen, f, ts)
        e == EnterNow(enter, f, ts)
    IN  Without(e, LeftKeys(e, s, f, ts) \union ExpiredKeys(e, s, ts))

UpdateSeen(seen, f, ts) == SeenAfterExpire(SeenNow(seen, f, ts), ts)

(* The keys that a batch of events enters and leaves. *)
KeysEntered(events) == {e.key : e \in {x \in events : x.type = "enter"}}
KeysLeft(events) == {e.key : e \in {x \in events : x.type = "exit"}}

(* occupancy(kind): the number of open keys of that kind. *)
Occupancy(enter, kind) == Cardinality({k \in DOMAIN enter : k[2] = kind})

===========================================================================
