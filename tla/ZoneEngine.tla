---------------------------- MODULE ZoneEngine ----------------------------
(***************************************************************************)
(* One camera's zone engine, fed the frames of that camera.                *)
(*                                                                         *)
(* The camera takes one frame per timestamp.  The uplink delivers frames   *)
(* late, twice, out of order or not at all (see Uplink), so the engine     *)
(* meets every order.  While the uplink never fails the frames come in     *)
(* order of their timestamps, and ordered says that they have so far.      *)
(***************************************************************************)
EXTENDS ZoneTracking

CONSTANT Times     \* the timestamps frames carry; a bound on the runs only

ASSUME TimesAssumption == Times \subseteq Int

VARIABLES
    enterTs,    \* _enter_ts
    lastSeen,   \* _last_seen
    emitted,    \* the batch of events the latest update returned
    lastTs,     \* the timestamp of the latest processed frame
    ordered,    \* history: no frame has come after a later one
    film,       \* history: the frames processed so far, by timestamp
    shown       \* history: for a track, what the latest processed frame
                \*   that shows it says of the zones it stands in

vars == <<enterTs, lastSeen, emitted, lastTs, ordered, film, shown>>

Stamps == Times \union {Absent}

EmptyFunction == [x \in {} |-> x]

Init ==
    /\ enterTs = EmptyFunction
    /\ lastSeen = EmptyFunction
    /\ emitted = {}
    /\ lastTs = Absent
    /\ ordered = TRUE
    /\ film = EmptyFunction
    /\ shown = [t \in Trackers |-> {}]

InOrder(ts) == lastTs # Absent => ts >= lastTs

(* ZoneEngine.update(detections, ts).  A frame delivered again is the same *)
(* frame: film remembers what the camera took at ts.                       *)
Update(f, ts) ==
    /\ ts \in DOMAIN film => film[ts] = f
    /\ emitted' = UpdateEvents(enterTs, lastSeen, f, ts)
    /\ enterTs' = UpdateEnter(enterTs, lastSeen, f, ts)
    /\ lastSeen' = UpdateSeen(lastSeen, f, ts)
    /\ lastTs' = ts
    /\ ordered' = (ordered /\ InOrder(ts))
    /\ film' = [u \in DOMAIN film \union {ts} |-> IF u = ts THEN f ELSE film[u]]
    /\ shown' = [t \in Trackers |->
                    IF t \in f.visible THEN {k \in f.present : Tid(k) = t} ELSE shown[t]]

Next == \E f \in Frames, ts \in Times : Update(f, ts)

Spec == Init /\ [][Next]_vars

---------------------------------------------------------------------------
(* Every event names a key of the camera, every recorded time is a time a  *)
(* frame carried, and a dwell is never negative.                           *)
TypeOK ==
    /\ enterTs \in [DOMAIN enterTs -> Times] /\ DOMAIN enterTs \subseteq Keys
    /\ lastSeen \in [DOMAIN lastSeen -> Times] /\ DOMAIN lastSeen \subseteq Trackers
    /\ emitted \subseteq ZoneEvents(Times)
    /\ lastTs \in Stamps
    /\ ordered \in BOOLEAN
    /\ film \in [DOMAIN film -> Frames] /\ DOMAIN film \subseteq Times
    /\ shown \in [Trackers -> SUBSET Keys]

(* A stay that is open can still be closed: its track has a last-seen      *)
(* time.  expire skips a key whose track has none (zones.py:98), so such a *)
(* person would be counted in the zone for ever.                           *)
OpenKeysCanClose == \A k \in DOMAIN enterTs : Tid(k) \in DOMAIN lastSeen

(* Once a frame is processed, nobody is counted in a zone who has not been *)
(* seen for more than MaxSilence before that frame.                        *)
BoundedSilence ==
    \A k \in DOMAIN enterTs :
        Tid(k) \in DOMAIN lastSeen => lastTs - lastSeen[Tid(k)] <= MaxSilence

(* Whatever the order of delivery, somebody counted in a zone was inside   *)
(* it in the latest processed frame that showed them: no track is counted  *)
(* in a zone it was already seen outside of.                               *)
OpenMeansLastShownInside == \A k \in DOMAIN enterTs : k \in shown[Tid(k)]

(* A stay is never invented: the exit time is the time of a frame that     *)
(* shows the track, and a positive dwell goes back to a frame that shows   *)
(* the track inside the zone.  So a silence is never billed as waiting.    *)
StaysAreWitnessed ==
    \A e \in emitted : e.type = "exit" =>
        /\ e.ts \in DOMAIN film
        /\ Tid(e.key) \in film[e.ts].visible
        /\ e.dwell > 0 => /\ e.ts - e.dwell \in DOMAIN film
                          /\ e.key \in film[e.ts - e.dwell].present

(* A frame that arrives again after newer ones, as the uplink replays it   *)
(* when its first answer was lost, may put people back into zones they     *)
(* have left and close stays that go on, but not for long: every frame     *)
(* puts those it shows where it shows them, and of the others nobody is    *)
(* counted but whom a frame of the last MaxSilence shows inside.           *)
ReplaysHeal ==
    lastTs # Absent => \A k \in Keys :
        /\ Tid(k) \in film[lastTs].visible =>
               (k \in DOMAIN enterTs <=> k \in film[lastTs].present)
        /\ k \in DOMAIN enterTs =>
               \E u \in DOMAIN film : k \in film[u].present /\ lastTs - u <= MaxSilence

---------------------------------------------------------------------------
(* While frames come in order, a key is open exactly when the latest frame *)
(* that shows its track shows it inside, no more than MaxSilence ago.      *)
OccupancyIsExact ==
    ordered => \A k \in Keys :
        k \in DOMAIN enterTs <=>
            \E u \in DOMAIN film :
                /\ k \in film[u].present
                /\ lastTs - u <= MaxSilence
                /\ \A w \in DOMAIN film : w > u => Tid(k) \notin film[w].visible

(* While frames come in order, an open stay is one stay.  Every frame      *)
(* since it began that shows the track shows it inside, so the dwell that  *)
(* its exit will report is not the sum of two visits.                      *)
OpenStayIsUnbroken ==
    ordered => \A k \in DOMAIN enterTs :
        /\ enterTs[k] \in DOMAIN film
        /\ k \in film[enterTs[k]].present
        /\ \A u \in DOMAIN film :
               u >= enterTs[k] /\ Tid(k) \in film[u].visible => k \in film[u].present

---------------------------------------------------------------------------
(* What the consumers of the events rely on (module Presence): an enter is *)
(* for somebody not inside, an exit for somebody who was.                  *)
Contract == INSTANCE Presence WITH
    open    <- DOMAIN enterTs,
    entered <- KeysEntered(emitted),
    left    <- KeysLeft(emitted)

ContractSpec == Contract!Spec
===========================================================================
