---------------------------- MODULE WaitEngine ----------------------------
(***************************************************************************)
(* The wait-time engine of one location, driven by everything that calls   *)
(* it: zone events of the location's cameras (which keep the contract of   *)
(* module Presence), heartbeats of their frames, POS events, and readers   *)
(* of the estimate.                                                        *)
(*                                                                         *)
(* Frames may be replayed hours late and expired stays end before the      *)
(* frame that ends them, so event times come in any order.  POS events are *)
(* stamped by the server on arrival, in order.                             *)
(***************************************************************************)
EXTENDS WaitTime

CONSTANTS
    Times,       \* the times calls carry
    People,      \* <<camera, tracker>> pairs
    MaxSamples,  \* bound of the runs: dwells recorded
    MaxOrders    \* bound of the runs: orders received

ASSUME TimesAssumption == Times \subseteq Int

VARIABLES
    st,        \* the location's state
    recorded,  \* history: every dwell recorded, in order of arrival
    received,  \* history: the arrival of every order
    since,     \* history: when each person in the queue entered it
    heard,     \* history: the times of frames and zone events
    nowMax     \* history: the latest time _trim was called with

vars == <<st, since, recorded, received, heard, nowMax>>

Init ==
    /\ st = EmptyLocation
    /\ since = [p \in People |-> Absent]
    /\ recorded = <<>>
    /\ received = <<>>
    /\ heard = {}
    /\ nowMax = Absent

Trimmed(now) == nowMax' = IF nowMax = Absent \/ now > nowMax THEN now ELSE nowMax

Event(type, zone, who, ts, dwell) ==
    [type |-> type, zone |-> zone, who |-> who, ts |-> ts, dwell |-> dwell]

EnterQueue(p, ts) ==
    /\ p \notin st.inQueue
    /\ st' = OnZoneEvent(st, Event("enter", "queue", p, ts, Absent))
    /\ since' = [since EXCEPT ![p] = ts]
    /\ heard' = heard \union {ts}
    /\ Trimmed(ts)
    /\ UNCHANGED <<recorded, received>>

ExitQueue(p, ts) ==
    LET d == IF ts >= since[p] THEN ts - since[p] ELSE 0 IN
    /\ p \in st.inQueue
    /\ Len(recorded) < MaxSamples
    /\ st' = OnZoneEvent(st, Event("exit", "queue", p, ts, d))
    /\ recorded' = IF d >= MinDwell THEN Append(recorded, <<ts, d>>) ELSE recorded
    /\ since' = [since EXCEPT ![p] = Absent]
    /\ heard' = heard \union {ts}
    /\ Trimmed(ts)
    /\ UNCHANGED received

(* An event of another zone, or the heartbeat of a frame. *)
OtherVideo(ts) ==
    /\ \/ \E p \in People : st' = OnZoneEvent(st, Event("enter", "service", p, ts, Absent))
       \/ st' = Heard(st, ts)
    /\ heard' = heard \union {ts}
    /\ UNCHANGED <<since, recorded, received, nowMax>>

PosEvent(type, at) ==
    /\ received # <<>> => at >= Last(received)
    /\ Len(received) < MaxOrders
    /\ st' = OnPosEvent(st, type, at)
    /\ received' = IF type \in OrderTypes THEN Append(received, at) ELSE received
    /\ Trimmed(at)
    /\ UNCHANGED <<since, recorded, heard>>

(* GET /wait, a new socket, or the estimate published after a frame. *)
Read(now) ==
    /\ st' = Trim(st, now)
    /\ Trimmed(now)
    /\ UNCHANGED <<since, recorded, received, heard>>

Next ==
    \E t \in Times :
        \/ \E p \in People : EnterQueue(p, t)
        \/ \E p \in People : ExitQueue(p, t)
        \/ OtherVideo(t)
        \/ \E type \in {"check_open", "order_completed"} : PosEvent(type, t)
        \/ Read(t)

Spec == Init /\ [][Next]_vars

---------------------------------------------------------------------------
(* No dwell is lost while it counts: what _trim has dropped was older than *)
(* the window at the latest time anybody asked for, and everything else is *)
(* still there, in order of arrival.                                       *)
NoSampleLost ==
    LET gone == Len(recorded) - Len(st.dwell)
    IN  /\ gone >= 0
        /\ st.dwell = SubSeq(recorded, gone + 1, Len(recorded))
        /\ \A i \in 1 .. gone : nowMax - recorded[i][1] > Window

(* Reading the estimate at one time does not change what anybody reads at  *)
(* a later one, although every reader trims the shared state.              *)
ReadsDoNotDisturb ==
    \A early, late \in Times :
        early <= late => Estimate(Trim(st, early), late) = Estimate(st, late)

(* The estimate says vision exactly when some frame or event of the        *)
(* location is at most StaleAfter old, whatever order they came in, and    *)
(* POS only when there is none and 3 orders arrived within PosWindow; it   *)
(* never reports the people of a stale queue.                              *)
SourceIsHonest ==
    \A now \in Times : (nowMax = Absent \/ now >= nowMax) =>
        LET est == Estimate(st, now)
            fresh == \E h \in heard : now - h <= StaleAfter
            orders == Cardinality(RecentOrders(received, now, PosWindow))
        IN  /\ est.source = "vision" <=> fresh
            /\ est.source = "pos_only" <=> ~fresh /\ orders >= 3
            /\ ~fresh => est.queueLength = 0

---------------------------------------------------------------------------
(* The band a customer reads contains both percentiles, is never empty,    *)
(* and p50 is never above p90, whichever way the estimate was made.        *)
BandCoversEstimate ==
    \A now \in Times :
        LET est == Estimate(st, now)
        IN  est.band # Absent =>
              /\ AtMost(est.p50, est.p90)
              /\ AtMost(<<est.band[1] * Minute, 1>>, est.p50)
              /\ AtMost(est.p90, <<est.band[2] * Minute, 1>>)
              /\ est.band[1] < est.band[2]
===========================================================================
