----------------------------- MODULE WaitTime -----------------------------
(***************************************************************************)
(* The live wait-time engine's operations on the state of one location     *)
(* (src/wte/waittime/engine.py, class WaitTimeEngine).  The modules        *)
(* WaitEngine and AppState run them.                                       *)
(*                                                                         *)
(* Times and dwells are whole units of time, Minute of them a minute; a    *)
(* wait is a fraction <<num, den>> of units, so that nothing is rounded    *)
(* before the band is.  (The one-decimal p50 and p90 of the published      *)
(* record are for display and are left out.)                               *)
(***************************************************************************)
EXTENDS Integers, Sequences, FiniteSets, SequencesExt, FiniteSetsExt, OrderStatistics

CONSTANTS
    Minute,       \* units of time in a minute
    Window,       \* WaitTimeEngine.window, in units
    PosWindow,    \* pos_window
    Burst,        \* the "last 5 minutes" of _pos_estimate
    StaleAfter,   \* video_stale_after
    MinSamples,   \* min_samples
    MinDwell,     \* shorter dwells are pass-throughs (3 s)
    Absent        \* None

ASSUME WaitTimeAssumption ==
    /\ {Minute, Window, PosWindow, Burst, MinSamples} \subseteq Nat \ {0}
    /\ {StaleAfter, MinDwell} \subseteq Nat
    /\ Absent \notin Int /\ Absent \notin Int \X Int

(* _LocationState: completed dwells <<exit time, dwell>>, the people now   *)
(* in the queue as <<camera, tracker>>, order arrivals, last video time.   *)
EmptyLocation == [dwell |-> <<>>, inQueue |-> {}, orders |-> <<>>, lastVideo |-> Absent]

\* mutant: at most one old sample is dropped per call
DropOneOld(q, recent) == IF q # <<>> /\ 1 \notin recent THEN Tail(q) ELSE q

(* _trim, one deque: entries are popped from the head, up to the first one *)
(* whose index is recent.                                                  *)
DropOldHead(q, recent) == IF recent = {} THEN <<>> ELSE SubSeq(q, Min(recent), Len(q))

(* The entries of a deque of dwells, and of orders, no older than a span. *)
RecentDwells(q, now, span) == {i \in DOMAIN q : now - q[i][1] <= span}
RecentOrders(q, now, span) == {i \in DOMAIN q : now - q[i] <= span}

\* mutant: an entry exactly as old as the window is dropped
TrimSooner(st, now) ==
    [st EXCEPT !.dwell  = DropOldHead(@, RecentDwells(@, now, Window - 1)),
               !.orders = DropOldHead(@, RecentOrders(@, now, PosWindow))]

Trim(st, now) ==
    [st EXCEPT !.dwell  = DropOldHead(@, RecentDwells(@, now, Window)),
               !.orders = DropOldHead(@, RecentOrders(@, now, PosWindow))]

\* mutant: the video clock follows the latest call, not the latest time
HeardLast(st, ts) == [st EXCEPT !.lastVideo = ts]

(* on_heartbeat: the latest video time of the location. *)
Heard(st, ts) == [st EXCEPT !.lastVideo = IF @ = Absent \/ ts > @ THEN ts ELSE @]

(* on_zone_event for an event [type, zone, who, ts, dwell]. *)
Counted(st, ev) ==
    IF ev.type = "enter"
      THEN [st EXCEPT !.inQueue = @ \union {ev.who}]
      ELSE [st EXCEPT !.inQueue = @ \ {ev.who},
                      !.dwell = IF ev.dwell >= MinDwell
                                  THEN Append(@, <<ev.ts, ev.dwell>>) ELSE @]

OnZoneEvent(st, ev) ==
    IF ev.zone = "queue" THEN Trim(Counted(Heard(st, ev.ts), ev), ev.ts)
                         ELSE Heard(st, ev.ts)

OrderTypes == {"order_created", "check_open"}

(* on_pos_event for an event of the given type received at a time. *)
OnPosEvent(st, type, at) ==
    Trim(IF type \in OrderTypes THEN [st EXCEPT !.orders = Append(@, at)] ELSE st, at)

---------------------------------------------------------------------------
(* Comparison of fractions with positive denominators. *)
AtMost(x, y) == x[1] * y[2] <= y[1] * x[2]

(* np.percentile, the percentile in tenths. *)
Percentile(dwells, tenths) == <<Quantile(dwells, tenths), 10>>

(* Python's round of the fraction num/den: to nearest, ties to even. *)
RoundHalfEven(num, den) ==
    LET floor == num \div den
        twice == 2 * (num % den)
    IN  IF twice > den \/ (twice = den /\ floor % 2 = 1) THEN floor + 1 ELSE floor

\* mutant: the upper bound is rounded down like the lower one
BandFloors(p50, p90) ==
    LET step == IF p90[1] >= 10 * Minute * p90[2] THEN 5 ELSE 2
        low  == step * (p50[1] \div (p50[2] * Minute * step))
        high == step * (p90[1] \div (p90[2] * Minute * step))
    IN  <<low, IF high <= low THEN low + step ELSE high>>

(* _band: in minutes, 5-minute steps from 10 minutes on, 2-minute below. *)
Band(p50, p90) ==
    LET step == IF p90[1] >= 10 * Minute * p90[2] THEN 5 ELSE 2
        low  == step * (p50[1] \div (p50[2] * Minute * step))
        high == -step * ((-p90[1]) \div (p90[2] * Minute * step))
    IN  <<low, IF high <= low THEN low + step ELSE high>>

(* _pos_estimate: Little's law, queue length over order rate; Absent with  *)
(* fewer than 3 orders.  Without video the queue is the recent burst over  *)
(* what the average rate explains.                                         *)
PosQueue(st, now) ==
    LET recent == Cardinality(RecentOrders(st.orders, now, Burst))
        q == RoundHalfEven(recent * PosWindow - Len(st.orders) * Burst, PosWindow)
    IN  IF q > 0 THEN q ELSE 0

PosEstimate(st, queueLength) ==
    IF Len(st.orders) < 3 THEN Absent ELSE <<queueLength * PosWindow, Len(st.orders)>>

Build(queueLength, p50, p90, source, n) ==
    [queueLength |-> queueLength, p50 |-> p50, p90 |-> p90, band |-> Band(p50, p90),
     source |-> source, samples |-> n]

Unknown(queueLength, source, n) ==
    [queueLength |-> queueLength, p50 |-> Absent, p90 |-> Absent, band |-> Absent,
     source |-> source, samples |-> n]

OneAndAHalf(x) == <<3 * x[1], 2 * x[2]>>

\* mutant: the video is never stale once there was some
VideoSeen(st, now) == st.lastVideo # Absent

VideoOk(st, now) == st.lastVideo # Absent /\ now - st.lastVideo <= StaleAfter

(* estimate(location, now): what is published; the state it leaves is      *)
(* Trim(st, now).                                                          *)
VisionEstimate(st) ==
    LET dwells == [i \in 1 .. Len(st.dwell) |-> st.dwell[i][2]]
        n == Len(dwells)
        q == Cardinality(st.inQueue)
        pos == PosEstimate(st, q)
    IN  CASE n >= MinSamples -> Build(q, Percentile(dwells, 5), Percentile(dwells, 9), "vision", n)
          [] n < MinSamples /\ q = 0 -> Build(0, <<0, 1>>, <<0, 1>>, "vision", n)
          [] n < MinSamples /\ q > 0 /\ pos # Absent -> Build(q, pos, OneAndAHalf(pos), "vision", n)
          [] OTHER -> Unknown(q, "vision", n)

PosOnlyEstimate(st, now) ==
    LET pos == PosEstimate(st, PosQueue(st, now))
    IN  IF pos = Absent THEN Unknown(0, "no_data", 0)
                        ELSE Build(0, pos, OneAndAHalf(pos), "pos_only", Len(st.orders))

Estimate(st, now) ==
    LET trimmed == Trim(st, now)
    IN  IF VideoOk(trimmed, now) THEN VisionEstimate(trimmed) ELSE PosOnlyEstimate(trimmed, now)
===========================================================================
