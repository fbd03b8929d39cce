--------------------------- MODULE TriggerPolicy ---------------------------
(***************************************************************************)
(* When a camera's scene is worth a call to the vision-language model      *)
(* (src/wte/vlm/triggers.py, class TriggerPolicy), as operators on what    *)
(* the policy keeps for one camera:                                        *)
(*                                                                         *)
(*   lastFire : _last_fire, Absent before the first call                   *)
(*   history  : _history, the last HistoryMax snapshots                    *)
(*   baseline : _dwell_baseline, the last BaselineMax queue dwells         *)
(*                                                                         *)
(* A snapshot is [ts, queue, service, dwell, orders]; dwell is the average *)
(* dwell of the frame's queue exits, or Absent.                            *)
(***************************************************************************)
EXTENDS Integers, Sequences, SequencesExt, FiniteSets, FiniteSetsExt

CONSTANTS
    Cadence,      \* cadence_s
    MinGap,       \* min_gap_s
    JumpSpan,     \* the 60 s over which a queue jump is looked for
    OrdersSpan,   \* the 5 min over which orders are compared
    LongQueue,    \* long_queue
    HighCount,    \* high_count
    HistoryMax,   \* snapshots kept per camera (120)
    BaselineMin,  \* dwells needed before a dwell can be unusual (30)
    BaselineMax,  \* baseline_max
    Absent        \* None

ASSUME TriggerAssumption ==
    /\ {Cadence, MinGap, JumpSpan, OrdersSpan, LongQueue, HighCount} \subseteq Nat
    /\ {HistoryMax, BaselineMin, BaselineMax} \subseteq Nat \ {0}
    /\ Absent \notin Int /\ Absent \notin {"anomaly", "cadence"}

NewCamera == [lastFire |-> Absent, history |-> <<>>, baseline |-> <<>>]

(* deque(maxlen = max): the oldest entry makes room. *)
AppendBounded(q, x, max) ==
    LET grown == Append(q, x) IN IF Len(grown) > max THEN Tail(grown) ELSE grown

(* record_dwell *)
RecordDwell(cam, d) == [cam EXCEPT !.baseline = AppendBounded(@, d, BaselineMax)]

(* np.percentile(q, 95) < x, with linear interpolation. *)
Above95(q, x) ==
    LET sorted == SortSeq(q, <)
        n == Len(sorted)
        i == ((n - 1) * 19) \div 20
        r == ((n - 1) * 19) % 20
        next == IF i + 2 <= n THEN sorted[i + 2] ELSE sorted[n]
    IN  20 * x > 20 * sorted[i + 1] + r * (next - sorted[i + 1])

(* _anomalies: the reasons for an immediate call.  Within are the places   *)
(* in the history of the snapshots of the last span, minute_ago and prior. *)
Within(history, snap, span) == {i \in DOMAIN history : snap.ts - history[i].ts <= span}

\* mutant: a jump needs the queue to double
JumpDoubles(history, snap) ==
    LET recent == Within(history, snap, JumpSpan)
        base == history[Min(recent)].queue
    IN  recent # {} /\ base >= 2 /\ snap.queue > 2 * base

QueueJump(history, snap) ==
    LET recent == Within(history, snap, JumpSpan)
        base == history[Min(recent)].queue
    IN  recent # {} /\ base >= 2 /\ 2 * snap.queue > 3 * base

UnusualDwell(baseline, snap) ==
    Len(baseline) >= BaselineMin /\ snap.dwell # Absent /\ Above95(baseline, snap.dwell)

ServiceEmpty(snap) == snap.queue >= LongQueue /\ snap.service = 0

OrdersFlat(history, snap) ==
    /\ snap.queue >= HighCount
    /\ Within(history, snap, JumpSpan) # {}
    /\ Within(history, snap, OrdersSpan) # {}
    /\ \A i \in Within(history, snap, OrdersSpan) : snap.orders <= history[i].orders

Anomalous(cam, snap) ==
    \/ QueueJump(cam.history, snap)
    \/ UnusualDwell(cam.baseline, snap)
    \/ ServiceEmpty(snap)
    \/ OrdersFlat(cam.history, snap)

\* mutant: the timer is debounced like an anomaly
ReasonShortCadence(cam, snap) ==
    LET GapIs(min) == cam.lastFire = Absent \/ snap.ts - cam.lastFire >= min
    IN  CASE Anomalous(cam, snap) /\ GapIs(MinGap)      -> "anomaly"
          [] ~(Anomalous(cam, snap) /\ GapIs(MinGap)) /\ GapIs(MinGap) -> "cadence"
          [] OTHER                                      -> Absent

(* evaluate: why to call now, or Absent. *)
Reason(cam, snap) ==
    LET GapIs(min) == cam.lastFire = Absent \/ snap.ts - cam.lastFire >= min
    IN  CASE Anomalous(cam, snap) /\ GapIs(MinGap)      -> "anomaly"
          [] ~(Anomalous(cam, snap) /\ GapIs(MinGap)) /\ GapIs(Cadence) -> "cadence"
          [] OTHER                                      -> Absent

(* evaluate: what the policy keeps afterwards. *)
Evaluate(cam, snap) ==
    [cam EXCEPT !.history = AppendBounded(@, snap, HistoryMax),
                !.lastFire = IF Reason(cam, snap) = Absent THEN @ ELSE snap.ts]
===========================================================================
