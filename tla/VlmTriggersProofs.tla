------------------------- MODULE VlmTriggersProofs -------------------------
(***************************************************************************)
(* Proofs about the trigger policy (module VlmTriggers), for any spans,    *)
(* scenes and lengths of the history, and frames in any order.             *)
(***************************************************************************)
EXTENDS VlmTriggers, WellFoundedInduction, TLAPS

Snap == [ts : Int, queue : Nat, service : Nat, dwell : Dwells \union {Absent}, orders : Nat]

(* The snapshots evaluated so far, and the end of them a deque keeps. *)
Evaluated == IF latest = Absent THEN <<>> ELSE Append(past, latest)

Dropped(q) == IF Len(q) > HistoryMax THEN Len(q) - HistoryMax ELSE 0

IsEndOf(h, q) ==
    /\ Len(h) = Len(q) - Dropped(q)
    /\ \A i \in 1 .. Len(h) : h[i] = q[i + Dropped(q)]

(* The inductive invariant: the history is the end of what was evaluated,  *)
(* and the last call is the one the gap is measured from.                  *)
TypeInv ==
    /\ cam \in [lastFire : Int \union {Absent}, history : Seq(Snap), baseline : Seq(Dwells)]
    /\ latest \in Snap \union {Absent}
    /\ past \in Seq(Snap)
    /\ fires \in Seq(Int \X {"anomaly", "cadence"})

LastFireIsLast ==
    /\ fires = <<>> => cam.lastFire = Absent
    /\ fires # <<>> => cam.lastFire \in Int /\ cam.lastFire = fires[Len(fires)][1]

IInv ==
    /\ TypeInv
    /\ latest = Absent => past = <<>>
    /\ IsEndOf(cam.history, Evaluated)
    /\ LastFireIsLast
    /\ CallsAreSpaced
    /\ JumpIsNoticed

---------------------------------------------------------------------------
LEMMA MinOfNaturals ==
    ASSUME NEW S \in SUBSET Nat, S # {}
    PROVE  Min(S) \in S /\ \A n \in S : Min(S) <= n
  <1> DEFINE Less == {pair \in Nat \X Nat : pair[1] < pair[2]}
  <1>1. IsWellFoundedOn(Less, Nat)
    BY NatLessThanWellFounded DEF OpToRel
  <1>2. \A m, n \in Nat : m < n => <<m, n>> \in Less
    OBVIOUS
  <1> HIDE DEF Less
  <1>3. PICK m \in S : \A n \in S : ~(<<n, m>> \in Less)
    BY <1>1, WFMin
  <1>4. \A n \in S : m <= n
    <2> SUFFICES ASSUME NEW n \in S, ~(m <= n) PROVE FALSE
      OBVIOUS
    <2>1. m \in Nat /\ n \in Nat
      OBVIOUS
    <2>2. n < m
      BY <2>1
    <2>3. <<n, m>> \in Less
      BY <1>2, <2>1, <2>2
    <2> QED
      BY <1>3, <2>3
  <1> QED
    BY <1>4 DEF Min

(* deque(maxlen = 120).append: the end of what was appended is kept.       *)
LEMMA AppendKeepsTheEnd ==
    ASSUME NEW h \in Seq(Snap), NEW q \in Seq(Snap), IsEndOf(h, q), NEW x \in Snap
    PROVE  /\ AppendBounded(h, x, HistoryMax) \in Seq(Snap)
           /\ IsEndOf(AppendBounded(h, x, HistoryMax), Append(q, x))
  <1> DEFINE grown == Append(h, x)
             all == Append(q, x)
  <1>0. HistoryMax \in Nat \ {0} /\ Len(h) \in Nat /\ Len(q) \in Nat
    BY TriggerAssumption
  <1>1. /\ Len(h) = Len(q) - Dropped(q)
        /\ \A i \in 1 .. Len(h) : h[i] = q[i + Dropped(q)]
    BY DEF IsEndOf
  <1>2. /\ grown \in Seq(Snap) /\ Len(grown) = Len(h) + 1 /\ grown[Len(h) + 1] = x
        /\ \A i \in 1 .. Len(h) : grown[i] = h[i]
    OBVIOUS
  <1>3. /\ all \in Seq(Snap) /\ Len(all) = Len(q) + 1 /\ all[Len(q) + 1] = x
        /\ \A i \in 1 .. Len(q) : all[i] = q[i]
    OBVIOUS
  <1> HIDE DEF grown, all
  <1>4. \A i \in 1 .. Len(h) : i + Dropped(q) \in 1 .. Len(q)
    BY <1>0, <1>1 DEF Dropped
  <1>5. \A i \in 1 .. Len(h) : grown[i] = all[i + Dropped(q)]
    BY <1>1, <1>2, <1>3, <1>4
  <1>6. \A i \in 1 .. Len(h) + 1 : grown[i] = all[i + Dropped(q)]
    <2> SUFFICES ASSUME NEW i \in 1 .. Len(h) + 1 PROVE grown[i] = all[i + Dropped(q)]
      OBVIOUS
    <2>1. CASE i = Len(h) + 1
      <3>1. i + Dropped(q) = Len(q) + 1
        BY <1>0, <1>1, <2>1 DEF Dropped
      <3> QED
        BY <1>2, <1>3, <2>1, <3>1
    <2>2. CASE i \in 1 .. Len(h)
      BY <1>5, <2>2
    <2> QED
      BY <1>0, <2>1, <2>2
  <1>7. CASE Len(q) < HistoryMax
    <2>1. Dropped(q) = 0 /\ Dropped(all) = 0 /\ Len(grown) <= HistoryMax
      BY <1>0, <1>1, <1>2, <1>3, <1>7 DEF Dropped
    <2>2. AppendBounded(h, x, HistoryMax) = grown
      BY <1>0, <1>2, <2>1 DEF AppendBounded, grown
    <2>3. IsEndOf(grown, all)
      BY <1>0, <1>1, <1>2, <1>3, <1>6, <2>1 DEF IsEndOf
    <2> QED
      BY <1>2, <2>2, <2>3 DEF all
  <1>8. CASE Len(q) >= HistoryMax
    <2>1. /\ Dropped(all) = Dropped(q) + 1 /\ Len(h) = HistoryMax
          /\ Dropped(q) \in Nat /\ Len(all) - Dropped(all) = HistoryMax
      BY <1>0, <1>1, <1>3, <1>8 DEF Dropped
    <2>2. AppendBounded(h, x, HistoryMax) = Tail(grown)
      BY <1>0, <1>2, <2>1 DEF AppendBounded, grown
    <2>3. /\ Tail(grown) \in Seq(Snap) /\ Len(Tail(grown)) = HistoryMax
          /\ \A i \in 1 .. HistoryMax : Tail(grown)[i] = grown[i + 1]
      BY <1>0, <1>2, <2>1
    <2>4. \A i \in 1 .. HistoryMax : Tail(grown)[i] = all[i + Dropped(all)]
      <3> SUFFICES ASSUME NEW i \in 1 .. HistoryMax PROVE Tail(grown)[i] = all[i + Dropped(all)]
        OBVIOUS
      <3>1. i + 1 \in 1 .. Len(h) + 1 /\ (i + 1) + Dropped(q) = i + Dropped(all)
        BY <1>0, <2>1
      <3> QED
        BY <1>6, <2>3, <3>1
    <2>5. IsEndOf(Tail(grown), all)
      BY <2>1, <2>3, <2>4 DEF IsEndOf
    <2> QED
      BY <2>2, <2>3, <2>5 DEF all
  <1> QED
    BY <1>0, <1>7, <1>8

InSpan(q, snap) == {i \in 1 .. Len(q) : snap.ts - q[i].ts <= JumpSpan}

(* minute_ago[0] of a history that reaches back far enough is the first of *)
(* all snapshots evaluated within the span.                                *)
LEMMA FirstWithin ==
    ASSUME NEW h \in Seq(Snap), NEW q \in Seq(Snap), IsEndOf(h, q), NEW snap \in Snap,
           InSpan(q, snap) # {}, Len(q) - Min(InSpan(q, snap)) < HistoryMax
    PROVE  /\ Within(h, snap, JumpSpan) # {}
           /\ h[Min(Within(h, snap, JumpSpan))] = q[Min(InSpan(q, snap))]
  <1> DEFINE kept == Within(h, snap, JumpSpan)
             o == Dropped(q)
             recent == InSpan(q, snap)
             first == Min(recent)
  <1>0. HistoryMax \in Nat \ {0} /\ Len(h) \in Nat /\ Len(q) \in Nat
    BY TriggerAssumption
  <1>1. /\ Len(h) = Len(q) - o
        /\ \A i \in 1 .. Len(h) : h[i] = q[i + o]
    BY DEF IsEndOf
  <1>r. recent = {i \in 1 .. Len(q) : snap.ts - q[i].ts <= JumpSpan}
    BY DEF InSpan
  <1> HIDE DEF recent
  <1>2. first \in recent /\ \A i \in recent : first <= i
    <2>1. recent \in SUBSET Nat /\ recent # {}
      BY <1>r DEF recent
    <2> QED
      BY <2>1, MinOfNaturals
  <1>3. kept = {i \in 1 .. Len(h) : snap.ts - h[i].ts <= JumpSpan}
    BY DEF Within
  <1>4. o \in Nat /\ first \in 1 .. Len(q) /\ first > o
    BY <1>0, <1>2, <1>r DEF Dropped, recent
  <1> HIDE DEF kept, o, first
  <1>5. first - o \in 1 .. Len(h) /\ (first - o) + o = first
    BY <1>0, <1>1, <1>4
  <1>6. h[first - o] = q[first]
    BY <1>1, <1>5
  <1>7. first - o \in kept
    BY <1>2, <1>3, <1>5, <1>6, <1>r
  <1>8. ASSUME NEW i \in kept PROVE first - o <= i
    <2>1. i \in 1 .. Len(h) /\ h[i] = q[i + o] /\ i + o \in 1 .. Len(q)
      BY <1>0, <1>1, <1>3, <1>4
    <2>2. i + o \in recent
      BY <1>3, <1>r, <2>1
    <2> QED
      BY <1>2, <1>4, <1>r, <2>1, <2>2
  <1>9. Min(kept) \in kept /\ \A i \in kept : Min(kept) <= i
    <2>1. kept \in SUBSET Nat /\ kept # {}
      BY <1>3, <1>7
    <2> QED
      BY <2>1, MinOfNaturals
  <1>10. Min(kept) = first - o
    <2>1. Min(kept) \in Int /\ first - o \in Int
      BY <1>3, <1>5, <1>9
    <2> QED
      BY <1>7, <1>8, <1>9, <2>1
  <1> QED
    BY <1>6, <1>7, <1>10 DEF kept, first, recent

---------------------------------------------------------------------------
LEMMA InitIInv == Init => IInv
  <1> SUFFICES ASSUME Init PROVE IInv
    OBVIOUS
  <1>1. cam = [lastFire |-> Absent, history |-> <<>>, baseline |-> <<>>]
    BY DEF Init, NewCamera
  <1>2. TypeInv
    BY <1>1 DEF Init, TypeInv
  <1>3. Evaluated = <<>> /\ cam.history = <<>> /\ HistoryMax \in Nat
    BY <1>1, TriggerAssumption DEF Init, Evaluated
  <1>4. IsEndOf(cam.history, Evaluated)
    <2>1. IsEndOf(<<>>, <<>>)
      BY <1>3 DEF IsEndOf, Dropped
    <2> QED
      BY <1>3, <2>1
  <1>5. LastFireIsLast
    BY <1>1 DEF Init, LastFireIsLast
  <1>6. CallsAreSpaced
    BY DEF Init, CallsAreSpaced
  <1>7. JumpIsNoticed
    BY DEF Init, JumpIsNoticed
  <1> QED
    BY <1>2, <1>4, <1>5, <1>6, <1>7 DEF Init, IInv

(* What a call of evaluate may decide, and when.                           *)
GapIs(snap, min) == cam.lastFire = Absent \/ snap.ts - cam.lastFire >= min

LEMMA ReasonHasAGap ==
    ASSUME NEW snap
    PROVE  /\ Reason(cam, snap) \in {"anomaly", "cadence", Absent}
           /\ Reason(cam, snap) = "anomaly" => GapIs(snap, MinGap)
           /\ Reason(cam, snap) = "cadence" => GapIs(snap, Cadence)
           /\ Anomalous(cam, snap) /\ GapIs(snap, MinGap) => Reason(cam, snap) = "anomaly"
  <1> DEFINE now == Anomalous(cam, snap) /\ GapIs(snap, MinGap)
             timer == ~(Anomalous(cam, snap) /\ GapIs(snap, MinGap)) /\ GapIs(snap, Cadence)
  <1>1. Reason(cam, snap) = CASE now -> "anomaly" [] timer -> "cadence" [] OTHER -> Absent
    BY DEF Reason, GapIs
  <1>2. Absent \notin {"anomaly", "cadence"}
    BY TriggerAssumption
  <1>3. now => ~timer
    BY Zenon
  <1>4. now => Anomalous(cam, snap) /\ GapIs(snap, MinGap)
    BY Zenon
  <1>5. timer => GapIs(snap, Cadence)
    BY Zenon
  <1>6. Anomalous(cam, snap) /\ GapIs(snap, MinGap) => now
    BY Zenon
  <1> HIDE DEF now, timer
  <1>7. CASE now
    BY <1>1, <1>2, <1>3, <1>4, <1>7
  <1>8. CASE ~now /\ timer
    BY <1>1, <1>2, <1>5, <1>6, <1>8
  <1>9. CASE ~now /\ ~timer
    BY <1>1, <1>2, <1>6, <1>9
  <1> QED
    BY <1>7, <1>8, <1>9, Zenon

(* A call that is debounced is debounced by the last call.                 *)
LEMMA CallOrRecent ==
    ASSUME NEW snap \in Snap, cam.lastFire \in Int \union {Absent}, Anomalous(cam, snap),
           Reason(cam, snap) = Absent
    PROVE  cam.lastFire # Absent /\ snap.ts - cam.lastFire < MinGap
  <1>1. ~GapIs(snap, MinGap)
    BY ReasonHasAGap, TriggerAssumption
  <1>2. MinGap \in Nat /\ snap.ts \in Int
    BY TriggerAssumption DEF Snap
  <1> QED
    BY <1>1, <1>2 DEF GapIs

LEMMA FrameKeeps ==
    ASSUME IInv, NEW snap \in Snap, Frame(snap)
    PROVE  IInv'
  <1> DEFINE reason == Reason(cam, snap)
             grown == AppendBounded(cam.history, snap, HistoryMax)
             fire == IF reason = Absent THEN cam.lastFire ELSE snap.ts
             all == Evaluated
  <1>0. /\ snap # Absent /\ snap.ts \in Int
        /\ cam.lastFire \in Int \union {Absent} /\ cam.history \in Seq(Snap)
        /\ past \in Seq(Snap) /\ latest \in Snap \union {Absent}
        /\ fires \in Seq(Int \X {"anomaly", "cadence"})
    BY SceneAssumption DEF IInv, TypeInv, Snap
  <1>1. /\ cam' = [cam EXCEPT !.history = grown, !.lastFire = fire]
        /\ latest' = snap
        /\ past' = IF latest = Absent THEN past ELSE Append(past, latest)
        /\ fires' = IF reason = Absent THEN fires ELSE Append(fires, <<snap.ts, reason>>)
    BY DEF Frame, Evaluate
  <1>2. all \in Seq(Snap) /\ past' = all /\ Evaluated' = Append(all, snap)
    <2>1. all \in Seq(Snap)
      BY <1>0 DEF Evaluated
    <2>2. past' = all
      BY <1>1 DEF Evaluated, IInv
    <2>3. latest' # Absent
      BY <1>0, <1>1
    <2> HIDE DEF all
    <2>4. Evaluated' = Append(past', latest')
      BY <2>3 DEF Evaluated
    <2> QED
      BY <1>1, <2>1, <2>2, <2>4
  <1>3. IsEndOf(cam.history, all)
    BY DEF IInv
  <1>4. grown \in Seq(Snap) /\ IsEndOf(grown, Append(all, snap))
    BY <1>0, <1>2, <1>3, AppendKeepsTheEnd
  <1>5. reason \in {"anomaly", "cadence", Absent}
    BY ReasonHasAGap
  <1>6. fire \in Int \union {Absent}
    BY <1>0
  <1> HIDE DEF all, reason, grown, fire
  <1>7. /\ cam' \in [lastFire : Int \union {Absent}, history : Seq(Snap), baseline : Seq(Dwells)]
        /\ cam'.history = grown /\ cam'.lastFire = fire
    BY <1>1, <1>4, <1>6 DEF IInv, TypeInv
  <1>8. fires' \in Seq(Int \X {"anomaly", "cadence"})
    <2>1. CASE reason = Absent
      BY <1>0, <1>1, <2>1
    <2>2. CASE reason # Absent
      <3>1. <<snap.ts, reason>> \in Int \X {"anomaly", "cadence"}
        BY <1>0, <1>5, <2>2
      <3> QED
        BY <1>0, <1>1, <2>2, <3>1
    <2> QED
      BY <2>1, <2>2
  <1>9. TypeInv'
    BY <1>0, <1>1, <1>2, <1>7, <1>8 DEF TypeInv
  <1>10. IsEndOf(cam.history, Evaluated)'
    <2>1. IsEndOf(cam'.history, Evaluated')
      BY <1>2, <1>4, <1>7
    <2> QED
      BY <2>1 DEF IsEndOf, Dropped
  <1>11. LastFireIsLast' /\ CallsAreSpaced'
    <2>1. CASE reason = Absent
      <3>1. fires' = fires /\ cam'.lastFire = cam.lastFire
        BY <1>1, <1>7, <2>1 DEF fire
      <3> QED
        BY <3>1 DEF IInv, LastFireIsLast, CallsAreSpaced
    <2>2. CASE reason # Absent
      <3> DEFINE n == Len(fires)
      <3>1. /\ fires' = Append(fires, <<snap.ts, reason>>) /\ cam'.lastFire = snap.ts
            /\ reason \in {"anomaly", "cadence"}
        BY <1>1, <1>5, <1>7, <2>2 DEF fire
      <3>2. /\ n \in Nat /\ Len(fires') = n + 1 /\ fires'[n + 1] = <<snap.ts, reason>>
            /\ \A i \in 1 .. n : fires'[i] = fires[i]
        BY <1>0, <3>1
      <3>3. LastFireIsLast'
        <4>1. fires' # <<>> /\ cam'.lastFire = fires'[Len(fires')][1]
          BY <3>1, <3>2
        <4> QED
          BY <1>0, <3>1, <4>1 DEF LastFireIsLast
      <3>4. ASSUME NEW i \in 2 .. n + 1
            PROVE  fires'[i][1] - fires'[i - 1][1]
                     >= IF fires'[i][2] = "cadence" THEN Cadence ELSE MinGap
        <4>1. CASE i \in 2 .. n
          <5>1. fires'[i] = fires[i] /\ fires'[i - 1] = fires[i - 1]
            BY <3>2, <4>1
          <5>2. fires[i][1] - fires[i - 1][1] >= IF fires[i][2] = "cadence" THEN Cadence ELSE MinGap
            BY <4>1 DEF IInv, CallsAreSpaced
          <5> QED
            BY <5>1, <5>2
        <4>2. CASE i = n + 1
          <5>1. n \in 1 .. n /\ i - 1 = n /\ fires # <<>>
            BY <3>2, <4>2
          <5>2. cam.lastFire \in Int /\ cam.lastFire = fires'[i - 1][1]
            BY <3>2, <5>1 DEF IInv, LastFireIsLast
          <5>3. fires'[i][1] = snap.ts /\ fires'[i][2] = reason
            BY <3>2, <4>2
          <5>4. cam.lastFire # Absent
            BY <5>2, TriggerAssumption
          <5>5. CASE reason = "cadence"
            <6>1. GapIs(snap, Cadence)
              BY <5>5, ReasonHasAGap DEF reason
            <6> QED
              BY <5>2, <5>3, <5>4, <5>5, <6>1 DEF GapIs
          <5>6. CASE reason = "anomaly"
            <6>1. GapIs(snap, MinGap)
              BY <5>6, ReasonHasAGap DEF reason
            <6> QED
              BY <5>2, <5>3, <5>4, <5>6, <6>1 DEF GapIs
          <5> QED
            BY <3>1, <5>5, <5>6
        <4> QED
          BY <3>2, <4>1, <4>2
      <3>5. CallsAreSpaced'
        BY <3>2, <3>4 DEF CallsAreSpaced
      <3> QED
        BY <3>3, <3>5
    <2> QED
      BY <2>1, <2>2
  <1>12. JumpIsNoticed'
    <2> DEFINE recent == {i \in 1 .. Len(past') : snap.ts - past'[i].ts <= JumpSpan}
               before == past'[Min(recent)].queue
    <2>1. SUFFICES ASSUME recent # {}, Len(past') - Min(recent) < HistoryMax,
                          before >= 2, 2 * snap.queue > 3 * before
                   PROVE  fire # Absent /\ (fire = snap.ts \/ snap.ts - fire < MinGap)
      BY <1>1, <1>7 DEF JumpIsNoticed
    <2>2. recent = InSpan(all, snap)
      BY <1>2 DEF InSpan
    <2> HIDE DEF recent
    <2>3. /\ Within(cam.history, snap, JumpSpan) # {}
          /\ cam.history[Min(Within(cam.history, snap, JumpSpan))] = all[Min(recent)]
      <3>1. recent # {} /\ Len(all) - Min(recent) < HistoryMax
        BY <1>2, <2>1
      <3>2. cam.history \in Seq(Snap) /\ all \in Seq(Snap)
        BY <1>0, <1>2
      <3> QED
        BY <1>3, <2>2, <3>1, <3>2, FirstWithin
    <2>4. before = all[Min(recent)].queue
      BY <1>2
    <2>5. QueueJump(cam.history, snap)
      BY <2>1, <2>3, <2>4 DEF QueueJump
    <2>6. Anomalous(cam, snap)
      BY <2>5 DEF Anomalous
    <2>7. CASE reason = Absent
      <3>1. fire = cam.lastFire
        BY <2>7 DEF fire
      <3>2. cam.lastFire # Absent /\ snap.ts - cam.lastFire < MinGap
        BY <1>0, <2>6, <2>7, CallOrRecent DEF reason
      <3> QED
        BY <3>1, <3>2
    <2>8. CASE reason # Absent
      BY <1>0, <2>8, TriggerAssumption DEF fire
    <2> QED
      BY <2>7, <2>8
  <1>13. latest' # Absent
    BY <1>0, <1>1
  <1> QED
    BY <1>9, <1>10, <1>11, <1>12, <1>13 DEF IInv

LEMMA ExitKeeps ==
    ASSUME IInv, NEW d \in Dwells, Exit(d)
    PROVE  IInv'
  <1> DEFINE baseline == AppendBounded(cam.baseline, d, BaselineMax)
  <1>1. cam' = [cam EXCEPT !.baseline = baseline] /\ UNCHANGED <<latest, past, fires>>
    BY DEF Exit, RecordDwell
  <1>2. cam \in [lastFire : Int \union {Absent}, history : Seq(Snap), baseline : Seq(Dwells)]
    BY DEF IInv, TypeInv
  <1>3. baseline \in Seq(Dwells)
    <2>1. cam.baseline \in Seq(Dwells)
      BY <1>2
    <2> DEFINE grown == Append(cam.baseline, d)
    <2>2. grown \in Seq(Dwells) /\ grown # <<>>
      BY <2>1
    <2> HIDE DEF grown
    <2>3. Tail(grown) \in Seq(Dwells)
      BY <2>2
    <2>4. baseline = IF Len(grown) > BaselineMax THEN Tail(grown) ELSE grown
      BY DEF AppendBounded, grown
    <2> QED
      BY <2>2, <2>3, <2>4
  <1> HIDE DEF baseline
  <1>4. /\ cam' \in [lastFire : Int \union {Absent}, history : Seq(Snap), baseline : Seq(Dwells)]
        /\ cam'.history = cam.history /\ cam'.lastFire = cam.lastFire
    BY <1>1, <1>2, <1>3
  <1>5. TypeInv'
    BY <1>1, <1>4 DEF IInv, TypeInv
  <1>6. Evaluated' = Evaluated
    BY <1>1 DEF Evaluated
  <1>7. IsEndOf(cam.history, Evaluated)'
    <2>1. IsEndOf(cam'.history, Evaluated')
      BY <1>4, <1>6 DEF IInv
    <2> QED
      BY <2>1 DEF IsEndOf, Dropped
  <1>8. LastFireIsLast'
    BY <1>1, <1>4 DEF IInv, LastFireIsLast
  <1>9. CallsAreSpaced'
    BY <1>1 DEF IInv, CallsAreSpaced
  <1>10. JumpIsNoticed'
    BY <1>1, <1>4 DEF IInv, JumpIsNoticed
  <1> QED
    BY <1>1, <1>5, <1>7, <1>8, <1>9, <1>10 DEF IInv

LEMMA NextIInv == IInv /\ [Next]_vars => IInv'
  <1> SUFFICES ASSUME IInv, [Next]_vars PROVE IInv'
    OBVIOUS
  <1>1. ASSUME NEW snap \in Snapshots, Frame(snap) PROVE IInv'
    <2>1. PICK t \in Times, scene \in Scenes : snap = Snapshot(t, scene)
      BY DEF Snapshots
    <2>2. /\ t \in Int
          /\ scene \in [queue : Nat, service : Nat, dwell : Dwells \union {Absent}, orders : Nat]
      BY SceneAssumption
    <2>3. snap \in Snap
      BY <2>1, <2>2 DEF Snapshot, Snap
    <2> QED
      BY <1>1, <2>3, FrameKeeps
  <1>2. ASSUME NEW d \in Dwells, Exit(d) PROVE IInv'
    BY <1>2, ExitKeeps
  <1>3. CASE UNCHANGED vars
    BY <1>3 DEF vars, IInv, TypeInv, Evaluated, IsEndOf, Dropped, LastFireIsLast,
                CallsAreSpaced, JumpIsNoticed
  <1> QED
    BY <1>1, <1>2, <1>3 DEF Next

(* The invariant holds of every run of the policy.                         *)
THEOREM InvariantHolds == Spec => []IInv
  BY InitIInv, NextIInv, PTL DEF Spec

(* CallsAreSpaced: evaluate never fires within min_gap_s of the last call  *)
(* of the camera, nor on the timer within cadence_s, in whatever order the *)
(* frames reach the policy.                                                *)
THEOREM CallsAreSpacedHolds == Spec => []CallsAreSpaced
  <1>1. IInv => CallsAreSpaced
    BY DEF IInv
  <1> QED
    BY <1>1, InvariantHolds, PTL

(* JumpIsNoticed: evaluate fires on a queue half as long again as in       *)
(* minute_ago[0], or a call was made less than min_gap_s ago, as long as   *)
(* the history of 120 snapshots reaches back over the minute.              *)
THEOREM JumpIsNoticedHolds == Spec => []JumpIsNoticed
  <1>1. IInv => JumpIsNoticed
    BY DEF IInv
  <1> QED
    BY <1>1, InvariantHolds, PTL
============================================================================
