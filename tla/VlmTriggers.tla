---------------------------- MODULE VlmTriggers ----------------------------
(***************************************************************************)
(* The trigger policy of one camera, evaluated once per ingested frame.    *)
(* Frames overtake each other while they wait for the database (module     *)
(* AppState) and are replayed late, so their times come in any order.      *)
(***************************************************************************)
EXTENDS TriggerPolicy

CONSTANTS
    Times,       \* the times of the frames
    Scenes,      \* what a snapshot may show: [queue, service, dwell, orders]
    Dwells,      \* the dwells of queue exits
    MaxCalls     \* bound of the runs: calls of the policy

ASSUME SceneAssumption ==
    /\ Times \subseteq Int /\ Dwells \subseteq Nat
    /\ Scenes \subseteq [queue : Nat, service : Nat, dwell : Dwells \union {Absent}, orders : Nat]
    /\ Absent \notin [ts : Int, queue : Nat, service : Nat,
                      dwell : Dwells \union {Absent}, orders : Nat]

VARIABLES
    cam,      \* what the policy keeps for the camera
    calls,    \* calls so far
    latest,   \* history: the snapshot evaluated last, or Absent
    past,     \* history: all snapshots evaluated before it
    fires     \* history: the triggers, <<time, reason>>, in order

vars == <<cam, calls, latest, past, fires>>

Snapshot(t, scene) == [ts |-> t, queue |-> scene.queue, service |-> scene.service,
                       dwell |-> scene.dwell, orders |-> scene.orders]

Snapshots == {Snapshot(t, scene) : t \in Times, scene \in Scenes}

Init ==
    /\ cam = NewCamera
    /\ calls = 0
    /\ latest = Absent
    /\ past = <<>>
    /\ fires = <<>>

Frame(snap) ==
    /\ calls < MaxCalls
    /\ calls' = calls + 1
    /\ cam' = Evaluate(cam, snap)
    /\ latest' = snap
    /\ past' = IF latest = Absent THEN past ELSE Append(past, latest)
    /\ fires' = IF Reason(cam, snap) = Absent THEN fires
                ELSE Append(fires, <<snap.ts, Reason(cam, snap)>>)

Exit(d) ==
    /\ calls < MaxCalls
    /\ calls' = calls + 1
    /\ cam' = RecordDwell(cam, d)
    /\ UNCHANGED <<latest, past, fires>>

Next == (\E snap \in Snapshots : Frame(snap)) \/ (\E d \in Dwells : Exit(d))

Spec == Init /\ [][Next]_vars

---------------------------------------------------------------------------
(* A VLM call costs money: two calls for a camera are never closer than    *)
(* MinGap, and a call on the timer is at least Cadence after the call      *)
(* before it, even when frames overtake each other.                        *)
CallsAreSpaced ==
    \A i \in 2 .. Len(fires) :
        fires[i][1] - fires[i - 1][1] >= IF fires[i][2] = "cadence" THEN Cadence ELSE MinGap

(* "queue length jumped > 50 % in 60 s" (triggers.py:6): when the queue is *)
(* half as long again as in the frame that is the first to have come of    *)
(* the last JumpSpan, a call is made, unless one was made less than MinGap *)
(* ago.  This needs a history that reaches back over JumpSpan: at ten      *)
(* frames a second its 120 snapshots are 12 s.                             *)
JumpIsNoticed ==
    LET recent == {i \in 1 .. Len(past) : latest.ts - past[i].ts <= JumpSpan}
        before == past[Min(recent)].queue
    IN  /\ latest # Absent /\ recent # {}
        /\ Len(past) - Min(recent) < HistoryMax
        /\ before >= 2 /\ 2 * latest.queue > 3 * before
        => cam.lastFire # Absent /\ (cam.lastFire = latest.ts \/ latest.ts - cam.lastFire < MinGap)
===========================================================================
