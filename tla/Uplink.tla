------------------------------ MODULE Uplink ------------------------------
(***************************************************************************)
(* The edge agent's uplink: HTTP upload of one frame at a time, with an    *)
(* on-disk spool for outages (src/wte/edge/agent.py, class Uplink and the  *)
(* loop of run).  One agent owns the spool directory.                      *)
(*                                                                         *)
(* A post is answered by a 2xx status or fails: no route, a timeout before *)
(* or after the server has processed the frame, or an error status.  While *)
(* the link is down every post fails, while it is up every post of a sound *)
(* body succeeds.  The agent may be killed at any point and starts again   *)
(* on the same spool; a file it was writing is then torn, and the server   *)
(* can never read it.                                                      *)
(*                                                                         *)
(* A file is named after the wall clock, in milliseconds, and a drain      *)
(* sorts the names (all of them of 13 digits).  The clock may be stepped   *)
(* back at any time: a file saved then lies before older ones, or replaces *)
(* the one of that very millisecond.  While it only advances no two names  *)
(* are the same: blurring, detection and a failed post take longer than a  *)
(* millisecond.  The loop takes no frame before the clock has passed the   *)
(* time of the last one again, which only delays Capture.                  *)
(***************************************************************************)
EXTENDS Naturals, Sequences, SequencesExt

CONSTANTS
    Frames,       \* frame bodies
    DrainBatch,   \* files one call of _drain replays at most (200)
    SpoolBound,   \* bound of the runs: an outage ends before the spool exceeds it
    MaxRestarts,  \* bound of the runs: how often the agent is killed
    NoFrame

ASSUME DrainBatchAssumption == DrainBatch \in Nat \ {0}
ASSUME SpoolBoundAssumption == SpoolBound \in Nat
ASSUME NoFrameAssumption == NoFrame \notin Frames

VARIABLES
    pc,      \* where the agent is: idle (reading the camera), send, drain, unlink
    hand,    \* the frame in memory being sent, or NoFrame
    spool,   \* the spool directory in the order of its file names
    clock,   \* the wall clock among those names: 2 * n between the n-th and the
             \* next of them, 2 * n - 1 in the very millisecond of the n-th
    left,    \* files this _drain may still replay
    link,    \* whether posts are answered
    restarts \* how often the agent was killed

vars == <<pc, hand, spool, clock, left, link, restarts>>

File(f, torn) == [frame |-> f, torn |-> torn]

Spooled == {file.frame : file \in ToSet(spool)}

(* The file is written under the name the clock gives it now, over the     *)
(* file of that name if there is one.                                      *)
Save(file) ==
    LET earlier == clock \div 2
    IN  IF clock % 2 = 1
          THEN spool' = ReplaceAt(spool, earlier + 1, file) /\ UNCHANGED clock
          ELSE spool' = InsertAt(spool, earlier + 1, file) /\ clock' = clock + 1

Idle == pc' = "idle" /\ hand' = NoFrame /\ left' = 0

\* mutant: names so coarse that the next frame may get that of the last
CaptureSameName(f) ==
    /\ pc = "idle"
    /\ f \notin Spooled
    /\ clock' \in clock .. 2 * Len(spool)
    /\ pc' = "send" /\ hand' = f
    /\ UNCHANGED <<spool, left, link, restarts>>

(* run: read the camera, build the metadata, call send.  Time has passed,  *)
(* so that the clock has left the name it stood at.                        *)
Capture(f) ==
    /\ pc = "idle"
    /\ f \notin Spooled
    /\ clock' \in {now \in clock .. 2 * Len(spool) : now > clock \/ now % 2 = 0}
    /\ pc' = "send" /\ hand' = f
    /\ UNCHANGED <<spool, left, link, restarts>>

\* mutant: the spool is drained only once it fills a batch
SendAckedFullBatch ==
    /\ pc = "send" /\ link = "up"
    /\ IF Len(spool) < DrainBatch
         THEN Idle
         ELSE pc' = "drain" /\ hand' = NoFrame /\ left' = DrainBatch
    /\ UNCHANGED <<spool, clock, link, restarts>>

(* send: the new frame is posted and answered, so _drain lists the spool. *)
SendAcked ==
    /\ pc = "send" /\ link = "up"
    /\ IF spool = <<>>
         THEN Idle
         ELSE pc' = "drain" /\ hand' = NoFrame
                /\ left' = IF Len(spool) < DrainBatch THEN Len(spool) ELSE DrainBatch
    /\ UNCHANGED <<spool, clock, link, restarts>>

\* mutant: the spool is listed newest first
SendFailedNewestFirst ==
    /\ pc = "send" /\ link = "down" /\ Len(spool) < SpoolBound
    /\ spool' = <<File(hand, FALSE)>> \o spool
    /\ clock' = clock + 2
    /\ Idle
    /\ UNCHANGED <<link, restarts>>

(* send: the post fails, the frame becomes a file of the spool. *)
SendFailed ==
    /\ pc = "send" /\ link = "down" /\ Len(spool) < SpoolBound
    /\ Save(File(hand, FALSE))
    /\ Idle
    /\ UNCHANGED <<link, restarts>>

(* _drain: the oldest file is posted and answered ... *)
DrainAcked ==
    /\ pc = "drain" /\ link = "up" /\ ~Head(spool).torn
    /\ pc' = "unlink"
    /\ UNCHANGED <<hand, spool, clock, left, link, restarts>>

\* mutant: replayed files stay in the spool
UnlinkNever ==
    /\ pc = "unlink"
    /\ Idle
    /\ UNCHANGED <<spool, clock, link, restarts>>

(* ... and removed; then the next file of the listing, if there is one. *)
Unlink ==
    /\ pc = "unlink"
    /\ spool' = Tail(spool)
    /\ clock' = IF clock < 2 THEN 0 ELSE clock - 2
    /\ IF left > 1
         THEN pc' = "drain" /\ left' = left - 1 /\ UNCHANGED hand
         ELSE Idle
    /\ UNCHANGED <<link, restarts>>

\* mutant: the file is removed whether or not the post was answered
DrainFailedRemoves ==
    /\ pc = "drain" /\ (link = "down" \/ Head(spool).torn)
    /\ Idle
    /\ spool' = Tail(spool)
    /\ clock' = IF clock < 2 THEN 0 ELSE clock - 2
    /\ UNCHANGED <<link, restarts>>

(* _drain: the oldest file is not answered, or refused for ever: break. *)
DrainFailed ==
    /\ pc = "drain" /\ (link = "down" \/ Head(spool).torn)
    /\ Idle
    /\ UNCHANGED <<spool, clock, link, restarts>>

(* The agent is killed and started again; memory is lost, the spool stays. *)
Crash ==
    /\ pc # "idle" /\ restarts < MaxRestarts
    /\ Idle
    /\ restarts' = restarts + 1
    /\ UNCHANGED <<spool, clock, link>>

(* ... while write_bytes is under way. *)
CrashTearing ==
    /\ pc = "send" /\ link = "down" /\ Len(spool) < SpoolBound /\ restarts < MaxRestarts
    /\ Save(File(hand, TRUE))
    /\ Idle
    /\ restarts' = restarts + 1
    /\ UNCHANGED link

LinkFails == link = "up" /\ Len(spool) < SpoolBound /\ link' = "down"
                /\ UNCHANGED <<pc, hand, spool, clock, left, restarts>>

LinkHeals == link = "down" /\ link' = "up" /\ UNCHANGED <<pc, hand, spool, clock, left, restarts>>

(* The wall clock is corrected to an earlier time. *)
StepBack ==
    /\ clock > 0 /\ clock' \in 0 .. clock - 1
    /\ UNCHANGED <<pc, hand, spool, left, link, restarts>>

Init ==
    /\ pc = "idle"
    /\ hand = NoFrame
    /\ spool = <<>>
    /\ clock = 0
    /\ left = 0
    /\ link = "up"
    /\ restarts = 0

Agent == \/ \E f \in Frames : Capture(f)
         \/ SendAcked \/ SendFailed \/ DrainAcked \/ Unlink \/ DrainFailed

Link == LinkFails \/ LinkHeals

---------------------------------------------------------------------------
(* "If the uplink is down, metadata is buffered on disk and replayed"      *)
(* (agent.py:8): if the link stays up from some time on, every file is     *)
(* replayed that has no torn file before it, however often the agent was   *)
(* killed and whatever part of a replay was done then.  Only a successful  *)
(* send of a new frame replays anything, DrainBatch files at a time, and   *)
(* the first file that fails ends the replay.                              *)
SoundFilesAreReplayed ==
    <>[](link = "up") => <>[](spool = <<>> \/ Head(spool).torn)
===========================================================================
