--------------------------- MODULE UplinkHistory ---------------------------
(***************************************************************************)
(* The uplink with a record of what the server processed: which of the     *)
(* frames the agent still holds have reached it, how often one reached it  *)
(* again, and in which order the frames were taken.                        *)
(*                                                                         *)
(* A post that fails may have been processed all the same: the answer was  *)
(* lost, came after the client's timeout, or was an error raised after the *)
(* live state had been updated.                                            *)
(***************************************************************************)
EXTENDS Uplink

CONSTANTS
    MaxLostAnswers   \* bound of the runs: answers that are lost

ASSUME MaxLostAnswersAssumption == MaxLostAnswers \in Nat

VARIABLES
    recent,       \* the frames the agent holds that get or got their name since the
                  \* clock was stepped back last
    before,       \* the pairs of frames the agent holds, the one taken first first,
                  \* but for those the clock was stepped back between
    processed,    \* the frames the server has processed since they were taken
    extra,        \* how often the server processed a frame again
    lostAnswers   \* posts that were processed and reported as failed

history == <<recent, before, processed, extra, lostAnswers>>
allVars == <<vars, history>>

Oldest == Head(spool).frame
InHand == IF pc = "send" THEN {hand} ELSE {}

(* The frames the agent holds, the torn ones included ... *)
Held == Spooled \union InHand

(* ... and those it can still deliver. *)
Kept == {file.frame : file \in {x \in ToSet(spool) : ~x.torn}} \union InHand

HInit ==
    /\ Init
    /\ recent = {}
    /\ before = {}
    /\ processed = {}
    /\ extra = 0
    /\ lostAnswers = 0

(* The frames that left the agent leave the record of the order. *)
Reorder ==
    /\ recent' = recent \intersect Held'
    /\ before' = before \intersect (Held' \X Held')

(* The server processes f, for the first time or again. *)
Process(f) ==
    /\ processed' = processed \union {f}
    /\ extra' = IF f \in processed THEN extra + 1 ELSE extra

(* A post of f failed: nothing arrived, or the answer was lost. *)
Failed(f) ==
    \/ UNCHANGED <<processed, extra, lostAnswers>>
    \/ lostAnswers < MaxLostAnswers /\ lostAnswers' = lostAnswers + 1 /\ Process(f)

HCapture == \E f \in Frames : /\ Capture(f)
                              /\ recent' = recent \union {f}
                              /\ before' = before \union (recent \X {f})
                              /\ processed' = processed \ {f}
                              /\ UNCHANGED <<extra, lostAnswers>>

HSendAcked == SendAcked /\ Process(hand) /\ Reorder /\ UNCHANGED lostAnswers

HSendFailed == SendFailed /\ Failed(hand) /\ Reorder

HDrainAcked == DrainAcked /\ Process(Oldest) /\ Reorder /\ UNCHANGED lostAnswers

HUnlink == Unlink /\ Reorder /\ UNCHANGED <<processed, extra, lostAnswers>>

HDrainFailed ==
    /\ DrainFailed
    /\ IF Head(spool).torn THEN UNCHANGED <<processed, extra, lostAnswers>> ELSE Failed(Oldest)
    /\ Reorder

(* The frame of a killed send is never sent again, so whether it had       *)
(* arrived makes no difference.                                            *)
HCrash == (Crash \/ CrashTearing) /\ Reorder /\ UNCHANGED <<processed, extra, lostAnswers>>

(* The frame in the hands of the agent gets its name from the new time.    *)
HStepBack ==
    /\ StepBack
    /\ recent' = InHand
    /\ before' = {pair \in before : pair[2] \notin InHand}
    /\ UNCHANGED <<processed, extra, lostAnswers>>

HLink == Link /\ UNCHANGED history

HAgent == HCapture \/ HSendAcked \/ HSendFailed \/ HDrainAcked \/ HUnlink \/ HDrainFailed

HNext == HAgent \/ HCrash \/ HStepBack \/ HLink

(* The agent's loop runs for ever: the camera keeps delivering pictures    *)
(* and every post returns within the client's timeout of 5 s, so whichever *)
(* step the agent is at is taken.  (After a step back the loop waits for   *)
(* the clock to pass the time of the last frame: it is assumed to, that is *)
(* the clock is not put back again and again before it has.)               *)
HSpec == HInit /\ [][HNext]_allVars /\ WF_allVars(HAgent)

---------------------------------------------------------------------------
(* An outage loses nothing while the clock runs forward: a frame leaves    *)
(* the agent, or becomes unreadable, only after the server processed it.   *)
(* Killing the agent loses the frame in its hands; a file is written over  *)
(* only if the clock was stepped back since its frame was named.           *)
LossesHaveACause ==
    [][\A f \in Kept \ Kept' : \/ f \in processed'
                               \/ restarts' > restarts /\ f = hand
                               \/ f \notin recent]_allVars

(* The server processes a frame again only for a cause: an answer was lost *)
(* or the agent was killed between the answer and the unlink.              *)
DuplicatesHaveACause == extra <= lostAnswers + restarts

(* Names that come from the clock replay the spool in the order the frames *)
(* were taken: the file that is posted next was taken after no other frame *)
(* the agent holds, unless the clock was stepped back between the two.     *)
ReplayIsInOrder == pc = "drain" => \A f \in Held : <<f, Oldest>> \notin before
===========================================================================
