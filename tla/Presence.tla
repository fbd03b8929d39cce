----------------------------- MODULE Presence -----------------------------
(***************************************************************************)
(* What a zone engine promises to those who consume its events: in each    *)
(* batch, nobody enters a zone they are in, nobody leaves a zone they are  *)
(* not in, nobody does both, and the people inside are those who entered   *)
(* and have not left.  The wait-time engine's in_queue set and the         *)
(* one-exit-per-enter bookkeeping of the matcher rest on it.               *)
(***************************************************************************)
CONSTANT Keys

VARIABLES open, entered, left

vars == <<open, entered, left>>

Init == open = {} /\ entered = {} /\ left = {}

Batch(in, out) ==
    /\ in \intersect open = {}
    /\ out \subseteq open
    /\ entered' = in
    /\ left' = out
    /\ open' = (open \union in) \ out

Next == \E in, out \in SUBSET Keys : Batch(in, out)

Spec == Init /\ [][Next]_vars
===========================================================================
