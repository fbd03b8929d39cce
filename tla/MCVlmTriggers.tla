--------------------------- MODULE MCVlmTriggers ---------------------------
(***************************************************************************)
(* The trigger policy for model checking: one scene for each way in which  *)
(* a snapshot may, or may not, be an anomaly.                              *)
(***************************************************************************)
EXTENDS VlmTriggers

Scene(queue, service, dwell, orders) ==
    [queue |-> queue, service |-> service, dwell |-> dwell, orders |-> orders]

QuietCrowdUnattendedSlowFlat ==
    {Scene(2, 1, Absent, 0), Scene(4, 1, Absent, 1), Scene(4, 0, Absent, 1),
     Scene(2, 1, 2, 0), Scene(4, 1, Absent, 0)}
===========================================================================
