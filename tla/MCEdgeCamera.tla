---------------------------- MODULE MCEdgeCamera ----------------------------
EXTENDS EdgeCamera

(* Three places side by side: neighbours overlap enough to associate, the *)
(* first and the third do not.                                            *)
MCBoxes == {<<0, 3>>, <<1, 4>>, <<2, 5>>}

(* The feet are at 3, 5 and 7 halves, at the height of a vertex of queue.  *)
(* The border of queue and service passes through the middle one, and the  *)
(* far border of service through the last.                                 *)
MCZones == [queue |-> <<<<0, 0>>, <<3, 0>>, <<3, 1>>, <<2, 3>>, <<3, 4>>, <<0, 4>>, <<0, 2>>>>,
            service |-> <<<<3, 0>>, <<4, 0>>, <<3, 4>>, <<2, 3>>, <<3, 1>>>>]
MCTrackers == 1 .. 2 * MaxFrames
MCKinds == DOMAIN MCZones

(* The hit test agrees with the textbook definition on every triangle of a *)
(* grid, off its edges: inside is the same side of all three.              *)
Grid == (0 .. 2) \X (0 .. 2)
Side(p, q, pt) == (q[1] - p[1]) * (pt[2] - p[2]) - (q[2] - p[2]) * (pt[1] - p[1])

ASSUME TrianglesAgree ==
    \A a, b, c \in Grid, pt \in Grid :
        LET sides == {Side(a, b, pt), Side(b, c, pt), Side(c, a, pt)}
        IN  0 \notin sides =>
                (PointInPolygon(pt, <<a, b, c>>) <=> \A s, t \in sides : s * t > 0)

(* Two zones made by cutting a floor along any line with a bend share it:  *)
(* every point of the floor, those of the cut and its vertices included,   *)
(* is in exactly one of them, whichever way round they are given.          *)
ASSUME CutFloorsAreShared ==
    \A top, bend, end \in 0 .. 2, pt \in (0 .. 1) \X (0 .. 1) :
        LET left == <<<<0, 0>>, <<top, 0>>, <<bend, 1>>, <<end, 2>>, <<0, 2>>>>
            right == <<<<2, 0>>, <<top, 0>>, <<bend, 1>>, <<end, 2>>, <<2, 2>>>>
        IN  PointInPolygon(pt, left) # PointInPolygon(pt, right)
=============================================================================
