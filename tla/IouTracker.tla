----------------------------- MODULE IouTracker -----------------------------
(***************************************************************************)
(* The greedy tracker of the edge (src/wte/vision/tracker.py, class        *)
(* IouTracker), as operators on its list of tracks.  People stand side by  *)
(* side before the camera: boxes have one height, and a box is the pair of *)
(* its left and right edge.                                                *)
(*                                                                         *)
(*   tracks : _tracks, as a function from the ids of the live tracks to    *)
(*            [bbox, misses].  The list is in the order of its ids: a new  *)
(*            track has the highest one and is appended, and aging keeps   *)
(*            the order.                                                   *)
(*   dets   : the boxes a frame's detector found, in its order             *)
(***************************************************************************)
EXTENDS Integers, Sequences, SequencesExt, FiniteSets

CONSTANTS
    LostTrackBuffer,    \* frames of grace before a track dies
    IouThreshold        \* the least IoU that associates, in tenths

ASSUME LostTrackBufferAssumption == LostTrackBuffer \in Nat
ASSUME IouThresholdAssumption == IouThreshold \in 1 .. 10

Smaller(a, b) == IF a < b THEN a ELSE b
Larger(a, b) == IF a > b THEN a ELSE b

(* iou(a, b), as its numerator and denominator. *)
Inter(a, b) == Larger(0, Smaller(a[2], b[2]) - Larger(a[1], b[1]))
Outer(a, b) == (a[2] - a[1]) + (b[2] - b[1]) - Inter(a, b)

Pairs(tracks, dets) == (DOMAIN tracks) \X (DOMAIN dets)

Score(tracks, dets, p) ==
    LET a == tracks[p[1]].bbox
        b == dets[p[2]]
    IN  <<Inter(a, b), Outer(a, b)>>

Exceeds(r, s) == r[1] * s[2] > s[1] * r[2]
Associates(r) == 10 * r[1] >= IouThreshold * r[2]

\* mutant: the pairs are sorted without reverse
BeforeAscending(tracks, dets, p, q) == Exceeds(Score(tracks, dets, q), Score(tracks, dets, p))

(* The order of the sorted pairs: by score, ties by the later track and *)
(* the later detection.                                                 *)
Before(tracks, dets, p, q) ==
    LET r == Score(tracks, dets, p)
        s == Score(tracks, dets, q)
    IN  \/ Exceeds(r, s)
        \/ ~Exceeds(s, r) /\ (p[1] > q[1] \/ (p[1] = q[1] /\ p[2] > q[2]))

(* The sorted pairs, up to the first below the threshold. *)
Candidates(tracks, dets) == {p \in Pairs(tracks, dets) : Associates(Score(tracks, dets, p))}

Sorted(tracks, dets) ==
    LET pairs == Candidates(tracks, dets)
        placed == {<<1 + Cardinality({q \in pairs : Before(tracks, dets, q, p)}), p>> : p \in pairs}
    IN  [k \in 1 .. Cardinality(pairs) |-> CHOOSE p \in pairs : <<k, p>> \in placed]

(* The association: the best pair first, neither side twice. *)
Matching(tracks, dets) ==
    FoldLeft(LAMBDA m, p : IF \E q \in m : q[1] = p[1] \/ q[2] = p[2]
                             THEN m ELSE m \union {p},
             {}, Sorted(tracks, dets))

MatchedDets(m) == {p[2] : p \in m}

\* mutant: new ids count on from the number of live tracks
NewIdAfterLive(tracks, nextId, m, di) ==
    1 + Cardinality(DOMAIN tracks) + Cardinality((1 .. di - 1) \ MatchedDets(m))

(* The id of the new track of an unmatched detection. *)
NewId(tracks, nextId, m, di) == nextId + Cardinality((1 .. di - 1) \ MatchedDets(m))

(* update, given its association m: the ids of the detections, and the *)
(* tracks and the next id that it leaves.                              *)
TrackerIds(tracks, nextId, dets, m) ==
    [di \in DOMAIN dets |->
        IF di \in MatchedDets(m) THEN (CHOOSE p \in m : p[2] = di)[1]
                                 ELSE NewId(tracks, nextId, m, di)]

(* A track whose id is given, old or new, takes the box of its detection;  *)
(* the others miss one, and die when they have missed too many.            *)
TracksAfter(tracks, dets, ids) ==
    LET given == {ids[di] : di \in DOMAIN ids}
        survivors == {t \in DOMAIN tracks : tracks[t].misses + 1 <= LostTrackBuffer}
    IN  [t \in given \union survivors |->
            IF t \in given
              THEN [bbox |-> dets[CHOOSE di \in DOMAIN ids : ids[di] = t], misses |-> 0]
              ELSE [tracks[t] EXCEPT !.misses = @ + 1]]

NextIdAfter(nextId, dets, m) == nextId + Len(dets) - Cardinality(m)
=============================================================================
