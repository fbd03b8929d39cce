------------------------------ MODULE Polygon ------------------------------
(***************************************************************************)
(* The hit test of the zones (src/wte/vision/zones.py, point_in_polygon    *)
(* and Zone.contains).  A point is a pair of coordinates, a polygon the    *)
(* sequence of its vertices.  The quotient of the code is compared without *)
(* dividing, that is, without its rounding.                                *)
(***************************************************************************)
EXTENDS Integers, Sequences, FiniteSets

(* The vertex that the loop has in j when i is at this one. *)
Previous(polygon, i) == polygon[IF i = 1 THEN Len(polygon) ELSE i - 1]

(* The ray to the right of pt meets the edge that ends at vertex i: the    *)
(* edge has one end above pt, and the other not, and pt is left of it.     *)
Crosses(pt, polygon, i) ==
    LET p == polygon[i]
        q == Previous(polygon, i)
        rise == q[2] - p[2]
        ahead == (q[1] - p[1]) * (pt[2] - p[2]) - (pt[1] - p[1]) * rise
    IN  /\ (p[2] > pt[2]) # (q[2] > pt[2])
        /\ IF rise > 0 THEN ahead > 0 ELSE ahead < 0

PointInPolygon(pt, polygon) ==
    Cardinality({i \in DOMAIN polygon : Crosses(pt, polygon, i)}) % 2 = 1

(* BBox.anchor, the foot of a person, in halves of a pixel: a box is the   *)
(* pair of its left and right edge, and foot is its lower edge.            *)
Anchor(box, foot) == <<box[1] + box[2], 2 * foot>>

\* mutant: the box that bounds the polygon is tested
ZoneContainsBounds(polygon, box, foot) ==
    LET pt == Anchor(box, foot)
        Between(k) == /\ \E p \in DOMAIN polygon : 2 * polygon[p][k] <= pt[k]
                      /\ \E p \in DOMAIN polygon : 2 * polygon[p][k] >= pt[k]
    IN  Between(1) /\ Between(2)

(* Zone.contains *)
ZoneContains(polygon, box, foot) ==
    PointInPolygon(Anchor(box, foot), [i \in DOMAIN polygon |-> <<2 * polygon[i][1], 2 * polygon[i][2]>>])
=============================================================================
