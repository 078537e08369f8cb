------------------------------- MODULE MapLane -------------------------------
(***************************************************************************)
(* The geometry of the extraction service: strokes across a value, parcel  *)
(* rings, the binding of survey labels to parcels, and a map page from its *)
(* control points to its parcels.                                          *)
(*                                                                         *)
(* Points are pairs of whole numbers; an affine fit changes none of the    *)
(* predicates.  Shapely, which the service declares, appears as what its   *)
(* predicates mean; the tests used where it is missing are left out.       *)
(***************************************************************************)
EXTENDS Integers, Sequences, FiniteSetsExt, SequencesExt

Least(a, b) == IF a < b THEN a ELSE b
Greatest(a, b) == IF a < b THEN b ELSE a

-----------------------------------------------------------------------------
(* Strokes.  A rectangle is [lo, hi], two opposite corners.                *)

\* Strictly: a point on the line through a and b is not on its left.
Ccw(a, b, c) == (c[2] - a[2]) * (b[1] - a[1]) > (b[2] - a[2]) * (c[1] - a[1])

SegmentsCross(p1, p2, q1, q2) ==
    /\ Ccw(p1, q1, q2) # Ccw(p2, q1, q2)
    /\ Ccw(p1, p2, q1) # Ccw(p1, p2, q2)

InRect(p, r) == p[1] \in r.lo[1]..r.hi[1] /\ p[2] \in r.lo[2]..r.hi[2]

BoxesMeet(p1, p2, r) ==
    \A k \in 1..2 : /\ Greatest(p1[k], p2[k]) >= r.lo[k]
                    /\ Least(p1[k], p2[k]) <= r.hi[k]

\* The corners in the order of the four edges, the first one again at the end.
Corners(r) == <<r.lo, <<r.hi[1], r.lo[2]>>, r.hi, <<r.lo[1], r.hi[2]>>, r.lo>>

\* A mutant: a stroke counts only when it starts or ends in the rectangle.
EndsInRect(p1, p2, r) == InRect(p1, r) \/ InRect(p2, r)

LineIntersectsRect(p1, p2, r) ==
    /\ BoxesMeet(p1, p2, r)
    /\ \/ InRect(p1, r) \/ InRect(p2, r)
       \/ \E k \in 1..4 : SegmentsCross(p1, p2, Corners(r)[k], Corners(r)[k + 1])

Grown(r, by) == [lo |-> <<r.lo[1] - by, r.lo[2] - by>>, hi |-> <<r.hi[1] + by, r.hi[2] + by>>]

EntryStatus == {"unknown", "live", "cancelled", "superseded", "amended"}

\* strokes is a set of pairs of points, given the entry's status so far.
ClassifyCancellation(r, strokes, given, buffer) ==
    LET status == IF given \in EntryStatus THEN given ELSE "unknown"
        direct == {s \in strokes : LineIntersectsRect(s[1], s[2], r)}
        near == {s \in strokes \ direct : LineIntersectsRect(s[1], s[2], Grown(r, buffer))}
    IN [is_cancelled |-> direct # {},
        is_ambiguous |-> direct = {} /\ near # {},
        entry_status |-> CASE direct # {} -> IF status = "superseded" THEN status ELSE "cancelled"
                           [] direct = {} /\ near # {} -> "unknown"
                           [] OTHER -> status]

-----------------------------------------------------------------------------
(* Parcel rings: sequences of points, the last one equal to the first.     *)

CleanVertices(points) ==
    LET kept == SelectSeq([i \in DOMAIN points |-> i],
                          LAMBDA i : i = 1 \/ points[i] # points[i - 1])
    IN [k \in DOMAIN kept |-> points[kept[k]]]

CloseRing(points) == IF Head(points) = Last(points) THEN points ELSE Append(points, Head(points))

\* Twice the area, with its sign.
Shoelace(ring) ==
    FoldLeft(+, 0, [i \in 1..(Len(ring) - 1) |->
        ring[i][1] * ring[i + 1][2] - ring[i + 1][1] * ring[i][2]])

OnSegment(p, a, b) ==
    /\ ~Ccw(a, b, p) /\ ~Ccw(b, a, p)
    /\ \A k \in 1..2 : p[k] \in Least(a[k], b[k])..Greatest(a[k], b[k])

SegmentsMeet(p1, p2, q1, q2) ==
    \/ SegmentsCross(p1, p2, q1, q2)
    \/ OnSegment(p1, q1, q2) \/ OnSegment(p2, q1, q2) \/ OnSegment(q1, p1, p2) \/ OnSegment(q2, p1, p2)

\* shapely's is_valid: neighbouring edges meet in their common vertex alone, and
\* others not at all.
IsSimple(ring) ==
    LET n == Len(ring) - 1
        Neighbours(i, j) == j = (i % n) + 1
        Folds(i, j) == OnSegment(ring[j + 1], ring[i], ring[i + 1]) \/ OnSegment(ring[i], ring[j], ring[j + 1])
    IN \A i, j \in 1..n :
          /\ Neighbours(i, j) => ~Folds(i, j)
          /\ i < j /\ ~Neighbours(i, j) /\ ~Neighbours(j, i) =>
                ~SegmentsMeet(ring[i], ring[i + 1], ring[j], ring[j + 1])

\* A mutant: any ring with an area.
ValidArea(ring) == Len(ring) >= 4 /\ Head(ring) = Last(ring) /\ Shoelace(ring) # 0

ValidRing(ring) ==
    /\ Len(ring) >= 4 /\ Head(ring) = Last(ring)
    /\ Cardinality(Range(ring)) >= 3
    /\ IsSimple(ring) /\ Shoelace(ring) # 0

\* A ray to the right of p crosses an odd number of edges.
ContainsPoint(ring, p) ==
    LET Crossed(u, v) == IF u[2] <= v[2] THEN u[2] <= p[2] /\ p[2] < v[2] /\ Ccw(u, v, p)
                                         ELSE v[2] <= p[2] /\ p[2] < u[2] /\ Ccw(v, u, p)
    IN Cardinality({i \in 1..(Len(ring) - 1) : Crossed(ring[i], ring[i + 1])}) % 2 = 1

\* A mutant: a label on an edge is left to chance.
HoldsWithin(ring, p) == ContainsPoint(ring, p)

\* shapely's contains or touches.
Holds(ring, p) ==
    ContainsPoint(ring, p) \/ \E i \in 1..(Len(ring) - 1) : OnSegment(p, ring[i], ring[i + 1])

\* A mutant: an open line is closed like any other.
VectorizeOpen(boundary) ==
    LET ring == CloseRing(CleanVertices(boundary.points))
    IN IF Len(CleanVertices(boundary.points)) < 3
       THEN [is_valid |-> FALSE, is_broken |-> TRUE, polygon |-> <<>>]
       ELSE [is_valid |-> ValidRing(ring), is_broken |-> FALSE,
             polygon |-> IF ValidRing(ring) THEN ring ELSE <<>>]

\* One boundary of the page.  A ring that is not said to be open is closed,
\* however far its ends are apart.
VectorizeParcel(boundary) ==
    LET cleaned == CleanVertices(boundary.points)
        ring == CloseRing(cleaned)
    IN IF ~boundary.is_closed \/ Len(cleaned) < 3
       THEN [is_valid |-> FALSE, is_broken |-> TRUE, polygon |-> <<>>]
       ELSE [is_valid |-> ValidRing(ring), is_broken |-> FALSE,
             polygon |-> IF ValidRing(ring) THEN ring ELSE <<>>]

-----------------------------------------------------------------------------
(* Labels.  at[p][l] is the distance of label l from parcel p, 0 inside.   *)

Candidates(at, p, near) == {l \in DOMAIN at[p] : at[p][l] <= near}
Parcels(at, l, near) == {p \in DOMAIN at : at[p][l] <= near}
Inside(at, p) == {l \in DOMAIN at[p] : at[p][l] = 0}

Pool(at, p, near) == IF Inside(at, p) # {} THEN Inside(at, p) ELSE Candidates(at, p, near)

\* The first of the nearest labels of the pool.
Best(at, p, near) ==
    Min({l \in Pool(at, p, near) : \A k \in Pool(at, p, near) : at[p][l] <= at[p][k]})

Unbound(status) == [label |-> 0, status |-> status]

\* A mutant: the parcels that compete for a label are not counted.
BindNearest(at, text, p, near) ==
    IF Candidates(at, p, near) = {} THEN Unbound("unbound")
    ELSE IF Cardinality({text[l] : l \in Pool(at, p, near)}) > 1 THEN Unbound("ambiguous")
    ELSE [label |-> Best(at, p, near), status |-> "bound"]

BindSurveyLabel(at, text, p, near) ==
    LET best == Best(at, p, near)
        competing == IF Inside(at, p) # {} THEN Parcels(at, best, 0) ELSE Parcels(at, best, near)
    IN IF Candidates(at, p, near) = {} THEN Unbound("unbound")
       ELSE IF Cardinality({text[l] : l \in Pool(at, p, near)}) > 1 \/ Cardinality(competing) > 1
       THEN Unbound("ambiguous")
       ELSE [label |-> best, status |-> "bound"]

-----------------------------------------------------------------------------
(* A map page: gcps is a sequence of pixel points, error the rmse that a   *)
(* least-squares fit of more than three of them leaves.                    *)

Collinear(points) ==
    \A a, b, c \in Range(points) : ~Ccw(a, b, c) /\ ~Ccw(b, a, c)

\* With fewer than three points four invented sheet corners are fitted, and
\* they fit exactly; collinear ones are refused.
Georeference(gcps, error, allow_fallback) ==
    IF Len(gcps) < 3
    THEN [fitted |-> allow_fallback, rmse |-> 0, control_points |-> 4]
    ELSE [fitted |-> ~Collinear(gcps), rmse |-> IF Len(gcps) = 3 THEN 0 ELSE error,
          control_points |-> Len(gcps)]

\* The two parcels drawn when a page has none.
SampleParcels ==
    <<[points |-> <<<<1, 1>>, <<3, 1>>, <<3, 3>>, <<1, 3>>, <<1, 1>>>>, is_closed |-> TRUE],
      [points |-> <<<<3, 1>>, <<5, 1>>, <<5, 3>>, <<3, 3>>, <<3, 1>>>>, is_closed |-> TRUE]>>

\* What the page gives: the valid parcels, each eligible for a ULPIN when the
\* fit is good enough.  A refusal is an error result of the lane, no parcel.
ProcessMapPage(page, threshold) ==
    LET geo == Georeference(page.gcps, page.error, TRUE)
        boundaries == IF page.boundaries = <<>> THEN SampleParcels ELSE page.boundaries
        valid == {i \in DOMAIN boundaries : VectorizeParcel(boundaries[i]).is_valid}
    IN [parcels |-> IF geo.fitted THEN {VectorizeParcel(boundaries[i]).polygon : i \in valid} ELSE {},
        control_points |-> geo.control_points,
        ulpin_eligible |-> geo.fitted /\ geo.rmse <= threshold]
=============================================================================
