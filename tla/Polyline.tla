--------------------------------- MODULE Polyline ---------------------------------
(***************************************************************************)
(* A program that draws an outline point by point, as a CurvePath of lines *)
(* and as a geometry of the same points (components/math/curve_path.go and *)
(* components/geo/geo.go), and asks both for lengths, areas and points.    *)
(***************************************************************************)
EXTENDS CurvePath

CONSTANTS
  Grid,         \* the points of the model
  Starts,       \* the points of them that outlines start at
  Targets,      \* the points of them that others are moved to
  TestPoints,   \* the points containment is asked of
  Radii,        \* the distances of bounds around a point
  MaxPoints,    \* bound of the model: the points of an outline
  MaxEdits      \* bound of the model: the curves added to the second path,
                \* where no point is moved, and one point is moved otherwise

VARIABLES
  outline,   \* the points drawn
  edits      \* the curves added to the second path, or MaxEdits for a move

vars == <<outline, edits, pathVars>>

Main == "main"
Second == "second"

\* The line back to the first point is the curve behind those of the outline.
Closed == Len(curves) = Len(outline) /\ outline # << >>

\* Bound of the model: the outline is drawn before the program edits.
Drawing == ~Closed /\ edits = 0 /\ paths[Second].of = << >>

Draw(point) ==
  /\ Drawing /\ Len(outline) < MaxPoints
  /\ outline = << >> => point \in Starts
  /\ outline' = Append(outline, point)
  /\ IF outline = << >> THEN UNCHANGED pathVars
     ELSE Whole(Last(outline), point) /\ AddNew(Main, Last(outline), point)
  /\ UNCHANGED edits

Close ==
  /\ Drawing /\ Len(outline) > 1 /\ Whole(Last(outline), outline[1])
  /\ ClosePath(Main)
  /\ UNCHANGED <<outline, edits>>

\* A point edits, and with it the ends of the curves that met there.
MovePoint(i, point) ==
  LET moved == [outline EXCEPT ![i] = point]
      After(n) == IF n = Len(outline) THEN 1 ELSE n + 1
  IN  /\ edits = 0
      /\ \A c \in DOMAIN curves : Whole(moved[c], moved[After(c)])
      /\ outline' = moved /\ edits' = MaxEdits
      /\ Move([c \in DOMAIN curves |-> [v1 |-> moved[c], v2 |-> moved[After(c)]]])

AddToSecond(c) ==
  /\ edits < MaxEdits /\ edits' = edits + 1
  /\ Add(Second, c)
  /\ UNCHANGED outline

CopyMain ==
  /\ paths[Main].of # << >>
  /\ Copy(Second, Main)
  /\ UNCHANGED <<outline, edits>>

Init ==
  /\ outline = << >> /\ edits = 0
  /\ curves = << >> /\ touched = {}
  /\ paths = [p \in Paths |-> [of |-> << >>, cache |-> << >>]]

Next ==
  \/ \E point \in Grid : Draw(point)
  \/ Close
  \/ \E i \in DOMAIN outline, point \in Targets : MovePoint(i, point)
  \/ \E c \in DOMAIN curves : AddToSecond(c)
  \/ CopyMain
  \/ \E p \in Paths : Ask(p) /\ UNCHANGED <<outline, edits>>
  \/ \E p \in Paths : UpdateArcLengths(p) /\ UNCHANGED <<outline, edits>>

Spec == Init /\ [][Next]_vars

--------------------------------------------------------------------------------
\* Paths are made of the curves there are; what was summed never falls.
TypeOK ==
  /\ \A c \in DOMAIN curves : curves[c].v1 \in Grid /\ curves[c].v2 \in Grid
  /\ \A p \in Paths : /\ \A i \in DOMAIN paths[p].of : paths[p].of[i] \in DOMAIN curves
                      /\ \A i, j \in DOMAIN paths[p].cache :
                           i < j => paths[p].cache[i] <= paths[p].cache[j]

Ring(points) == [k |-> "Ring", of |-> points]
Back(points) == points \o <<points[1]>>

\* The length of the path is the length of the outline as a line, and once the
\* path is closed that of the outline as a closed ring; an open ring is shorter
\* by the line that closes it.
LengthsAgree ==
  outline # << >> =>
    LET ring == IF Closed THEN Back(outline) ELSE outline
    IN  /\ Main \notin touched /\ paths[Main].of # << >> =>
             PathLength(paths[Main]) = Length(Ring(ring), "planar")
        /\ Whole(Last(outline), outline[1]) =>
             Length(Ring(Back(outline)), "planar")
               = Length(Ring(outline), "planar") + PlanarDistance(Last(outline), outline[1])

\* What the path has been asked changes no outline: the properties of outlines
\* are looked at before.
Unasked == edits = 0 /\ ~Closed /\ \A p \in Paths : paths[p].cache = << >> /\ paths[Second].of = << >>

Turned(points) == Tail(points) \o <<points[1]>>

\* Areas and containment are those of the outline, wherever it starts, whichever
\* way it goes round, and whether or not its first point is there again.
OutlineOnly ==
  Unasked /\ Len(outline) > 2 =>
    \A other \in {Turned(outline), Reverse(outline), Back(outline), Back(Turned(outline))} :
      /\ \A measure \in {"planar", "geodesic"} :
           Area(Ring(other), measure) = Area(Ring(outline), measure)
      /\ PlanarRingArea(other) = (IF other = Reverse(outline) THEN -1 ELSE 1) * PlanarRingArea(outline)
      /\ \A point \in TestPoints : RingContains(other, point) = RingContains(outline, point)

\* Were the sine of a latitude the latitude, the geodesic area would be the
\* planar one, its sign included.
GeodesicAsPlanar ==
  Unasked /\ outline # << >> => \A ring \in {outline, Back(outline)} :
    RingArea(ring, [y \in {p.y : p \in Grid} |-> y]) = PlanarRingArea(ring)

\* The two parts a line between two points of the outline cuts it into.
Parts(i, j) ==
  <<SubSeq(outline, i, j), SubSeq(outline, j, Len(outline)) \o SubSeq(outline, 1, i)>>

\* A line between two of its points cuts an outline so that every point is in
\* one part, or in both or none, as it was inside or outside of the whole: also
\* those on the line are in exactly one.
ChordSplits ==
  Unasked => \A i, j \in DOMAIN outline : i < j =>
    LET parts == Parts(i, j)
    IN  /\ PlanarRingArea(parts[1]) + PlanarRingArea(parts[2]) = PlanarRingArea(outline)
        /\ RingArea(parts[1], Sine) + RingArea(parts[2], Sine) = RingArea(outline, Sine)
        /\ \A point \in TestPoints :
             RingContains(outline, point) <=> (RingContains(parts[1], point) # RingContains(parts[2], point))

\* Every three points in their order turn the same way.
Convex(points) ==
  \/ \A i, j, k \in DOMAIN points : i < j /\ j < k =>
       PlanarRingArea(<<points[i], points[j], points[k]>>) > 0
  \/ \A i, j, k \in DOMAIN points : i < j /\ j < k =>
       PlanarRingArea(<<points[i], points[j], points[k]>>) < 0

\* A convex outline is its two parts as a MultiPolygon, and with one part as
\* its hole it is the other, in area and in the points it contains.
Halves ==
  Unasked /\ Len(outline) > 2 /\ Convex(outline) =>
    \A i, j \in DOMAIN outline : i < j =>
      LET parts == Parts(i, j)
          both == [k |-> "MultiPolygon", of |-> << <<parts[1]>>, <<parts[2]>> >>]
          holed == [k |-> "Polygon", of |-> <<outline, parts[1]>>]
          pieces == [k |-> "Collection", of |-> <<holed, Ring(parts[1])>>]
      IN  /\ \A measure \in {"planar", "geodesic"} :
               /\ measure = "planar" => Area(both, measure) = Area(Ring(outline), measure)
               /\ measure = "planar" => Area(holed, measure) = Area(Ring(parts[2]), measure)
               /\ Area(pieces, measure) = Area(Ring(outline), measure)
          /\ \A point \in TestPoints :
               /\ MultiPolygonContains(both.of, point) <=> RingContains(outline, point)
               /\ PolygonContains(holed.of, point) <=> RingContains(parts[2], point)

Smaller(a, b) == IF a < b THEN a ELSE b

\* A bound is its ring: in area and length, and in the points it contains but
\* for its northern and eastern sides, which are in the bound only.  Bounds
\* that have a point in common intersect, and no others.  Their sides are
\* measured the short way round the earth.
BoundAgrees ==
  Unasked => \A p, q \in ToSet(outline) : p.x <= q.x /\ p.y <= q.y =>
    LET bound == Bound(p, q)
    IN  /\ Area(bound, "planar") = 2 * (q.x - p.x) * (q.y - p.y)
        /\ Length(bound, "planar") = 2 * (q.x - p.x) + 2 * (q.y - p.y)
        /\ Length(bound, "geodesic")
             = 2 * Degree * (q.y - p.y)
               + (Cosine[p.y] + Cosine[q.y]) * Smaller(q.x - p.x, 2 * HalfTurn - (q.x - p.x))
        /\ \A point \in TestPoints :
             RingContains(BoundToRing(bound), point)
               <=> BoundContains(bound, point) /\ point.x < q.x /\ point.y < q.y
        /\ \A r, s \in ToSet(outline) : r.x <= s.x /\ r.y <= s.y =>
             (Intersects(bound, Bound(r, s)) <=>
                \E x \in p.x..q.x, y \in p.y..q.y : BoundContains(Bound(r, s), Pt(x, y)))

\* Of a bound around a point: how far east and west it reaches, whether it goes
\* round a pole, and whether it reaches over the antimeridian.
Reach(center, r) == (r * Degree) \div Cosine[center.y]
Polar(center, r) == center.y - r <= -Pole \/ center.y + r >= Pole
Over(center, r) ==
  ~Polar(center, r) /\ Magnitude(center.x) + Reach(center, r) > HalfTurn

\* A bound around a point has places on the earth for its corners, and is as
\* wide as it should be, measured the short way round, and as high.  It contains
\* the points that are no further away than its radius on their meridian and on
\* their parallel, and round a pole all of those near enough on their meridian;
\* of a bound over the antimeridian nothing is said of what it contains.
AroundHolds ==
  Unasked => \A center \in ToSet(outline), r \in Radii :
    LET bound == BoundAround(center, r)
        reach == Reach(center, r)
    IN  /\ {bound.min.x, bound.max.x} \subseteq -HalfTurn..HalfTurn
        /\ {bound.min.y, bound.max.y} \subseteq -Pole..Pole
        /\ ~Polar(center, r) => BoundWidth(bound) = 2 * r * Degree
        /\ ~Over(center, r) => \A point \in TestPoints \cup {center} :
             BoundContains(bound, point) <=>
               /\ Magnitude(point.y - center.y) <= r
               /\ Polar(center, r) \/ Magnitude(point.x - center.x) <= reach

\* geo.go:107: "NewBoundAroundPoint returns a lon/lat bound around center", and
\* geo.go:179: "Contains reports whether bound contains point", of the center
\* itself as geo_test.go:13 asks.  Over the antimeridian the bound has its west
\* east of its east, and Contains, which compares the two, finds nothing in it.
CenterContained ==
  \A center \in ToSet(outline), r \in Radii : BoundContains(BoundAround(center, r), center)

\* A path has the lengths of its curves, also after edits, copies and closing,
\* and points that lie on it.
PathExact == TypeOK /\ LengthsFresh /\ PointOnPath /\ LengthsAgree

\* Areas and containment belong to the outline and add up over its parts.
OutlineExact == OutlineOnly /\ GeodesicAsPlanar /\ ChordSplits /\ Halves

\* Bounds are their rings, and a bound around a point holds what it should.
BoundsExact == BoundAgrees /\ AroundHolds
================================================================================
