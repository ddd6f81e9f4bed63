----------------------------------- MODULE Geo -----------------------------------
(***************************************************************************)
(* Areas, lengths and containment of geometries (components/geo/geo.go).   *)
(*                                                                         *)
(* A point is [x, y], of whole units; a geometry is [k, of] with the name  *)
(* of its Go type, a bound [k, min, max].  Areas stand for twice the       *)
(* planar area, and for the geodesic one up to the factors of the earth.   *)
(* The sine and the cosine of a latitude are tables, small angles stand    *)
(* for their sines, and arithmetic is exact.                               *)
(***************************************************************************)
EXTENDS Integers, FiniteSets, SequencesExt

CONSTANTS
  Sine,       \* latitude |-> its sine, up to a factor
  Cosine,     \* latitude |-> how long a degree of longitude is there
  Degree,     \* how long a degree of latitude is
  HalfTurn,   \* longitudes are -HalfTurn..HalfTurn
  Pole        \* latitudes are -Pole..Pole

Pt(x, y) == [x |-> x, y |-> y]
Magnitude(n) == IF n < 0 THEN -n ELSE n
Larger(a, b) == IF a < b THEN b ELSE a
Total(seq) == FoldLeft(LAMBDA sum, n : sum + n, 0, seq)

BoundToRing(b) ==
  <<b.min, Pt(b.max.x, b.min.y), b.max, Pt(b.min.x, b.max.y), b.min>>

--------------------------------------------------------------------------------
(* Areas. *)

\* lo, mi and hi of the switch, counted from 0.
Triple(i, length) ==
  CASE i = length - 3 -> <<length - 3, length - 2, 0>>
    [] i = length - 2 -> <<length - 2, 0, 0>>
    [] i = length - 1 -> <<0, 0, 1>>
    [] OTHER -> <<i, i + 1, i + 2>>

\* ringArea, with any table for the sine; an open ring is one longer.
RingArea(ring, sine) ==
  IF Len(ring) < 3 THEN 0
  ELSE LET length == Len(ring) + (IF ring[1] # Last(ring) THEN 1 ELSE 0)
           Term(i) == LET t == Triple(i - 1, length)
                      IN  (ring[t[3] + 1].x - ring[t[1] + 1].x) * sine[ring[t[2] + 1].y]
       IN  -Total([i \in 1..length |-> Term(i)])

\* planarRingArea.
PlanarRingArea(ring) ==
  IF Len(ring) < 3 THEN 0
  ELSE LET Previous(i) == IF i = 1 THEN Last(ring) ELSE ring[i - 1]
       IN  Total([i \in DOMAIN ring |-> Previous(i).x * ring[i].y - ring[i].x * Previous(i).y])

RingMeasure(ring, measure) ==
  Magnitude(IF measure = "planar" THEN PlanarRingArea(ring) ELSE RingArea(ring, Sine))

\* polygonArea, planarPolygonArea: without the holes.
PolygonArea(polygon, measure) ==
  IF polygon = << >> THEN 0
  ELSE RingMeasure(polygon[1], measure)
       - Total([i \in 1..(Len(polygon) - 1) |-> RingMeasure(polygon[i + 1], measure)])

\* Area, PlanarArea.
RECURSIVE Area(_, _)
Area(g, measure) ==
  CASE g.k \in {"nil", "Point", "MultiPoint", "LineString", "MultiLineString"} -> 0
    [] g.k = "Ring" -> RingMeasure(g.of, measure)
    [] g.k = "Polygon" -> PolygonArea(g.of, measure)
    [] g.k = "MultiPolygon" -> Total([i \in DOMAIN g.of |-> PolygonArea(g.of[i], measure)])
    [] g.k = "Collection" -> Total([i \in DOMAIN g.of |-> Area(g.of[i], measure)])
    [] g.k = "Bound" -> Area([k |-> "Ring", of |-> BoundToRing(g)], measure)

--------------------------------------------------------------------------------
(* Lengths. *)

\* Hypot, where it is whole.
PlanarDistance(p, q) ==
  LET dx == Magnitude(p.x - q.x)
      dy == Magnitude(p.y - q.y)
  IN  CHOOSE d \in 0..(dx + dy) : d * d = dx * dx + dy * dy

Whole(p, q) ==
  LET dx == Magnitude(p.x - q.x)
      dy == Magnitude(p.y - q.y)
  IN  \E d \in 0..(dx + dy) : d * d = dx * dx + dy * dy

\* Distance, of points on a meridian or on a parallel.
Distance(p, q) ==
  LET dLon == Magnitude(p.x - q.x)
      short == Magnitude(IF dLon > HalfTurn THEN 2 * HalfTurn - dLon ELSE dLon)
  IN  IF dLon = 0 THEN Degree * Magnitude(p.y - q.y) ELSE Cosine[p.y] * short

\* lineStringLength.
LineStringLength(line, measure) ==
  Total([i \in 1..(Len(line) - 1) |->
           IF measure = "planar" THEN PlanarDistance(line[i + 1], line[i]) ELSE Distance(line[i + 1], line[i])])

\* Length, PlanarLength: a ring that is open stays open.
RECURSIVE Length(_, _)
Length(g, measure) ==
  LET Lines(lines) == Total([i \in DOMAIN lines |-> LineStringLength(lines[i], measure)])
  IN  CASE g.k \in {"nil", "Point", "MultiPoint"} -> 0
        [] g.k \in {"LineString", "Ring"} -> LineStringLength(g.of, measure)
        [] g.k \in {"MultiLineString", "Polygon"} -> Lines(g.of)
        [] g.k = "MultiPolygon" -> Total([i \in DOMAIN g.of |-> Lines(g.of[i])])
        [] g.k = "Collection" -> Total([i \in DOMAIN g.of |-> Length(g.of[i], measure)])
        [] g.k = "Bound" -> LineStringLength(BoundToRing(g), measure)

--------------------------------------------------------------------------------
(* Containment. *)

\* Mutant: an end of an edge counts at either side.
StraddlesClosed(p, q, y) == (p.y >= y) # (q.y > y)

\* The edge crosses the height y, its lower end counting and its upper not.
Straddles(p, q, y) == (p.y > y) # (q.y > y)

\* The point is left of where the edge from p to q has its height.
LeftOf(point, p, q) ==
  LET left == (point.x - p.x) * (q.y - p.y)
      right == (q.x - p.x) * (point.y - p.y)
  IN  IF q.y > p.y THEN left < right ELSE left > right

RingContains(ring, point) ==
  LET Previous(i) == IF i = 1 THEN Last(ring) ELSE ring[i - 1]
  IN  Cardinality({i \in DOMAIN ring :
                     Straddles(ring[i], Previous(i), point.y) /\ LeftOf(point, ring[i], Previous(i))}) % 2 = 1

PolygonContains(polygon, point) ==
  /\ polygon # << >> /\ RingContains(polygon[1], point)
  /\ \A i \in 2..Len(polygon) : ~RingContains(polygon[i], point)

MultiPolygonContains(multiPolygon, point) ==
  \E i \in DOMAIN multiPolygon : PolygonContains(multiPolygon[i], point)

--------------------------------------------------------------------------------
(* Bounds. *)

Bound(min, max) == [k |-> "Bound", min |-> min, max |-> max]

BoundContains(bound, point) ==
  /\ point.x \in bound.min.x..bound.max.x
  /\ point.y \in bound.min.y..bound.max.y

Intersects(a, b) ==
  ~(b.max.x < a.min.x \/ b.min.x > a.max.x \/ b.max.y < a.min.y \/ b.min.y > a.max.y)

\* Mutant: the eastern end is not taken round the earth.
BoundAroundHalf(center, distance) ==
  LET south == center.y - distance
      north == center.y + distance
      delta == (distance * Degree) \div Cosine[center.y]
      west == center.x - delta
      east == center.x + delta
  IN  IF south > -Pole /\ north < Pole
      THEN Bound(Pt(IF west < -HalfTurn THEN west + 2 * HalfTurn ELSE west, south), Pt(east, north))
      ELSE Bound(Pt(-HalfTurn, Larger(south, -Pole)), Pt(HalfTurn, -Larger(-north, -Pole)))

\* NewBoundAroundPoint: an end beyond the antimeridian comes back from the other
\* side, and a bound that touches a pole goes round.
BoundAround(center, distance) ==
  LET south == center.y - distance
      north == center.y + distance
      delta == (distance * Degree) \div Cosine[center.y]
      west == center.x - delta
      east == center.x + delta
  IN  IF south > -Pole /\ north < Pole
      THEN Bound(Pt(IF west < -HalfTurn THEN west + 2 * HalfTurn ELSE west, south),
                 Pt(IF east > HalfTurn THEN east - 2 * HalfTurn ELSE east, north))
      ELSE Bound(Pt(-HalfTurn, Larger(south, -Pole)), Pt(HalfTurn, -Larger(-north, -Pole)))

BoundWidth(bound) ==
  LET middle == (bound.min.y + bound.max.y) \div 2
  IN  Distance(Pt(bound.min.x, middle), Pt(bound.max.x, middle))
================================================================================
