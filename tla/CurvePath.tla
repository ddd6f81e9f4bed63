-------------------------------- MODULE CurvePath --------------------------------
(***************************************************************************)
(* CurvePath (components/math/curve_path.go) of LineCurves (curve_line.go):*)
(* a path holds references to its curves and the running sums of their     *)
(* lengths, as a cache that is good while there are as many of them as     *)
(* curves.  The curves belong to the program, whose fields V1 and V2 it    *)
(* may set, and may be in several paths.                                   *)
(***************************************************************************)
EXTENDS Geo

CONSTANTS
  Paths,       \* the paths of the program
  Divisions    \* bound of the model: t is asked for in steps of 1 / Divisions

VARIABLES
  curves,    \* the LineCurves: [v1, v2]
  paths,     \* [Paths -> [of, cache]]: indices into curves, and cacheLengths
  touched    \* history: the paths a curve of which has moved, or that have
             \* become a copy, since their lengths were summed

pathVars == <<curves, paths, touched>>

\* The length of a LineCurve: it is summed again whenever it is asked for, its
\* cache of 200 pieces having 201 entries.
LineCurveLength(c) == PlanarDistance(c.v1, c.v2)

\* The running sums of the lengths of the curves.
Sums(path) ==
  FoldLeft(LAMBDA sums, c :
             Append(sums, (IF sums = << >> THEN 0 ELSE Last(sums)) + LineCurveLength(curves[c])),
           << >>, path.of)

\* Mutant: any lengths that were kept are good.
LengthsKept(path) == IF path.cache # << >> THEN path.cache ELSE Sums(path)

\* Lengths.
Lengths(path) == IF Len(path.cache) = Len(path.of) THEN path.cache ELSE Sums(path)

PathLength(path) == Last(Lengths(path))

Hit(path) == Len(path.cache) = Len(path.of)

\* Length, Point and SpacedPoints ask for Lengths, which are kept.
Ask(p) ==
  /\ paths[p].of # << >>
  /\ paths' = [paths EXCEPT ![p].cache = Lengths(paths[p])]
  /\ touched' = IF Hit(paths[p]) THEN touched ELSE touched \ {p}
  /\ UNCHANGED curves

\* Add, of a curve the program has.
Add(p, c) ==
  /\ paths' = [paths EXCEPT ![p].of = Append(@, c)]
  /\ UNCHANGED <<curves, touched>>

\* Add, of a new curve.
AddNew(p, v1, v2) ==
  /\ curves' = Append(curves, [v1 |-> v1, v2 |-> v2])
  /\ paths' = [paths EXCEPT ![p].of = Append(@, Len(curves) + 1)]
  /\ UNCHANGED touched

\* ClosePath: a line back to the start, if the end is not there.
ClosePath(p) ==
  LET start == curves[paths[p].of[1]].v1
      end == curves[Last(paths[p].of)].v2
  IN  /\ paths[p].of # << >>
      /\ IF start # end THEN AddNew(p, end, start) ELSE UNCHANGED pathVars

UpdateArcLengths(p) ==
  /\ paths' = [paths EXCEPT ![p].cache = Sums(paths[p])]
  /\ touched' = touched \ {p}
  /\ UNCHANGED curves

\* p.Copy(q): the curves become common to both; what p has summed stays.
Copy(p, q) ==
  /\ paths' = [paths EXCEPT ![p].of = paths[q].of]
  /\ touched' = touched \cup {p}
  /\ UNCHANGED curves

\* The program sets V1 or V2 of some of its curves.
Move(moved) ==
  /\ curves' = moved
  /\ touched' = touched \cup {p \in Paths : \E c \in ToSet(paths[p].of) : moved[c] # curves[c]}
  /\ UNCHANGED paths

--------------------------------------------------------------------------------
\* curveLengths[i] >= d, for d = n / Divisions of the length.
Reaches(sum, n, length) == Divisions * sum >= n * length

\* Point(n / Divisions): on curve i, num of den of the way from V1 to V2; none
\* if no sum reaches it, and a den of 0 is a division by zero.
PointOf(path, n) ==
  LET sums == Lengths(path)
      reached == {i \in DOMAIN sums : Reaches(sums[i], n, Last(sums))}
      first == CHOOSE i \in reached : \A j \in reached : i <= j
      segment == LineCurveLength(curves[path.of[first]])
  IN  IF reached = {} THEN [curve |-> 0, num |-> 0, den |-> 0]
      ELSE [curve |-> first, den |-> Divisions * segment,
            num |-> Divisions * segment - (Divisions * sums[first] - n * Last(sums))]

--------------------------------------------------------------------------------
\* What Length and Point work with are the lengths of the curves as they are,
\* unless a curve moved or the path became a copy: only then do they need the
\* program's UpdateArcLengths.
LengthsFresh ==
  \A p \in Paths \ touched : Lengths(paths[p]) = Sums(paths[p])

\* Point finds the place at the asked part of the length, on a curve and between
\* its ends; the start of a path whose first curve has no length is no number.
PointOnPath ==
  \A p \in Paths \ touched : paths[p].of # << >> =>
    LET sums == Sums(paths[p])
    IN  \A n \in 0..Divisions :
      LET point == PointOf(paths[p], n)
          before == IF point.curve <= 1 THEN 0 ELSE sums[point.curve - 1]
      IN  /\ point.curve # 0
          /\ point.num \in 0..point.den
          /\ Divisions * before + point.num = n * Last(sums)
          /\ point.den = 0 <=> point.curve = 1 /\ sums[1] = 0
          /\ point.den = 0 => n = 0 \/ Last(sums) = 0
================================================================================
