------------------------------- MODULE Components --------------------------------
(***************************************************************************)
(* The packages beside the language, under components/: a Quadtree         *)
(* (QuadtreeSearch), and outlines as curve paths and geometries (Polyline).*)
(*                                                                         *)
(* A program of the model uses one of them; the two share no state, so     *)
(* that its states are those of either and no mixture of both.             *)
(***************************************************************************)
EXTENDS QuadtreeSearch

CONSTANTS   \* the constants of Polyline
  Grid, Starts, Targets, TestPoints, Radii, MaxPoints, MaxEdits, Paths, Divisions,
  Sine, Cosine, Degree, HalfTurn, Pole

VARIABLES
  drawing,                                \* whether the program draws outlines
  curves, paths, touched, outline, edits  \* Polyline

Lines == INSTANCE Polyline

treeVars == <<bound, tree, call>>
lineVars == <<curves, paths, touched, outline, edits>>

InitEither == drawing \in BOOLEAN /\ SearchInit /\ Lines!Init

UseTree == ~drawing /\ SearchNext /\ UNCHANGED <<drawing, lineVars>>

UseLines == drawing /\ Lines!Next /\ UNCHANGED <<drawing, treeVars>>

NextEither == UseTree \/ UseLines

SpecEither == InitEither /\ [][NextEither]_<<drawing, treeVars, lineVars>>

--------------------------------------------------------------------------------
\* A path has the lengths of its curves, also after curves were added, closed
\* and copied, and points that lie on it (curve_path.go).
PathExact == Lines!PathExact

\* Areas and containment belong to the outline, wherever it starts and whichever
\* way it goes, and add up over its parts (geo.go).
OutlineExact == Lines!OutlineExact

\* Bounds are their rings, and a bound around a point is on the earth and holds
\* what is within its radius (geo.go).
BoundsExact == Lines!BoundsExact

\* geo.go:107: "NewBoundAroundPoint returns a lon/lat bound around center", and
\* geo.go:179: "Contains reports whether bound contains point", of the center
\* itself as geo_test.go:13 asks; not so over the antimeridian (Polyline.tla).
CenterContained == Lines!CenterContained
================================================================================
