------------------------------ MODULE MCComponents -------------------------------
(***************************************************************************)
(* A tree of the values of MCQuadtreeSearch, and outlines on a grid of     *)
(* threes and fours, whose diagonals are whole, on an earth so small that  *)
(* bounds around its points reach over the antimeridian on either side and *)
(* over either pole, and no further than a quarter of the way round where  *)
(* they reach over no pole.                                                *)
(***************************************************************************)
EXTENDS Components, MCQuadtreeSearch

At(x, y) == [x |-> x, y |-> y]

MCGrid == {At(-3, -5), At(0, -5), At(3, -5), At(0, -1), At(-3, 3), At(3, 3)}
MCStarts == {At(-3, -5)}
MCTargets == {At(0, -1)}
MCTestPoints == {At(x, y) : x \in {-3, -2, 0, 2, 3}, y \in {-5, -3, -1, 1, 3}}
MCRadii == {1, 5}
MCSine == [y \in {-5, -1, 3} |-> CASE y = -5 -> -7 [] y = -1 -> -2 [] y = 3 -> 5]
MCCosine == [y \in {-5, -1, 3} |-> CASE y = -5 -> 2 [] y = -1 -> 6 [] y = 3 -> 3]
MCPaths == {"main", "second"}
================================================================================
