---------------------------- MODULE MCQuadtreeSearch ----------------------------
\* Five values: two at the same place, some on the lines that divide boxes, one
\* outside the bound.
EXTENDS QuadtreeSearch, TLC

CONSTANTS v1, v2, v3, v4, v5

MCItem == {v1, v2, v3, v4, v5}
MCX == (v1 :> 8) @@ (v2 :> 8) @@ (v3 :> 0) @@ (v4 :> 9) @@ (v5 :> 20)
MCY == (v1 :> 8) @@ (v2 :> 8) @@ (v3 :> 16) @@ (v4 :> 7) @@ (v5 :> 4)
MCRegion == [left |-> 0, right |-> 16, bottom |-> 0, top |-> 16]
MCPoint == {[x |-> 8, y |-> 9], [x |-> 20, y |-> 4]}
MCFilter == {MCItem, {v2, v4}}
MCDistances == {65}
MCWindow == {[left |-> 0, right |-> 8, bottom |-> 8, top |-> 16]}

\* Three of them in a tree whose upper edge is not a whole number: its top, 8,
\* is 0.5.
FractionItem == {v1, v2, v3}
FractionX == [v \in FractionItem |-> 0]
FractionY == (v1 :> 3) @@ (v2 :> 6) @@ (v3 :> 0)
FractionRegion == [left |-> 0, right |-> 16, bottom |-> 0, top |-> 8]
FractionPoint == {[x |-> 0, y |-> 5]}
FractionFilter == {FractionItem}
================================================================================
