-------------------------------- MODULE Quadtree --------------------------------
(***************************************************************************)
(* The tree of components/math/quadtree.go: where Add puts a value and how *)
(* removeNode closes the gap a removed value leaves.  A node is named by   *)
(* the child indexes on the way to it; the tree maps the nodes it has to   *)
(* their values.  The searches, Remove's among them, are in                *)
(* QuadtreeSearch.tla: here any value may be taken out.                    *)
(* Coordinates are whole numbers of ticks, fine enough for every halving   *)
(* the bounds of the model allow.                                          *)
(***************************************************************************)
EXTENDS Integers, FiniteSets, Sequences

CONSTANTS
  Item,      \* the values a program may add
  X, Y,      \* their coordinates
  Region,    \* the bound given to New: [left, right, bottom, top]
  MaxItems,  \* bound of the model: values in the tree
  Nil

ASSUME CoordinatesAssumption == X \in [Item -> Int] /\ Y \in [Item -> Int]
ASSUME RegionAssumption ==
  Region \in [left : Int, right : Int, bottom : Int, top : Int]
ASSUME MaxItemsAssumption == MaxItems \in Nat
ASSUME NilAssumption == Nil \notin Item

VARIABLES
  bound,     \* q.bound
  tree       \* the nodes below and with q.root; an empty function: q.root is nil

\* A new node is put below nodes that all have a value, so no deeper than this.
Node == UNION {[1..n -> 0..3] : n \in 0..MaxItems}
Root == << >>

Child(n, i) == Append(n, i)
Parent(n) == SubSeq(n, 1, Len(n) - 1)
Children(t, n) == {i \in 0..3 : Child(n, i) \in DOMAIN t}
Filled(t) == {n \in DOMAIN t : t[n] # Nil}

-------------------------------------------------------------------------------
\* The quarters of a box: 0 and 1 above the centre, 1 and 3 to its right.
MidX(b) == (b.left + b.right) \div 2
MidY(b) == (b.bottom + b.top) \div 2

Quarter(b, i) ==
  [left   |-> IF i \in {1, 3} THEN MidX(b) ELSE b.left,
   right  |-> IF i \in {1, 3} THEN b.right ELSE MidX(b),
   bottom |-> IF i \in {0, 1} THEN MidY(b) ELSE b.bottom,
   top    |-> IF i \in {0, 1} THEN b.top ELSE MidY(b)]

\* Mutant: the coordinates change places.
QuarterSwapped(b, x, y) ==
  (IF x <= MidX(b) THEN 2 ELSE 0) + (IF y >= MidY(b) THEN 1 ELSE 0)

\* A point on a centre line belongs to the lower and to the right quarter.
QuarterOf(b, x, y) ==
  (IF y <= MidY(b) THEN 2 ELSE 0) + (IF x >= MidX(b) THEN 1 ELSE 0)

Inside(b, x, y) ==
  b.left <= x /\ x <= b.right /\ b.bottom <= y /\ y <= b.top

\* The box of a node of a tree over b.
Cell(b, n) ==
  LET c[k \in 0..Len(n)] == IF k = 0 THEN b ELSE Quarter(c[k - 1], n[k])
  IN  c[Len(n)]

\* Add's way down, and where it stops: at the first node that is missing or
\* has no value.
OnTheWay(b, n, v) ==
  \A k \in 1..Len(n) : n[k] = QuarterOf(Cell(b, SubSeq(n, 1, k - 1)), X[v], Y[v])

Place(b, t, v) ==
  CHOOSE n \in Node :
    /\ OnTheWay(b, n, v)
    /\ n \notin Filled(t)
    /\ \A k \in 0..(Len(n) - 1) : SubSeq(n, 1, k) \in Filled(t)

With(t, n, v) == [m \in DOMAIN t \cup {n} |-> IF m = n THEN v ELSE t[m]]

-------------------------------------------------------------------------------
\* The nodes whose values move up by one when n loses its value: n, its first
\* child, that one's first child, ...
FirstChild(t, n, i) == i \in Children(t, n) /\ \A j \in Children(t, n) : i <= j

Chain(t, n) ==
  {m \in DOMAIN t :
    /\ Len(n) <= Len(m) /\ SubSeq(m, 1, Len(n)) = n
    /\ \A k \in Len(n)..(Len(m) - 1) : FirstChild(t, SubSeq(m, 1, k), m[k + 1])}

\* Mutant: the value comes from the last child and not from the first.
BelowLast(t, m) ==
  CHOOSE c \in DOMAIN t :
    \E i \in Children(t, m) : c = Child(m, i) /\ \A j \in Children(t, m) : j <= i

\* removeNode: each takes the value of the next, and the last one goes, unless
\* it is n itself, which stays without a value.
Below(t, m) == CHOOSE c \in DOMAIN t : \E i \in 0..3 : c = Child(m, i) /\ FirstChild(t, m, i)

Without(t, n) ==
  LET chain == Chain(t, n)
      end   == CHOOSE m \in chain : Children(t, m) = {}
      kept  == IF end = n THEN DOMAIN t ELSE DOMAIN t \ {end}
  IN  [m \in kept |-> IF m = end THEN Nil
                      ELSE IF m \in chain THEN t[Below(t, m)] ELSE t[m]]

-------------------------------------------------------------------------------
Init ==
  /\ bound = Region
  /\ tree = [n \in {} |-> Nil]

Add(v) ==
  /\ Cardinality(Filled(tree)) < MaxItems
  /\ Inside(bound, X[v], Y[v])
  /\ tree' = With(tree, Place(bound, tree, v), v)
  /\ UNCHANGED bound

\* v.closest.Value = nil; removeNode(v.closest)
TakeOut(n) ==
  /\ n \in Filled(tree)
  /\ tree' = Without(tree, n)
  /\ UNCHANGED bound

Next == (\E v \in Item : Add(v)) \/ (\E n \in DOMAIN tree : TakeOut(n))

Spec == Init /\ [][Next]_<<bound, tree>>

-------------------------------------------------------------------------------
\* Every node but the root hangs from another, and holds a value or none.
TypeOK ==
  /\ bound = Region
  /\ DOMAIN tree \subseteq Node
  /\ \A n \in DOMAIN tree : /\ tree[n] \in Item \cup {Nil}
                            /\ n = Root \/ Parent(n) \in DOMAIN tree

\* A value is in the box of its node, although removals have moved it from the
\* node it was put in: the searches leave out whole boxes because of this.
InCell ==
  \A n \in Filled(tree) :
    LET c == Cell(bound, n) IN Inside(c, X[tree[n]], Y[tree[n]])

\* What is in the tree is in the bound, which is not inside out, then.
BoundHolds ==
  DOMAIN tree # {} => Region.left <= Region.right /\ Region.bottom <= Region.top

\* How often each value is in the tree.
held == [v \in Item |-> Cardinality({n \in Filled(tree) : tree[n] = v})]

\* An Add puts in one value and a removal takes one out; no other value is lost
\* or doubled when values move up.
OneAtATime ==
  [][\E v \in Item : \/ held' = [held EXCEPT ![v] = @ + 1]
                     \/ held' = [held EXCEPT ![v] = @ - 1]]_tree

\* The nodes are a tree, and every value is in the box of its node.
Sound == TypeOK /\ BoundHolds /\ InCell
===============================================================================
