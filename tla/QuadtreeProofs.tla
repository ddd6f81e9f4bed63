----------------------------- MODULE QuadtreeProofs -----------------------------
(***************************************************************************)
(* Theorems about components/math/quadtree.go, whatever the values, their  *)
(* places, the bound and the order of the calls: the tree stays a tree     *)
(* with every value in its node's box, Add and Remove change one value,    *)
(* the heap of MaxHeap keeps its furthest entry on top, and the searches   *)
(* answer what they promise.  The parts follow each other in this order.   *)
(***************************************************************************)
EXTENDS QuadtreeSearch, SequenceTheorems, FiniteSetTheorems, WellFoundedInduction, TLAPS

\* A set of numbers that is not empty has a least one.
LEMMA Least ==
  ASSUME NEW T, T \subseteq Nat, T # {}
  PROVE  \E m \in T : \A k \in T : m <= k
<1>1. IsWellFoundedOn(OpToRel(<, Nat), Nat)
  BY NatLessThanWellFounded
<1>2. PICK m \in T : \A k \in T : ~(<<k, m>> \in OpToRel(<, Nat))
  BY <1>1, WFMin
<1>3. ASSUME NEW k \in T, k < m PROVE FALSE
  <2>1. <<k, m>> \in OpToRel(<, Nat)
    BY <1>3 DEF OpToRel
  <2> QED
    BY <1>2, <2>1
<1>4. \A k \in T : m <= k
  <2> TAKE k \in T
  <2>1. k \in Nat /\ m \in Nat /\ ~(k < m)
    BY <1>3
  <2> QED
    BY <2>1
<1> QED
  BY <1>4

\* What holds at 0 and passes from n to n + 1 holds everywhere.
LEMMA Induct ==
  ASSUME NEW P \in [Nat -> BOOLEAN], P[0], \A n \in Nat : P[n] => P[n + 1]
  PROVE  \A n \in Nat : P[n]
<1> DEFINE T == {n \in Nat : ~P[n]}
<1> SUFFICES ASSUME T # {} PROVE FALSE
  OBVIOUS
<1>1. PICK m \in T : \A k \in T : m <= k
  BY Least
<1>2. m # 0 /\ m - 1 \in Nat /\ m - 1 \notin T
  BY <1>1
<1> QED
  BY <1>1, <1>2

-------------------------------------------------------------------------------
Path == Seq(0..3)

\* A node of the model is a path no longer than MaxItems.
LEMMA Nodes ==
  \A n : n \in Node <=> n \in Path /\ Len(n) <= MaxItems
<1>1. ASSUME NEW n \in Node PROVE n \in Path /\ Len(n) <= MaxItems
  <2>1. PICK l \in 0..MaxItems : n \in [1..l -> 0..3]
    BY DEF Node
  <2>2. l \in Nat /\ l <= MaxItems
    BY MaxItemsAssumption
  <2>3. n \in Path
    BY <2>1, <2>2, SeqDef DEF Path
  <2>4. Len(n) = l
    BY <2>1, <2>2, <2>3, LenProperties DEF Path
  <2> QED
    BY <2>2, <2>3, <2>4
<1>2. ASSUME NEW n \in Path, Len(n) <= MaxItems PROVE n \in Node
  <2>1. Len(n) \in 0..MaxItems /\ n \in [1..Len(n) -> 0..3]
    BY <1>2, LenProperties, MaxItemsAssumption DEF Path
  <2> QED
    BY <2>1 DEF Node
<1> QED
  BY <1>1, <1>2

\* The first k steps of a path.
LEMMA Prefix ==
  ASSUME NEW n \in Path, NEW k \in 0..Len(n)
  PROVE  /\ SubSeq(n, 1, k) \in Path
         /\ Len(SubSeq(n, 1, k)) = k
         /\ \A j \in 1..k : SubSeq(n, 1, k)[j] = n[j]
<1>1. Len(n) \in Nat /\ \A i \in 1..Len(n) : n[i] \in 0..3
  BY LenProperties, ElementOfSeq DEF Path
<1>2. k \in Int /\ \A i \in 1..k : n[i] \in 0..3
  BY <1>1
<1>3. /\ SubSeq(n, 1, k) \in Seq(0..3)
      /\ Len(SubSeq(n, 1, k)) = IF 1 <= k THEN k - 1 + 1 ELSE 0
      /\ \A i \in 1..(k - 1 + 1) : SubSeq(n, 1, k)[i] = n[1 + i - 1]
  BY <1>2, SubSeqProperties
<1> QED
  BY <1>2, <1>3 DEF Path

\* A child of a node, and the node again.
LEMMA Down ==
  ASSUME NEW n \in Path, NEW i \in 0..3
  PROVE  /\ Child(n, i) \in Path
         /\ Len(Child(n, i)) = Len(n) + 1
         /\ Child(n, i)[Len(n) + 1] = i
         /\ \A j \in 1..Len(n) : Child(n, i)[j] = n[j]
         /\ \A k \in 0..Len(n) : SubSeq(Child(n, i), 1, k) = SubSeq(n, 1, k)
         /\ SubSeq(n, 1, Len(n)) = n
         /\ Parent(Child(n, i)) = n
         /\ Child(n, i) # Root
<1>1. Len(n) \in Nat /\ \A j \in 1..Len(n) : n[j] \in 0..3
  BY LenProperties, ElementOfSeq DEF Path
<1>2. /\ Child(n, i) \in Path
      /\ Len(Child(n, i)) = Len(n) + 1
      /\ Child(n, i)[Len(n) + 1] = i
      /\ \A j \in 1..Len(n) : Child(n, i)[j] = n[j]
  BY <1>1 DEF Child, Path
<1>3. ASSUME NEW k \in 0..Len(n)
      PROVE  SubSeq(Child(n, i), 1, k) = SubSeq(n, 1, k)
  <2>1. k \in 0..Len(Child(n, i))
    BY <1>1, <1>2
  <2> QED
    BY <1>1, <1>2, <2>1, Prefix, SeqEqual DEF Path
<1>4. SubSeq(n, 1, Len(n)) = n
  BY SubSeqFull DEF Path
<1>5. Parent(Child(n, i)) = n
  BY <1>1, <1>2, <1>3, <1>4 DEF Parent
<1>6. Child(n, i) # Root
  BY <1>1, <1>2, EmptySeq DEF Root
<1> QED
  BY <1>2, <1>3, <1>4, <1>5, <1>6

\* A path that is not the root is a child of its front.
LEMMA Up ==
  ASSUME NEW n \in Path, n # Root
  PROVE  /\ Len(n) \in Nat \ {0}
         /\ Parent(n) \in Path
         /\ Len(Parent(n)) = Len(n) - 1
         /\ n[Len(n)] \in 0..3
         /\ n = Child(Parent(n), n[Len(n)])
<1>1. Len(n) \in Nat \ {0} /\ n[Len(n)] \in 0..3
  BY EmptySeq, ElementOfSeq DEF Path, Root
<1>2. /\ Parent(n) \in Path
      /\ Len(Parent(n)) = Len(n) - 1
      /\ \A j \in 1..(Len(n) - 1) : Parent(n)[j] = n[j]
  <2>1. Len(n) - 1 \in 0..Len(n)
    BY <1>1
  <2> QED
    BY <2>1, Prefix DEF Parent
<1> DEFINE m == Child(Parent(n), n[Len(n)])
<1>3. /\ m \in Path
      /\ Len(m) = Len(n)
      /\ m[Len(n)] = n[Len(n)]
      /\ \A j \in 1..(Len(n) - 1) : m[j] = n[j]
  <2>1. Parent(n) \in Path /\ Len(Parent(n)) = Len(n) - 1
    BY <1>2
  <2>2. \A p \in Path, i \in 0..3 :
          /\ Child(p, i) \in Path
          /\ Len(Child(p, i)) = Len(p) + 1
          /\ Child(p, i)[Len(p) + 1] = i
          /\ \A j \in 1..Len(p) : Child(p, i)[j] = p[j]
    BY Down
  <2>3. /\ m \in Path
        /\ Len(m) = Len(Parent(n)) + 1
        /\ m[Len(Parent(n)) + 1] = n[Len(n)]
        /\ \A j \in 1..Len(Parent(n)) : m[j] = Parent(n)[j]
    BY <1>1, <2>1, <2>2
  <2>4. Len(Parent(n)) + 1 = Len(n)
    BY <1>1, <2>1
  <2> HIDE DEF m
  <2> QED
    BY <1>2, <2>1, <2>3, <2>4
<1> HIDE DEF m
<1>4. \A j \in 1..Len(n) : m[j] = n[j]
  BY <1>1, <1>3
<1>5. m = n
  BY <1>3, <1>4, SeqEqual DEF Path
<1> QED
  BY <1>1, <1>2, <1>5 DEF m

-------------------------------------------------------------------------------
\* The boxes on the way to n, one for each of its prefixes.
Way(c, b, n) ==
  c = [k \in 0..Len(n) |-> IF k = 0 THEN b ELSE Quarter(c[k - 1], n[k])]

\* Every path has such boxes.
LEMMA WayExists ==
  ASSUME NEW b
  PROVE  \A n \in Path : \E c : Way(c, b, n)
<1> DEFINE P == [l \in Nat |-> \A n \in Path : Len(n) = l => \E c : Way(c, b, n)]
<1>1. P \in [Nat -> BOOLEAN]
  OBVIOUS
<1>2. P[0]
  <2> SUFFICES ASSUME NEW n \in Path, Len(n) = 0 PROVE \E c : Way(c, b, n)
    OBVIOUS
  <2> DEFINE c == [k \in 0..0 |-> b]
  <2>1. c = [k \in 0..Len(n) |-> IF k = 0 THEN b ELSE Quarter(c[k - 1], n[k])]
    OBVIOUS
  <2> QED
    BY <2>1 DEF Way
<1>3. ASSUME NEW l \in Nat, P[l] PROVE P[l + 1]
  <2> SUFFICES ASSUME NEW n \in Path, Len(n) = l + 1 PROVE \E c : Way(c, b, n)
    OBVIOUS
  <2> DEFINE m == SubSeq(n, 1, l)
  <2>1. m \in Path /\ Len(m) = l /\ \A j \in 1..l : m[j] = n[j]
    BY Prefix
  <2>2. PICK d : Way(d, b, m)
    BY <1>3, <2>1
  <2> HIDE DEF m, P
  <2>3. d = [k \in 0..l |-> IF k = 0 THEN b ELSE Quarter(d[k - 1], m[k])]
    BY <2>1, <2>2 DEF Way
  <2> DEFINE c == [k \in 0..(l + 1) |->
                     IF k = l + 1 THEN Quarter(d[l], n[l + 1]) ELSE d[k]]
  <2>4. ASSUME NEW k \in 0..(l + 1)
        PROVE  c[k] = IF k = 0 THEN b ELSE Quarter(c[k - 1], n[k])
    <3>1. CASE k = 0
      <4>1. d[0] = b
        BY <2>3
      <4> QED
        BY <3>1, <4>1
    <3>2. CASE k = l + 1
      BY <3>2
    <3>3. CASE k \in 1..l
      <4>1. d[k] = Quarter(d[k - 1], m[k])
        BY <2>3, <3>3
      <4>2. c[k] = d[k] /\ c[k - 1] = d[k - 1]
        BY <3>3
      <4> QED
        BY <2>1, <3>3, <4>1, <4>2
    <3> QED
      BY <3>1, <3>2, <3>3
  <2>5. c = [k \in 0..Len(n) |-> IF k = 0 THEN b ELSE Quarter(c[k - 1], n[k])]
    <3>1. DOMAIN c = 0..Len(n) /\ c = [k \in 0..(l + 1) |-> c[k]]
      OBVIOUS
    <3> HIDE DEF c
    <3> QED
      BY <2>4, <3>1
  <2> QED
    BY <2>5 DEF Way
<1>4. \A l \in Nat : P[l]
  <2> HIDE DEF P
  <2> QED
    BY <1>1, <1>2, <1>3, Induct
<1> QED
  BY <1>4, LenProperties DEF Path

\* The boxes on the ways to two paths are the same as long as the paths are.
LEMMA WayAgrees ==
  ASSUME NEW b, NEW n \in Path, NEW m \in Path, NEW c, NEW d,
         Way(c, b, n), Way(d, b, m),
         NEW l \in Nat, l <= Len(n), l <= Len(m),
         \A j \in 1..l : n[j] = m[j]
  PROVE  \A k \in 0..l : c[k] = d[k]
<1> DEFINE T == {k \in 0..l : c[k] # d[k]}
<1>1. Len(n) \in Nat /\ Len(m) \in Nat
  BY LenProperties DEF Path
<1>2. /\ \A k \in 0..l : c[k] = IF k = 0 THEN b ELSE Quarter(c[k - 1], n[k])
      /\ \A k \in 0..l : d[k] = IF k = 0 THEN b ELSE Quarter(d[k - 1], m[k])
  <2>1. \A k \in 0..l : k \in 0..Len(n) /\ k \in 0..Len(m)
    BY <1>1
  <2>2. /\ c = [k \in 0..Len(n) |-> IF k = 0 THEN b ELSE Quarter(c[k - 1], n[k])]
        /\ d = [k \in 0..Len(m) |-> IF k = 0 THEN b ELSE Quarter(d[k - 1], m[k])]
    BY DEF Way
  <2>3. \A k \in 0..l : c[k] = IF k = 0 THEN b ELSE Quarter(c[k - 1], n[k])
    BY <2>1, <2>2
  <2>4. \A k \in 0..l : d[k] = IF k = 0 THEN b ELSE Quarter(d[k - 1], m[k])
    BY <2>1, <2>2
  <2> QED
    BY <2>3, <2>4
<1> SUFFICES ASSUME T # {} PROVE FALSE
  OBVIOUS
<1>3. PICK k \in T : \A j \in T : k <= j
  <2>1. T \subseteq Nat
    OBVIOUS
  <2> HIDE DEF T
  <2> QED
    BY <2>1, Least
<1>4. k # 0
  BY <1>2
<1>5. k - 1 \in 0..l /\ k - 1 \notin T
  BY <1>3, <1>4
<1> QED
  BY <1>2, <1>4, <1>5

\* The box of a node is what the walk down from the bound ends with.
LEMMA CellIsLast ==
  ASSUME NEW b, NEW n \in Path
  PROVE  \E c : Way(c, b, n) /\ Cell(b, n) = c[Len(n)]
<1> DEFINE d == CHOOSE c : Way(c, b, n)
<1>1. Way(d, b, n)
  <2>1. \E c : Way(c, b, n)
    BY WayExists
  <2> QED
    BY <2>1
<1>2. Cell(b, n) = d[Len(n)]
  BY DEF Cell, Way
<1> HIDE DEF d
<1> QED
  BY <1>1, <1>2

\* The box of the root is the bound, that of a child a quarter of its parent's.
LEMMA CellOfRoot ==
  ASSUME NEW b
  PROVE  Cell(b, Root) = b
<1>1. Root \in Path /\ Len(Root) = 0
  BY EmptySeq DEF Root, Path
<1>2. PICK c : Way(c, b, Root) /\ Cell(b, Root) = c[Len(Root)]
  BY <1>1, CellIsLast
<1>3. c[0] = b
  BY <1>1, <1>2 DEF Way
<1> QED
  BY <1>1, <1>2, <1>3

\* A child's box is a quarter of its parent's.
LEMMA CellOfChild ==
  ASSUME NEW b, NEW n \in Path, NEW i \in 0..3
  PROVE  Cell(b, Child(n, i)) = Quarter(Cell(b, n), i)
<1> DEFINE m == Child(n, i)
<1>1. /\ m \in Path /\ Len(m) = Len(n) + 1 /\ m[Len(n) + 1] = i
      /\ \A j \in 1..Len(n) : m[j] = n[j]
  BY Down
<1>2. Len(n) \in Nat
  BY LenProperties DEF Path
<1> HIDE DEF m
<1>3. PICK c : Way(c, b, n) /\ Cell(b, n) = c[Len(n)]
  BY CellIsLast
<1>4. PICK d : Way(d, b, m) /\ Cell(b, m) = d[Len(m)]
  BY <1>1, CellIsLast
<1>5. c[Len(n)] = d[Len(n)]
  BY <1>1, <1>2, <1>3, <1>4, WayAgrees
<1>6. d[Len(n) + 1] = Quarter(d[Len(n)], m[Len(n) + 1])
  BY <1>1, <1>2, <1>4 DEF Way
<1> QED
  BY <1>1, <1>3, <1>4, <1>5, <1>6 DEF m

\* What holds of the root and passes from a node to its children holds of all.
LEMMA PathInduct ==
  ASSUME NEW P \in [Path -> BOOLEAN], P[Root],
         \A n \in Path, i \in 0..3 : P[n] => P[Child(n, i)]
  PROVE  \A n \in Path : P[n]
<1> DEFINE Q == [l \in Nat |-> \A n \in Path : Len(n) = l => P[n]]
<1>1. Q \in [Nat -> BOOLEAN]
  OBVIOUS
<1>2. Q[0]
  <2> SUFFICES ASSUME NEW n \in Path, Len(n) = 0 PROVE P[n]
    OBVIOUS
  <2> QED
    BY Up
<1>3. ASSUME NEW l \in Nat, Q[l] PROVE Q[l + 1]
  <2> SUFFICES ASSUME NEW n \in Path, Len(n) = l + 1 PROVE P[n]
    OBVIOUS
  <2>1. n # Root
    BY EmptySeq DEF Root, Path
  <2>2. /\ Parent(n) \in Path /\ Len(Parent(n)) = l
        /\ n[Len(n)] \in 0..3 /\ n = Child(Parent(n), n[Len(n)])
    BY <2>1, Up
  <2>3. P[Parent(n)]
    BY <1>3, <2>2
  <2> QED
    BY <2>2, <2>3
<1>4. \A l \in Nat : Q[l]
  <2> HIDE DEF Q
  <2> QED
    BY <1>1, <1>2, <1>3, Induct
<1> QED
  BY <1>4, LenProperties DEF Path

-------------------------------------------------------------------------------
\* A box that is not inside out.
Proper(b) ==
  /\ b \in [left : Int, right : Int, bottom : Int, top : Int]
  /\ b.left <= b.right /\ b.bottom <= b.top

\* The quarters of a box are in it, and a point of the box is in its quarter.
LEMMA Quarters ==
  ASSUME NEW b, Proper(b), NEW i \in 0..3
  PROVE  /\ Proper(Quarter(b, i))
         /\ \A x, y \in Int : Inside(Quarter(b, i), x, y) => Inside(b, x, y)
         /\ \A x, y \in Int : Inside(b, x, y) /\ i = QuarterOf(b, x, y)
                              => Inside(Quarter(b, i), x, y)
<1> DEFINE l == b.left
           r == b.right
           u == b.bottom
           t == b.top
           mx == MidX(b)
           my == MidY(b)
<1>1. l \in Int /\ r \in Int /\ u \in Int /\ t \in Int /\ l <= r /\ u <= t
  BY DEF Proper
<1>2. mx \in Int /\ l <= mx /\ mx <= r
  BY <1>1 DEF MidX
<1>3. my \in Int /\ u <= my /\ my <= t
  BY <1>1 DEF MidY
<1> DEFINE q == Quarter(b, i)
<1>4. /\ q.left = IF i \in {1, 3} THEN mx ELSE l
      /\ q.right = IF i \in {1, 3} THEN r ELSE mx
      /\ q.bottom = IF i \in {0, 1} THEN my ELSE u
      /\ q.top = IF i \in {0, 1} THEN t ELSE my
      /\ q \in [left : {q.left}, right : {q.right}, bottom : {q.bottom}, top : {q.top}]
  BY DEF Quarter
<1> HIDE DEF q, mx, my, l, r, u, t
<1>5. Proper(q)
  BY <1>1, <1>2, <1>3, <1>4 DEF Proper
<1>6. ASSUME NEW x \in Int, NEW y \in Int, Inside(q, x, y)
      PROVE  Inside(b, x, y)
  <2>1. l <= x /\ x <= r /\ u <= y /\ y <= t
    BY <1>1, <1>2, <1>3, <1>4, <1>6 DEF Inside
  <2> QED
    BY <2>1 DEF Inside, l, r, u, t
<1>7. ASSUME NEW x \in Int, NEW y \in Int, Inside(b, x, y), i = QuarterOf(b, x, y)
      PROVE  Inside(q, x, y)
  <2>1. l <= x /\ x <= r /\ u <= y /\ y <= t
    BY <1>7 DEF Inside, l, r, u, t
  <2>2. i = (IF y <= my THEN 2 ELSE 0) + (IF x >= mx THEN 1 ELSE 0)
    BY <1>7 DEF QuarterOf, mx, my
  <2>3. q.left <= x /\ x <= q.right /\ q.bottom <= y /\ y <= q.top
    BY <1>1, <1>2, <1>3, <1>4, <2>1, <2>2
  <2> QED
    BY <2>3 DEF Inside
<1> QED
  BY <1>5, <1>6, <1>7 DEF q

\* No quarter of a box that is not inside out is inside out.
LEMMA CellProper ==
  ASSUME NEW b, Proper(b)
  PROVE  \A n \in Path : Proper(Cell(b, n))
<1> DEFINE P == [n \in Path |-> Proper(Cell(b, n))]
<1>1. P \in [Path -> BOOLEAN]
  BY DEF Proper
<1>2. P[Root]
  BY CellOfRoot, EmptySeq DEF Root, Path
<1>3. ASSUME NEW n \in Path, NEW i \in 0..3, P[n] PROVE P[Child(n, i)]
  <2>1. Proper(Cell(b, n))
    BY <1>3
  <2>2. Child(n, i) \in Path
    BY Down
  <2> QED
    BY <2>1, <2>2, CellOfChild, Quarters
<1>4. \A n \in Path : P[n]
  <2> HIDE DEF P
  <2> QED
    BY <1>1, <1>2, <1>3, PathInduct
<1> QED
  BY <1>4

\* The way down that Add takes for a point leads to boxes that hold the point.
LEMMA WayInside ==
  ASSUME NEW b, Proper(b), NEW v \in Item, Inside(b, X[v], Y[v])
  PROVE  \A n \in Path : OnTheWay(b, n, v) => Inside(Cell(b, n), X[v], Y[v])
<1> DEFINE P == [n \in Path |-> OnTheWay(b, n, v) => Inside(Cell(b, n), X[v], Y[v])]
<1>1. P \in [Path -> BOOLEAN]
  OBVIOUS
<1>2. P[Root]
  BY CellOfRoot, EmptySeq DEF Root, Path
<1>3. ASSUME NEW n \in Path, NEW i \in 0..3, P[n] PROVE P[Child(n, i)]
  <2> DEFINE m == Child(n, i)
  <2>1. /\ m \in Path /\ Len(m) = Len(n) + 1 /\ m[Len(n) + 1] = i
        /\ \A j \in 1..Len(n) : m[j] = n[j]
        /\ \A k \in 0..Len(n) : SubSeq(m, 1, k) = SubSeq(n, 1, k)
        /\ SubSeq(n, 1, Len(n)) = n
    BY Down
  <2>2. Len(n) \in Nat
    BY LenProperties DEF Path
  <2>3. Cell(b, m) = Quarter(Cell(b, n), i)
    BY CellOfChild
  <2> HIDE DEF m
  <2> SUFFICES ASSUME OnTheWay(b, m, v)
               PROVE  Inside(Cell(b, m), X[v], Y[v])
    BY <2>1 DEF m
  <2>4. ASSUME NEW k \in 1..Len(n)
        PROVE  n[k] = QuarterOf(Cell(b, SubSeq(n, 1, k - 1)), X[v], Y[v])
    <3>1. k \in 1..Len(m) /\ k - 1 \in 0..Len(n)
      BY <2>1, <2>2
    <3>2. m[k] = QuarterOf(Cell(b, SubSeq(m, 1, k - 1)), X[v], Y[v])
      BY <3>1 DEF OnTheWay
    <3> QED
      BY <2>1, <3>1, <3>2
  <2>5. Inside(Cell(b, n), X[v], Y[v])
    BY <1>3, <2>4 DEF OnTheWay
  <2>6. i = QuarterOf(Cell(b, n), X[v], Y[v])
    <3>1. Len(n) + 1 \in 1..Len(m) /\ Len(n) + 1 - 1 = Len(n)
      BY <2>1, <2>2
    <3>2. m[Len(n) + 1] = QuarterOf(Cell(b, SubSeq(m, 1, Len(n) + 1 - 1)), X[v], Y[v])
      BY <3>1 DEF OnTheWay
    <3>3. SubSeq(m, 1, Len(n)) = n
      BY <2>1, <2>2
    <3> QED
      BY <2>1, <3>1, <3>2, <3>3
  <2>7. X[v] \in Int /\ Y[v] \in Int /\ Proper(Cell(b, n))
    BY CoordinatesAssumption, CellProper
  <2> QED
    BY <2>3, <2>5, <2>6, <2>7, Quarters
<1>4. \A n \in Path : P[n]
  <2> HIDE DEF P
  <2> QED
    BY <1>1, <1>2, <1>3, PathInduct
<1> QED
  BY <1>4

-------------------------------------------------------------------------------
\* A prefix of a prefix is a prefix.
LEMMA PrefixOfPrefix ==
  ASSUME NEW n \in Path, NEW k \in 0..Len(n), NEW j \in 0..k
  PROVE  SubSeq(SubSeq(n, 1, k), 1, j) = SubSeq(n, 1, j)
<1> DEFINE m == SubSeq(n, 1, k)
<1>1. Len(n) \in Nat
  BY LenProperties DEF Path
<1>2. m \in Path /\ Len(m) = k /\ \A i \in 1..k : m[i] = n[i]
  BY Prefix
<1> HIDE DEF m
<1>3. j \in 0..Len(n) /\ j \in 0..Len(m)
  BY <1>1, <1>2
<1>4. /\ SubSeq(m, 1, j) \in Path /\ SubSeq(n, 1, j) \in Path
      /\ Len(SubSeq(m, 1, j)) = j /\ Len(SubSeq(n, 1, j)) = j
      /\ \A i \in 1..j : SubSeq(m, 1, j)[i] = m[i] /\ SubSeq(n, 1, j)[i] = n[i]
  BY <1>2, <1>3, Prefix
<1>5. \A i \in 1..j : m[i] = n[i]
  BY <1>1, <1>2
<1>6. SubSeq(m, 1, j) = SubSeq(n, 1, j)
  BY <1>4, <1>5, SeqEqual DEF Path
<1> QED
  BY <1>6 DEF m

\* There are finitely many nodes no deeper than MaxItems.
LEMMA NodeFinite ==
  IsFiniteSet(Node)
<1> DEFINE T == SUBSET ((1..MaxItems) \X (0..3))
           f == [n \in Node |-> {<<j, n[j]>> : j \in 1..Len(n)}]
<1>1. IsFiniteSet(T)
  <2>1. IsFiniteSet(1..MaxItems) /\ IsFiniteSet(0..3)
    <3>1. 0 \in Int /\ 1 \in Int /\ 3 \in Int /\ MaxItems \in Int
      BY MaxItemsAssumption
    <3> QED
      BY <3>1, FS_Interval
  <2>2. IsFiniteSet((1..MaxItems) \X (0..3))
    BY <2>1, FS_Product
  <2> QED
    BY <2>2, FS_SUBSET
<1>2. ASSUME NEW n \in Node PROVE f[n] \in T
  <2>1. /\ n \in Path /\ Len(n) \in Nat /\ Len(n) <= MaxItems
        /\ \A j \in 1..Len(n) : n[j] \in 0..3
    BY Nodes, LenProperties, ElementOfSeq DEF Path
  <2>2. \A j \in 1..Len(n) : j \in 1..MaxItems
    BY <2>1, MaxItemsAssumption
  <2> QED
    BY <2>1, <2>2
<1>3. ASSUME NEW n \in Node, NEW m \in Node, f[n] = f[m] PROVE n = m
  <2>1. n \in Path /\ m \in Path /\ Len(n) \in Nat /\ Len(m) \in Nat
    BY Nodes, LenProperties DEF Path
  <2>2. {<<j, n[j]>> : j \in 1..Len(n)} = {<<j, m[j]>> : j \in 1..Len(m)}
    BY <1>3
  <2> HIDE DEF T, f
  <2>3. ASSUME NEW j \in 1..Len(n) PROVE j \in 1..Len(m) /\ n[j] = m[j]
    <3>1. PICK k \in 1..Len(m) : <<j, n[j]>> = <<k, m[k]>>
      BY <2>2
    <3> QED
      BY <3>1
  <2>4. ASSUME NEW j \in 1..Len(m) PROVE j \in 1..Len(n)
    <3>1. PICK k \in 1..Len(n) : <<j, m[j]>> = <<k, n[k]>>
      BY <2>2
    <3> QED
      BY <3>1
  <2>5. Len(n) = Len(m)
    <3>1. Len(n) <= Len(m)
      BY <2>1, <2>3
    <3>2. Len(m) <= Len(n)
      BY <2>1, <2>4
    <3> QED
      BY <2>1, <3>1, <3>2
  <2> QED
    BY <2>1, <2>3, <2>5, SeqEqual DEF Path
<1>4. f \in Injection(Node, T)
  <2> HIDE DEF T
  <2>1. f \in [Node -> T]
    BY <1>2
  <2> HIDE DEF f
  <2> QED
    BY <1>3, <2>1 DEF Injection, IsInjective
<1> HIDE DEF f, T
<1> QED
  BY <1>1, <1>4, FS_Injection

\* What TypeOK says of the tree.
Tree(t) ==
  /\ DOMAIN t \subseteq Node
  /\ \A n \in DOMAIN t : /\ t[n] \in Item \cup {Nil}
                         /\ n = Root \/ Parent(n) \in DOMAIN t

\* Add's way goes down as far as one likes.
LEMMA WayGoesOn ==
  ASSUME NEW b, NEW v
  PROVE  \A l \in Nat : \E n \in Path : Len(n) = l /\ OnTheWay(b, n, v)
<1> DEFINE P == [l \in Nat |-> \E n \in Path : Len(n) = l /\ OnTheWay(b, n, v)]
<1>1. P \in [Nat -> BOOLEAN]
  OBVIOUS
<1>2. P[0]
  <2>1. Root \in Path /\ Len(Root) = 0
    BY EmptySeq DEF Root, Path
  <2>2. OnTheWay(b, Root, v)
    BY <2>1 DEF OnTheWay
  <2> QED
    BY <2>1, <2>2
<1>3. ASSUME NEW l \in Nat, P[l] PROVE P[l + 1]
  <2>1. PICK n \in Path : Len(n) = l /\ OnTheWay(b, n, v)
    BY <1>3
  <2> DEFINE i == QuarterOf(Cell(b, n), X[v], Y[v])
             m == Child(n, i)
  <2>2. i \in 0..3
    BY DEF QuarterOf
  <2> HIDE DEF i
  <2>3. /\ m \in Path /\ Len(m) = l + 1 /\ m[l + 1] = i
        /\ \A j \in 1..l : m[j] = n[j]
        /\ \A k \in 0..l : SubSeq(m, 1, k) = SubSeq(n, 1, k)
        /\ SubSeq(n, 1, l) = n
    BY <2>1, <2>2, Down
  <2> HIDE DEF m
  <2>4. ASSUME NEW k \in 1..Len(m)
        PROVE  m[k] = QuarterOf(Cell(b, SubSeq(m, 1, k - 1)), X[v], Y[v])
    <3>1. k - 1 \in 0..l
      BY <2>3
    <3>2. SubSeq(m, 1, k - 1) = SubSeq(n, 1, k - 1)
      BY <2>3, <3>1
    <3>3. CASE k = l + 1
      <4>1. SubSeq(m, 1, k - 1) = n
        BY <2>3, <3>2, <3>3
      <4> QED
        BY <2>3, <3>3, <4>1 DEF i
    <3>4. CASE k \in 1..l
      <4>1. n[k] = QuarterOf(Cell(b, SubSeq(n, 1, k - 1)), X[v], Y[v])
        BY <2>1, <3>4 DEF OnTheWay
      <4> QED
        BY <2>3, <3>2, <3>4, <4>1
    <3> QED
      BY <2>3, <3>3, <3>4
  <2> QED
    BY <2>3, <2>4 DEF OnTheWay
<1>4. \A l \in Nat : P[l]
  <2> HIDE DEF P
  <2> QED
    BY <1>1, <1>2, <1>3, Induct
<1> QED
  BY <1>4

\* While the tree has room for a value, the way meets a node without one.
LEMMA PlaceFound ==
  ASSUME NEW b, NEW t, NEW v, Tree(t), Cardinality(Filled(t)) < MaxItems
  PROVE  LET n == Place(b, t, v) IN
         /\ n \in Node /\ OnTheWay(b, n, v) /\ n \notin Filled(t)
         /\ \A k \in 0..(Len(n) - 1) : SubSeq(n, 1, k) \in Filled(t)
<1>1. PICK n \in Path : Len(n) = MaxItems /\ OnTheWay(b, n, v)
  BY WayGoesOn, MaxItemsAssumption
<1> DEFINE T == {k \in 0..MaxItems : SubSeq(n, 1, k) \notin Filled(t)}
<1>2. T # {}
  <2> SUFFICES ASSUME T = {} PROVE FALSE
    OBVIOUS
  <2> DEFINE f == [k \in 1..MaxItems |-> SubSeq(n, 1, k)]
  <2>1. \A k \in 1..MaxItems : SubSeq(n, 1, k) \in Filled(t)
    BY MaxItemsAssumption
  <2>2. \A k \in 1..MaxItems : Len(SubSeq(n, 1, k)) = k
    BY <1>1, Prefix, MaxItemsAssumption
  <2>3. f \in Injection(1..MaxItems, Filled(t))
    <3>1. f \in [1..MaxItems -> Filled(t)]
      BY <2>1
    <3>2. \A j, k \in 1..MaxItems : f[j] = f[k] => j = k
      BY <2>2
    <3> HIDE DEF f
    <3> QED
      BY <3>1, <3>2 DEF Injection, IsInjective
  <2>4. IsFiniteSet(Filled(t))
    <3>1. Filled(t) \in SUBSET Node
      BY DEF Filled, Tree
    <3> QED
      BY <3>1, NodeFinite, FS_Subset
  <2>5. Cardinality(1..MaxItems) <= Cardinality(Filled(t))
    <3> HIDE DEF f
    <3> QED
      BY <2>3, <2>4, FS_Injection
  <2>6. Cardinality(1..MaxItems) = MaxItems
    BY FS_Interval, MaxItemsAssumption
  <2> QED
    BY <2>4, <2>5, <2>6, FS_CardinalityType, MaxItemsAssumption
<1>3. PICK k \in T : \A j \in T : k <= j
  <2>1. T \subseteq Nat
    BY MaxItemsAssumption
  <2> HIDE DEF T
  <2> QED
    BY <1>2, <2>1, Least
<1>4. k \in 0..Len(n) /\ k \in Nat /\ k <= MaxItems /\ SubSeq(n, 1, k) \notin Filled(t)
  BY <1>1, <1>3, MaxItemsAssumption
<1>5. \A j \in 0..(k - 1) : SubSeq(n, 1, j) \in Filled(t)
  BY <1>3, <1>4, MaxItemsAssumption
<1> DEFINE m == SubSeq(n, 1, k)
<1>6. /\ m \in Path /\ Len(m) = k /\ \A j \in 1..k : m[j] = n[j]
      /\ \A j \in 0..k : SubSeq(m, 1, j) = SubSeq(n, 1, j)
  BY <1>4, Prefix, PrefixOfPrefix
<1>7. m \notin Filled(t)
  BY <1>4
<1> HIDE DEF m, T
<1>8. m \in Node
  BY <1>4, <1>6, Nodes
<1>9. OnTheWay(b, m, v)
  <2> SUFFICES ASSUME NEW j \in 1..k
               PROVE  m[j] = QuarterOf(Cell(b, SubSeq(m, 1, j - 1)), X[v], Y[v])
    BY <1>6 DEF OnTheWay
  <2>1. j \in 1..Len(n) /\ j - 1 \in 0..k
    BY <1>1, <1>4
  <2>2. n[j] = QuarterOf(Cell(b, SubSeq(n, 1, j - 1)), X[v], Y[v])
    BY <1>1, <2>1 DEF OnTheWay
  <2> QED
    BY <1>6, <2>1, <2>2
<1>10. \A j \in 0..(Len(m) - 1) : SubSeq(m, 1, j) \in Filled(t)
  <2>1. \A j \in 0..(k - 1) : j \in 0..k
    BY <1>4
  <2>2. \A j \in 0..(k - 1) : SubSeq(m, 1, j) \in Filled(t)
    BY <1>5, <1>6, <2>1
  <2> QED
    BY <1>6, <2>2
<1> QED
  BY <1>7, <1>8, <1>9, <1>10 DEF Place

-------------------------------------------------------------------------------
\* Sound, with the shape of the tree as one predicate.
LEMMA SoundIs ==
  Sound <=> bound = Region /\ Tree(tree) /\ BoundHolds /\ InCell
BY DEF Sound, TypeOK, Tree

\* The empty tree is sound.
LEMMA InitSound ==
  Init => Sound
<1> SUFFICES ASSUME Init PROVE Sound
  OBVIOUS
<1>1. DOMAIN tree = {}
  BY DEF Init
<1> QED
  BY <1>1, SoundIs DEF Init, Tree, BoundHolds, InCell, Filled

\* A value is put in a node whose parent is in the tree and whose box holds it.
LEMMA AddSound ==
  ASSUME Sound, NEW v \in Item, Add(v)
  PROVE  Sound'
<1> DEFINE p == Place(bound, tree, v)
<1>1. bound = Region /\ Tree(tree) /\ BoundHolds /\ InCell
  BY SoundIs
<1>2. /\ Cardinality(Filled(tree)) < MaxItems
      /\ Inside(Region, X[v], Y[v])
      /\ tree' = With(tree, p, v)
      /\ bound' = Region
  BY <1>1 DEF Add
<1>3. /\ p \in Node /\ OnTheWay(Region, p, v) /\ p \notin Filled(tree)
      /\ \A k \in 0..(Len(p) - 1) : SubSeq(p, 1, k) \in Filled(tree)
  BY <1>1, <1>2, PlaceFound
<1> HIDE DEF p
<1>4. /\ DOMAIN tree' = DOMAIN tree \cup {p}
      /\ tree'[p] = v
      /\ \A m \in DOMAIN tree : m # p => tree'[m] = tree[m]
  BY <1>2 DEF With
<1>5. p = Root \/ Parent(p) \in DOMAIN tree
  <2> SUFFICES ASSUME p # Root PROVE Parent(p) \in DOMAIN tree
    OBVIOUS
  <2>1. Len(p) \in Nat \ {0}
    BY <1>3, Nodes, Up
  <2>2. Len(p) - 1 \in 0..(Len(p) - 1)
    BY <2>1
  <2> QED
    BY <1>3, <2>2 DEF Parent, Filled
<1>6. Tree(tree)'
  BY <1>1, <1>3, <1>4, <1>5 DEF Tree
<1>7. X[v] \in Int /\ Y[v] \in Int
  BY CoordinatesAssumption
<1>8. Proper(Region)
  BY <1>2, <1>7, RegionAssumption DEF Inside, Proper
<1>9. BoundHolds'
  BY <1>8 DEF Proper, BoundHolds
<1>10. Inside(Cell(Region, p), X[v], Y[v])
  BY <1>2, <1>3, <1>8, Nodes, WayInside
<1>11. InCell'
  <2> SUFFICES ASSUME NEW m \in DOMAIN tree', tree'[m] # Nil
               PROVE  Inside(Cell(Region, m), X[tree'[m]], Y[tree'[m]])
    BY <1>2 DEF InCell, Filled
  <2>1. CASE m = p
    BY <1>4, <1>10, <2>1
  <2>2. CASE m # p
    <3>1. m \in Filled(tree) /\ tree'[m] = tree[m]
      BY <1>4, <2>2 DEF Filled
    <3> QED
      BY <1>1, <3>1 DEF InCell
  <2> QED
    BY <2>1, <2>2
<1> QED
  BY <1>2, <1>6, <1>9, <1>11 DEF Sound, TypeOK, Tree

-------------------------------------------------------------------------------
\* A node with children has a first one, and only one.
LEMMA FirstChildFound ==
  ASSUME NEW t, NEW m, Children(t, m) # {}
  PROVE  \E i \in 0..3 : FirstChild(t, m, i)
<1>1. Children(t, m) \subseteq Nat
  BY DEF Children
<1>2. PICK i \in Children(t, m) : \A j \in Children(t, m) : i <= j
  BY <1>1, Least
<1> QED
  BY <1>2 DEF FirstChild, Children

\* A node has at most one first child.
LEMMA FirstChildOnce ==
  ASSUME NEW t, NEW m, NEW i, NEW j, FirstChild(t, m, i), FirstChild(t, m, j)
  PROVE  i = j
BY DEF FirstChild, Children

\* Below is the first child, where there is a child.
LEMMA BelowIs ==
  ASSUME NEW t, NEW m, NEW i \in 0..3, FirstChild(t, m, i)
  PROVE  Below(t, m) = Child(m, i) /\ Child(m, i) \in DOMAIN t
<1>1. Child(m, i) \in DOMAIN t
  BY DEF FirstChild, Children
<1>2. \A c \in DOMAIN t :
        (\E j \in 0..3 : c = Child(m, j) /\ FirstChild(t, m, j)) <=> c = Child(m, i)
  BY <1>1, FirstChildOnce
<1> QED
  BY <1>1, <1>2 DEF Below

\* The chain of n begins at n, and goes on to the first child as long as there
\* is one.
LEMMA ChainStart ==
  ASSUME NEW t, Tree(t), NEW n \in DOMAIN t
  PROVE  n \in Chain(t, n)
<1>1. n \in Path /\ Len(n) \in Nat
  BY Nodes, LenProperties DEF Tree, Path
<1> QED
  BY <1>1, Down DEF Chain

\* The first child of a node of the chain is in the chain.
LEMMA ChainStep ==
  ASSUME NEW t, Tree(t), NEW n \in DOMAIN t, NEW m \in Chain(t, n),
         NEW i \in 0..3, FirstChild(t, m, i)
  PROVE  Child(m, i) \in Chain(t, n) /\ Child(m, i) # n
<1> DEFINE c == Child(m, i)
<1>1. /\ n \in Path /\ Len(n) \in Nat /\ m \in Path /\ Len(m) \in Nat
      /\ Len(n) <= Len(m) /\ SubSeq(m, 1, Len(n)) = n
      /\ \A k \in Len(n)..(Len(m) - 1) : FirstChild(t, SubSeq(m, 1, k), m[k + 1])
  BY Nodes, LenProperties DEF Tree, Path, Chain
<1>2. /\ c \in DOMAIN t
      /\ Len(c) = Len(m) + 1
      /\ c[Len(m) + 1] = i
      /\ \A j \in 1..Len(m) : c[j] = m[j]
      /\ \A k \in 0..Len(m) : SubSeq(c, 1, k) = SubSeq(m, 1, k)
      /\ SubSeq(m, 1, Len(m)) = m
  BY <1>1, BelowIs, Down
<1> HIDE DEF c
<1>3. Len(n) <= Len(c) /\ SubSeq(c, 1, Len(n)) = n /\ c # n
  BY <1>1, <1>2
<1>4. ASSUME NEW k \in Len(n)..(Len(c) - 1)
      PROVE  FirstChild(t, SubSeq(c, 1, k), c[k + 1])
  <2>1. CASE k = Len(m)
    <3>1. SubSeq(c, 1, k) = m /\ c[k + 1] = i
      BY <1>1, <1>2, <2>1
    <3> QED
      BY <3>1
  <2>2. CASE k \in Len(n)..(Len(m) - 1)
    <3>1. SubSeq(c, 1, k) = SubSeq(m, 1, k) /\ c[k + 1] = m[k + 1]
      BY <1>1, <1>2, <2>2
    <3> QED
      BY <1>1, <2>2, <3>1
  <2>3. Len(c) - 1 = Len(m)
    BY <1>1, <1>2
  <2>4. k = Len(m) \/ k \in Len(n)..(Len(m) - 1)
    BY <1>1, <2>3
  <2> QED
    BY <2>1, <2>2, <2>4
<1> QED
  BY <1>2, <1>3, <1>4 DEF Chain, c

\* What is in the chain, and is not its start, has its parent there.
LEMMA ChainBack ==
  ASSUME NEW t, Tree(t), NEW n \in DOMAIN t, NEW c \in Chain(t, n), c # n
  PROVE  /\ Parent(c) \in Chain(t, n)
         /\ \E i \in 0..3 : c = Child(Parent(c), i) /\ FirstChild(t, Parent(c), i)
<1>1. /\ n \in Path /\ Len(n) \in Nat
      /\ c \in DOMAIN t /\ c \in Path /\ Len(c) \in Nat
      /\ Len(n) <= Len(c) /\ SubSeq(c, 1, Len(n)) = n
      /\ \A k \in Len(n)..(Len(c) - 1) : FirstChild(t, SubSeq(c, 1, k), c[k + 1])
  BY Nodes, LenProperties DEF Tree, Path, Chain
<1>2. Len(n) < Len(c)
  <2> SUFFICES ASSUME Len(c) = Len(n) PROVE FALSE
    BY <1>1
  <2>1. SubSeq(c, 1, Len(c)) = c
    BY <1>1, SubSeqFull DEF Path
  <2> QED
    BY <1>1, <2>1
<1>3. c # Root
  BY <1>1, <1>2, EmptySeq DEF Root
<1> DEFINE m == Parent(c)
           l == Len(c) - 1
<1>4. /\ m \in Path /\ Len(m) = l /\ c[Len(c)] \in 0..3
      /\ c = Child(m, c[Len(c)])
  BY <1>1, <1>3, Up
<1>5. m \in DOMAIN t
  BY <1>1, <1>3 DEF Tree
<1>6. /\ m = SubSeq(c, 1, l) /\ l \in 0..Len(c) /\ Len(n) <= l
      /\ \A j \in 0..l : SubSeq(m, 1, j) = SubSeq(c, 1, j)
      /\ \A j \in 1..l : m[j] = c[j]
  <2>1. l \in 0..Len(c) /\ Len(n) <= l
    BY <1>1, <1>2
  <2>2. m = SubSeq(c, 1, l)
    BY DEF Parent
  <2> QED
    BY <1>1, <2>1, <2>2, Prefix, PrefixOfPrefix
<1> HIDE DEF m
<1>7. FirstChild(t, m, c[Len(c)])
  <2>1. l \in Len(n)..(Len(c) - 1) /\ l + 1 = Len(c)
    BY <1>1, <1>6
  <2> QED
    BY <1>1, <1>6, <2>1
<1>8. SubSeq(m, 1, Len(n)) = n
  <2>1. Len(n) \in 0..l
    BY <1>1, <1>6
  <2> QED
    BY <1>1, <1>6, <2>1
<1>9. ASSUME NEW k \in Len(n)..(Len(m) - 1)
      PROVE  FirstChild(t, SubSeq(m, 1, k), m[k + 1])
  <2>1. k \in Len(n)..(Len(c) - 1) /\ k \in 0..l /\ k + 1 \in 1..l
    BY <1>1, <1>4, <1>6
  <2> QED
    BY <1>1, <1>6, <2>1
<1> QED
  BY <1>4, <1>5, <1>6, <1>7, <1>8, <1>9 DEF Chain, m

\* The chain ends at a node without children, and only there.
LEMMA EndFound ==
  ASSUME NEW t, Tree(t), NEW n \in DOMAIN t
  PROVE  \E m \in Chain(t, n) : Children(t, m) = {}
<1> DEFINE T == {l \in 0..MaxItems : \E m \in Chain(t, n) : Len(m) = MaxItems - l}
<1>1. \A m \in Chain(t, n) : m \in Path /\ Len(m) \in Nat /\ Len(m) <= MaxItems
  BY Nodes, LenProperties DEF Tree, Path, Chain
<1>2. T # {}
  <2>1. n \in Chain(t, n)
    BY ChainStart
  <2>2. MaxItems - Len(n) \in 0..MaxItems /\ Len(n) = MaxItems - (MaxItems - Len(n))
    BY <1>1, <2>1, MaxItemsAssumption
  <2> QED
    BY <2>1, <2>2
<1>3. PICK l \in T : \A k \in T : l <= k
  <2>1. T \subseteq Nat
    BY MaxItemsAssumption
  <2> HIDE DEF T
  <2> QED
    BY <1>2, <2>1, Least
<1>4. PICK m \in Chain(t, n) : Len(m) = MaxItems - l
  BY <1>3
<1>5. ASSUME Children(t, m) # {} PROVE FALSE
  <2>1. PICK i \in 0..3 : FirstChild(t, m, i)
    BY <1>5, FirstChildFound
  <2> DEFINE c == Child(m, i)
  <2>2. c \in Chain(t, n) /\ Len(c) = Len(m) + 1
    BY <1>1, <2>1, ChainStep, Down
  <2> HIDE DEF c
  <2>3. l \in Nat /\ l <= MaxItems /\ Len(c) = MaxItems - (l - 1) /\ l - 1 \in 0..MaxItems
    BY <1>1, <1>3, <1>4, <2>2, MaxItemsAssumption
  <2>4. l - 1 \in T
    BY <2>2, <2>3
  <2> QED
    BY <1>3, <2>3, <2>4
<1> QED
  BY <1>4, <1>5

\* Two nodes of the chain: the one that is not deeper is a prefix of the other.
LEMMA ChainLine ==
  ASSUME NEW t, Tree(t), NEW n \in DOMAIN t,
         NEW m \in Chain(t, n), NEW d \in Chain(t, n), Len(m) <= Len(d)
  PROVE  SubSeq(d, 1, Len(m)) = m
<1>1. /\ n \in Path /\ Len(n) \in Nat /\ m \in Path /\ d \in Path
      /\ Len(n) <= Len(m) /\ SubSeq(m, 1, Len(n)) = n
      /\ Len(n) <= Len(d) /\ SubSeq(d, 1, Len(n)) = n
      /\ \A k \in Len(n)..(Len(m) - 1) : FirstChild(t, SubSeq(m, 1, k), m[k + 1])
      /\ \A k \in Len(n)..(Len(d) - 1) : FirstChild(t, SubSeq(d, 1, k), d[k + 1])
      /\ Len(m) \in Nat /\ Len(d) \in Nat
  BY Nodes, LenProperties DEF Tree, Path, Chain
<1>1a. Len(n) \in Nat /\ Len(m) \in Nat /\ Len(d) \in Nat /\ Len(n) <= Len(m)
  BY <1>1
<1> DEFINE T == {k \in Len(n)..Len(m) : SubSeq(m, 1, k) # SubSeq(d, 1, k)}
<1>2. T = {}
  <2> SUFFICES ASSUME T # {} PROVE FALSE
    OBVIOUS
  <2>1. PICK k \in T : \A j \in T : k <= j
    <3>1. T \subseteq Nat
      BY <1>1
    <3> HIDE DEF T
    <3> QED
      BY <3>1, Least
  <2>1a. k \in Len(n)..Len(m) /\ k # Len(n)
    BY <1>1, <2>1
  <2> HIDE DEF T
  <2>2. k # Len(n) /\ k \in Nat /\ Len(n) <= k /\ k <= Len(m) /\ k <= Len(d)
    BY <1>1a, <2>1a
  <2>3. k - 1 \in Len(n)..Len(m) /\ k - 1 \notin T
    <3>1. k - 1 \in Len(n)..Len(m) /\ ~(k <= k - 1)
      BY <1>1a, <2>2
    <3> QED
      BY <2>1, <3>1
  <2>4. SubSeq(m, 1, k - 1) = SubSeq(d, 1, k - 1)
    BY <2>3 DEF T
  <2>5. /\ FirstChild(t, SubSeq(m, 1, k - 1), m[k])
        /\ FirstChild(t, SubSeq(d, 1, k - 1), d[k])
    <3>1. /\ k - 1 \in Len(n)..(Len(m) - 1) /\ k - 1 \in Len(n)..(Len(d) - 1)
          /\ k - 1 + 1 = k
      BY <1>1a, <2>2
    <3> QED
      BY <1>1, <3>1
  <2>6. m[k] = d[k]
    BY <2>4, <2>5, FirstChildOnce
  <2>7. \A j \in 1..(k - 1) : m[j] = d[j]
    <3>1. k - 1 \in 0..Len(m) /\ k - 1 \in 0..Len(d)
      BY <1>1a, <2>2
    <3>2. /\ \A j \in 1..(k - 1) : SubSeq(m, 1, k - 1)[j] = m[j]
          /\ \A j \in 1..(k - 1) : SubSeq(d, 1, k - 1)[j] = d[j]
      BY <1>1, <3>1, Prefix
    <3> QED
      BY <2>4, <3>2
  <2>8. SubSeq(m, 1, k) = SubSeq(d, 1, k)
    <3>1. k \in 0..Len(m) /\ k \in 0..Len(d)
      BY <1>1a, <2>2
    <3>2. /\ SubSeq(m, 1, k) \in Path /\ SubSeq(d, 1, k) \in Path
          /\ Len(SubSeq(m, 1, k)) = k /\ Len(SubSeq(d, 1, k)) = k
          /\ \A j \in 1..k : SubSeq(m, 1, k)[j] = m[j] /\ SubSeq(d, 1, k)[j] = d[j]
      BY <1>1, <3>1, Prefix
    <3>3. \A j \in 1..k : m[j] = d[j]
      BY <2>2, <2>6, <2>7
    <3> QED
      BY <3>2, <3>3, SeqEqual DEF Path
  <2> QED
    BY <2>1, <2>8 DEF T
<1>3. SubSeq(m, 1, Len(m)) = SubSeq(d, 1, Len(m))
  BY <1>1a, <1>2
<1>4. SubSeq(m, 1, Len(m)) = m
  BY <1>1, SubSeqFull DEF Path
<1> QED
  BY <1>3, <1>4

\* The chain has one end.
LEMMA EndOnly ==
  ASSUME NEW t, Tree(t), NEW n \in DOMAIN t,
         NEW m \in Chain(t, n), NEW d \in Chain(t, n),
         Children(t, m) = {}, Children(t, d) = {}
  PROVE  m = d
<1>1. ASSUME NEW e \in Chain(t, n), NEW f \in Chain(t, n),
             Children(t, e) = {}, Len(e) <= Len(f)
      PROVE  e = f
  <2>1. /\ e \in Path /\ f \in Path /\ Len(e) \in Nat /\ Len(f) \in Nat /\ Len(n) <= Len(e)
        /\ \A k \in Len(n)..(Len(f) - 1) : FirstChild(t, SubSeq(f, 1, k), f[k + 1])
        /\ Len(n) \in Nat
    BY Nodes, LenProperties DEF Tree, Path, Chain
  <2>2. SubSeq(f, 1, Len(e)) = e
    BY <1>1, ChainLine
  <2>3. ASSUME Len(e) < Len(f) PROVE FALSE
    <3>1. Len(e) \in Len(n)..(Len(f) - 1)
      BY <2>1, <2>3
    <3>2. FirstChild(t, e, f[Len(e) + 1])
      BY <2>1, <2>2, <3>1
    <3> QED
      BY <1>1, <3>2 DEF FirstChild
  <2>4. Len(e) = Len(f)
    BY <1>1, <2>1, <2>3
  <2> QED
    BY <2>1, <2>2, <2>4, SubSeqFull DEF Path
<1>2. Len(m) \in Nat /\ Len(d) \in Nat
  BY Nodes, LenProperties DEF Tree, Path, Chain
<1>3. CASE Len(m) <= Len(d)
  BY <1>1, <1>3
<1>4. CASE Len(d) <= Len(m)
  BY <1>1, <1>4
<1> QED
  BY <1>2, <1>3, <1>4

-------------------------------------------------------------------------------
\* What removeNode does: the values of the chain move up by one node, and its
\* end, if it is not n itself, goes.
Removed(t, u, n, end) ==
  /\ end \in Chain(t, n) /\ Children(t, end) = {}
  /\ DOMAIN u = IF end = n THEN DOMAIN t ELSE DOMAIN t \ {end}
  /\ \A m \in DOMAIN u :
       /\ m = end => u[m] = Nil
       /\ m # end /\ m \in Chain(t, n) => u[m] = t[Below(t, m)]
       /\ m \notin Chain(t, n) => u[m] = t[m]

\* What removeNode leaves, told without CHOOSE.
LEMMA WithoutIs ==
  ASSUME NEW t, Tree(t), NEW n \in DOMAIN t
  PROVE  \E end \in Chain(t, n) : Removed(t, Without(t, n), n, end)
<1> DEFINE end == CHOOSE m \in Chain(t, n) : Children(t, m) = {}
<1>1. end \in Chain(t, n) /\ Children(t, end) = {}
  <2>1. \E m \in Chain(t, n) : Children(t, m) = {}
    BY EndFound
  <2> QED
    BY <2>1
<1>2. Without(t, n) =
        [m \in IF end = n THEN DOMAIN t ELSE DOMAIN t \ {end} |->
           IF m = end THEN Nil
           ELSE IF m \in Chain(t, n) THEN t[Below(t, m)] ELSE t[m]]
  BY DEF Without
<1> HIDE DEF end
<1>3. end \in DOMAIN t
  BY <1>1 DEF Chain
<1> QED
  BY <1>1, <1>2, <1>3 DEF Removed

\* The node below one of the chain is of the chain, and its first child.
LEMMA BelowInChain ==
  ASSUME NEW t, Tree(t), NEW n \in DOMAIN t, NEW end \in Chain(t, n),
         Children(t, end) = {}, NEW m \in Chain(t, n), m # end
  PROVE  /\ Below(t, m) \in Chain(t, n) \ {n}
         /\ Parent(Below(t, m)) = m
         /\ \E i \in 0..3 : Below(t, m) = Child(m, i)
<1>1. Children(t, m) # {}
  BY EndOnly
<1>2. PICK i \in 0..3 : FirstChild(t, m, i)
  BY <1>1, FirstChildFound
<1>3. m \in Path
  BY Nodes DEF Tree, Chain
<1> QED
  BY <1>2, <1>3, BelowIs, ChainStep, Down

\* A value is taken out: the others stay in boxes that hold them.
LEMMA TakeOutSound ==
  ASSUME Sound, NEW n \in DOMAIN tree, TakeOut(n)
  PROVE  Sound'
<1>1. bound = Region /\ Tree(tree) /\ BoundHolds /\ InCell
  BY SoundIs
<1>2. tree' = Without(tree, n) /\ bound' = Region
  BY <1>1 DEF TakeOut
<1>3. PICK end \in Chain(tree, n) : Removed(tree, tree', n, end)
  BY <1>1, <1>2, WithoutIs
<1>4. DOMAIN tree' \subseteq DOMAIN tree
  BY <1>3 DEF Removed
<1>5. /\ \A m \in DOMAIN tree : m \in Path
      /\ end \in DOMAIN tree
  BY <1>1, Nodes DEF Tree, Chain
<1>6. ASSUME NEW m \in DOMAIN tree'
      PROVE  tree'[m] \in Item \cup {Nil} /\ (m = Root \/ Parent(m) \in DOMAIN tree')
  <2>1. tree'[m] \in Item \cup {Nil}
    <3>1. CASE m = end
      BY <1>3, <3>1 DEF Removed
    <3>2. CASE m # end /\ m \in Chain(tree, n)
      <4>1. Below(tree, m) \in DOMAIN tree
        BY <1>1, <1>3, <3>2, BelowInChain DEF Removed, Chain
      <4> QED
        BY <1>1, <1>3, <3>2, <4>1 DEF Removed, Tree
    <3>3. CASE m \notin Chain(tree, n)
      BY <1>1, <1>3, <1>4, <3>3 DEF Removed, Tree
    <3> QED
      BY <3>1, <3>2, <3>3
  <2>2. ASSUME m # Root PROVE Parent(m) \in DOMAIN tree'
    <3>1. Parent(m) \in DOMAIN tree
      BY <1>1, <1>4, <2>2 DEF Tree
    <3>2. m[Len(m)] \in 0..3 /\ m = Child(Parent(m), m[Len(m)])
      BY <1>4, <1>5, <2>2, Up
    <3>3. m[Len(m)] \in Children(tree, Parent(m))
      BY <1>4, <3>2 DEF Children
    <3>4. Parent(m) # end
      BY <1>3, <3>3 DEF Removed
    <3> QED
      BY <1>3, <3>1, <3>4 DEF Removed
  <2> QED
    BY <2>1, <2>2
<1>7. Tree(tree)'
  BY <1>1, <1>4, <1>6 DEF Tree
<1>8. Region.left <= Region.right /\ Region.bottom <= Region.top
  BY <1>1 DEF BoundHolds
<1>9. BoundHolds'
  BY <1>8 DEF BoundHolds
<1>10. Proper(Region)
  BY <1>8, RegionAssumption DEF Proper
<1>11. InCell'
  <2> SUFFICES ASSUME NEW m \in DOMAIN tree', tree'[m] # Nil
               PROVE  Inside(Cell(Region, m), X[tree'[m]], Y[tree'[m]])
    BY <1>2 DEF InCell, Filled
  <2>1. m # end
    BY <1>3 DEF Removed
  <2>2. CASE m \in Chain(tree, n)
    <3> DEFINE c == Below(tree, m)
    <3>1. c \in DOMAIN tree /\ \E i \in 0..3 : c = Child(m, i)
      <4>1. Children(tree, end) = {}
        BY <1>3 DEF Removed
      <4>2. c \in Chain(tree, n) /\ \E i \in 0..3 : c = Child(m, i)
        BY <1>1, <2>1, <2>2, <4>1, BelowInChain
      <4> QED
        BY <4>2 DEF Chain
    <3>2. tree'[m] = tree[c]
      BY <1>3, <2>1, <2>2 DEF Removed
    <3> HIDE DEF c
    <3>3. PICK i \in 0..3 : c = Child(m, i)
      BY <3>1
    <3>4. tree[c] \in Item /\ X[tree[c]] \in Int /\ Y[tree[c]] \in Int
      <4>1. tree[c] \in Item
        BY <1>1, <3>1, <3>2 DEF Tree
      <4> QED
        BY <4>1, CoordinatesAssumption
    <3>5. Inside(Cell(Region, c), X[tree[c]], Y[tree[c]])
      BY <1>1, <3>1, <3>2 DEF InCell, Filled
    <3>6. Cell(Region, c) = Quarter(Cell(Region, m), i)
      BY <1>4, <1>5, <3>3, CellOfChild
    <3>7. Proper(Cell(Region, m))
      BY <1>4, <1>5, <1>10, CellProper
    <3> QED
      BY <3>2, <3>4, <3>5, <3>6, <3>7, Quarters
  <2>3. CASE m \notin Chain(tree, n)
    <3>1. tree'[m] = tree[m] /\ m \in Filled(tree)
      BY <1>3, <1>4, <2>3 DEF Removed, Filled
    <3> QED
      BY <1>1, <3>1 DEF InCell
  <2> QED
    BY <2>2, <2>3
<1> QED
  BY <1>2, <1>7, <1>9, <1>11 DEF Sound, TypeOK, Tree

\* Whatever is added and taken out, in whatever order: the nodes are a tree,
\* and the searches may leave out a box, for every value below a node is in the
\* node's box.
THEOREM AlwaysSound ==
  Spec => []Sound
<1>1. Sound /\ [Next]_<<bound, tree>> => Sound'
  <2> SUFFICES ASSUME Sound, [Next]_<<bound, tree>> PROVE Sound'
    OBVIOUS
  <2>1. CASE \E v \in Item : Add(v)
    BY <2>1, AddSound
  <2>2. CASE \E n \in DOMAIN tree : TakeOut(n)
    BY <2>2, TakeOutSound
  <2>3. CASE UNCHANGED <<bound, tree>>
    BY <2>3 DEF Sound, TypeOK, BoundHolds, InCell
  <2> QED
    BY <2>1, <2>2, <2>3 DEF Next
<1> QED
  BY InitSound, <1>1, PTL DEF Spec

-------------------------------------------------------------------------------
\* The nodes that hold w.
At(t, w) == {m \in DOMAIN t : t[m] = w}

\* How often each value is held, counted over finite sets.
LEMMA HeldIs ==
  ASSUME Tree(tree)
  PROVE  /\ held = [w \in Item |-> Cardinality(At(tree, w))]
         /\ \A w \in Item : IsFiniteSet(At(tree, w)) /\ Cardinality(At(tree, w)) \in Nat
<1>1. ASSUME NEW w \in Item
      PROVE  {m \in Filled(tree) : tree[m] = w} = At(tree, w)
  BY NilAssumption DEF Filled, At
<1>2. ASSUME NEW w \in Item
      PROVE  IsFiniteSet(At(tree, w)) /\ Cardinality(At(tree, w)) \in Nat
  <2>1. At(tree, w) \in SUBSET Node
    BY DEF At, Tree
  <2> QED
    BY <2>1, NodeFinite, FS_Subset, FS_CardinalityType
<1> QED
  BY <1>1, <1>2 DEF held

\* Add puts its value in one node more, and leaves the nodes of the others.
LEMMA AddHeld ==
  ASSUME Sound, NEW v \in Item, Add(v)
  PROVE  held' = [held EXCEPT ![v] = @ + 1]
<1> DEFINE p == Place(bound, tree, v)
<1>1. Tree(tree) /\ Tree(tree')
  BY AddSound, SoundIs DEF Sound, TypeOK, Tree
<1>2. tree' = With(tree, p, v) /\ p \notin Filled(tree)
  BY <1>1, PlaceFound DEF Add
<1> HIDE DEF p
<1>3. /\ DOMAIN tree' = DOMAIN tree \cup {p}
      /\ tree'[p] = v
      /\ \A m \in DOMAIN tree : m # p => tree'[m] = tree[m]
      /\ p \in DOMAIN tree => tree[p] = Nil
  BY <1>2 DEF With, Filled
<1>4. ASSUME NEW w \in Item, w # v PROVE At(tree', w) = At(tree, w)
  BY <1>3, <1>4, NilAssumption DEF At
<1>5. At(tree', v) = At(tree, v) \cup {p} /\ p \notin At(tree, v)
  BY <1>3, NilAssumption DEF At
<1>6. Cardinality(At(tree', v)) = Cardinality(At(tree, v)) + 1
  BY <1>1, <1>5, HeldIs, FS_AddElement
<1>7. /\ held = [w \in Item |-> Cardinality(At(tree, w))]
      /\ held' = [w \in Item |-> Cardinality(At(tree', w))]
  <2>1. Tree(tree') => held' = [w \in Item |-> Cardinality(At(tree', w))]
    <3>1. (Tree(tree) => held = [w \in Item |-> Cardinality(At(tree, w))])'
      BY HeldIs, PTL
    <3> QED
      BY <3>1 DEF Tree, At
  <2> QED
    BY <1>1, <2>1, HeldIs
<1> QED
  BY <1>4, <1>6, <1>7

\* removeNode takes the value of n out of one node, and no other value gets
\* lost or doubled when values move up: where w is after it there was w before,
\* in the same node or in the one below, n's own value aside.
LEMMA TakeOutHeld ==
  ASSUME Sound, NEW n \in DOMAIN tree, TakeOut(n)
  PROVE  tree[n] \in Item /\ held' = [held EXCEPT ![tree[n]] = @ - 1]
<1>1. Tree(tree) /\ Tree(tree')
  BY TakeOutSound, SoundIs DEF Sound, TypeOK, Tree
<1>2. tree' = Without(tree, n) /\ n \in Filled(tree)
  BY DEF TakeOut
<1>3. PICK end \in Chain(tree, n) : Removed(tree, tree', n, end)
  BY <1>1, <1>2, WithoutIs
<1>4. tree[n] \in Item
  BY <1>1, <1>2 DEF Filled, Tree
<1>5. Children(tree, end) = {}
  BY <1>3 DEF Removed
<1>6. n \in Chain(tree, n) /\ Chain(tree, n) \subseteq DOMAIN tree
  BY <1>1, ChainStart DEF Chain
<1> DEFINE from(m) == IF m \in Chain(tree, n) THEN Below(tree, m) ELSE m
<1>7. ASSUME NEW w \in Item
      PROVE  Cardinality(At(tree', w)) = Cardinality(At(tree, w) \ {n})
  <2> DEFINE S == At(tree', w)
             T == At(tree, w) \ {n}
             f == [m \in S |-> from(m)]
  <2>1. ASSUME NEW m \in S
        PROVE  /\ m # end /\ m \in DOMAIN tree /\ f[m] \in T
               /\ m \in Chain(tree, n) => Parent(f[m]) = m /\ f[m] \in Chain(tree, n)
               /\ m \notin Chain(tree, n) => f[m] = m
    <3>1. m \in DOMAIN tree' /\ tree'[m] = w
      BY DEF At
    <3>2. m # end /\ m \in DOMAIN tree
      BY <1>3, <3>1, NilAssumption DEF Removed
    <3>3. CASE m \in Chain(tree, n)
      <4>1. f[m] = Below(tree, m) /\ tree'[m] = tree[Below(tree, m)]
        BY <1>3, <3>1, <3>2, <3>3 DEF Removed
      <4>2. Below(tree, m) \in Chain(tree, n) \ {n} /\ Parent(Below(tree, m)) = m
        BY <1>1, <1>5, <3>2, <3>3, BelowInChain
      <4> QED
        BY <1>6, <3>1, <3>2, <3>3, <4>1, <4>2 DEF At
    <3>4. CASE m \notin Chain(tree, n)
      <4>1. f[m] = m /\ tree'[m] = tree[m]
        BY <1>3, <3>1, <3>4 DEF Removed
      <4> QED
        BY <1>6, <3>1, <3>2, <3>4, <4>1 DEF At
    <3> QED
      BY <3>3, <3>4
  <2>2. ASSUME NEW c \in T PROVE \E m \in S : f[m] = c
    <3>1. c \in DOMAIN tree /\ tree[c] = w /\ c # n
      BY DEF At
    <3>2. CASE c \in Chain(tree, n)
      <4> DEFINE m == Parent(c)
      <4>1. m \in Chain(tree, n) /\ \E i \in 0..3 : c = Child(m, i) /\ FirstChild(tree, m, i)
        BY <1>1, <3>1, <3>2, ChainBack
      <4> HIDE DEF m
      <4>2. Below(tree, m) = c
        BY <4>1, BelowIs
      <4>3. m # end
        BY <1>5, <4>1 DEF FirstChild
      <4>4. m \in DOMAIN tree' /\ tree'[m] = w
        BY <1>3, <1>6, <3>1, <4>1, <4>2, <4>3 DEF Removed
      <4> QED
        BY <4>1, <4>2, <4>4 DEF At
    <3>3. CASE c \notin Chain(tree, n)
      <4>1. c \in DOMAIN tree' /\ tree'[c] = w
        BY <1>3, <3>1, <3>3 DEF Removed
      <4> QED
        BY <3>3, <4>1 DEF At
    <3> QED
      BY <3>2, <3>3
  <2>3. \A m \in S, d \in S : f[m] = f[d] => m = d
    BY <2>1
  <2>4. f \in Bijection(S, T)
    <3>1. f \in [S -> T]
      BY <2>1
    <3> HIDE DEF f, S, T
    <3> QED
      BY <2>2, <2>3, <3>1 DEF Bijection, Injection, Surjection, IsInjective
  <2>5. IsFiniteSet(S)
    <3>1. S \in SUBSET Node
      BY <1>1 DEF At, Tree
    <3> QED
      BY <3>1, NodeFinite, FS_Subset
  <2>6. ExistsBijection(S, T)
    BY <2>4 DEF ExistsBijection
  <2> HIDE DEF f, S, T
  <2>7. Cardinality(T) = Cardinality(S)
    BY <2>5, <2>6, FS_Bijection
  <2> QED
    BY <2>7 DEF S, T
<1>8. ASSUME NEW w \in Item
      PROVE  Cardinality(At(tree', w)) =
               IF w = tree[n] THEN Cardinality(At(tree, w)) - 1
                              ELSE Cardinality(At(tree, w))
  <2>1. n \in At(tree, w) <=> w = tree[n]
    BY DEF At
  <2>2. Cardinality(At(tree, w) \ {n}) =
          IF n \in At(tree, w) THEN Cardinality(At(tree, w)) - 1
                               ELSE Cardinality(At(tree, w))
    BY <1>1, HeldIs, FS_RemoveElement
  <2> QED
    BY <1>7, <2>1, <2>2
<1>9. /\ held = [w \in Item |-> Cardinality(At(tree, w))]
      /\ held' = [w \in Item |-> Cardinality(At(tree', w))]
  <2>1. Tree(tree') => held' = [w \in Item |-> Cardinality(At(tree', w))]
    <3>1. (Tree(tree) => held = [w \in Item |-> Cardinality(At(tree, w))])'
      BY HeldIs, PTL
    <3> QED
      BY <3>1 DEF Tree, At
  <2> QED
    BY <1>1, <2>1, HeldIs
<1> QED
  BY <1>4, <1>8, <1>9

\* Each step puts one value in or takes one out, whatever moves up.
THEOREM OneByOne ==
  Spec => OneAtATime
<1>1. Sound /\ [Next]_<<bound, tree>> =>
        [\E v \in Item : \/ held' = [held EXCEPT ![v] = @ + 1]
                         \/ held' = [held EXCEPT ![v] = @ - 1]]_tree
  <2> SUFFICES ASSUME Sound, [Next]_<<bound, tree>>, tree' # tree
               PROVE  \E v \in Item : \/ held' = [held EXCEPT ![v] = @ + 1]
                                      \/ held' = [held EXCEPT ![v] = @ - 1]
    OBVIOUS
  <2>1. CASE \E v \in Item : Add(v)
    BY <2>1, AddHeld
  <2>2. CASE \E n \in DOMAIN tree : TakeOut(n)
    BY <2>2, TakeOutHeld
  <2> QED
    BY <2>1, <2>2 DEF Next
<1> QED
  BY AlwaysSound, <1>1, PTL DEF Spec, OneAtATime


-------------------------------------------------------------------------------
\* What a loop of n turns computes, from a on.
Turns(F, a, n, r) == r = [i \in 0..n |-> IF i = 0 THEN a ELSE F[r[i - 1]]]

\* A loop has a value after every number of rounds.
LEMMA Loops ==
  ASSUME NEW S, NEW F \in [S -> S], NEW a \in S, NEW n \in Nat
  PROVE  \E r \in [0..n -> S] : Turns(F, a, n, r)
<1> DEFINE P == [l \in Nat |-> \E r \in [0..l -> S] : Turns(F, a, l, r)]
<1>1. P \in [Nat -> BOOLEAN]
  OBVIOUS
<1>2. P[0]
  <2> DEFINE r == [i \in 0..0 |-> a]
  <2>1. r \in [0..0 -> S] /\ r = [i \in 0..0 |-> IF i = 0 THEN a ELSE F[r[i - 1]]]
    OBVIOUS
  <2> QED
    BY <2>1 DEF Turns
<1>3. ASSUME NEW l \in Nat, P[l] PROVE P[l + 1]
  <2>1. PICK r \in [0..l -> S] : r = [i \in 0..l |-> IF i = 0 THEN a ELSE F[r[i - 1]]]
    BY <1>3 DEF Turns
  <2> DEFINE q == [i \in 0..(l + 1) |-> IF i = l + 1 THEN F[r[l]] ELSE r[i]]
  <2>2. q \in [0..(l + 1) -> S]
    OBVIOUS
  <2>3. ASSUME NEW i \in 0..(l + 1) PROVE q[i] = IF i = 0 THEN a ELSE F[q[i - 1]]
    <3>1. CASE i = 0
      <4>1. r[0] = a
        BY <2>1
      <4> QED
        BY <3>1, <4>1
    <3>2. CASE i = l + 1
      BY <3>2
    <3>3. CASE i \in 1..l
      <4>1. r[i] = F[r[i - 1]]
        BY <2>1, <3>3
      <4>2. q[i] = r[i] /\ q[i - 1] = r[i - 1]
        BY <3>3
      <4> QED
        BY <3>3, <4>1, <4>2
    <3> QED
      BY <3>1, <3>2, <3>3
  <2>4. q = [i \in 0..(l + 1) |-> IF i = 0 THEN a ELSE F[q[i - 1]]]
    <3> HIDE DEF q
    <3> QED
      BY <2>2, <2>3
  <2> HIDE DEF q
  <2>5. \E p \in [0..(l + 1) -> S] : Turns(F, a, l + 1, p)
    BY <2>2, <2>4 DEF Turns
  <2> QED
    BY <2>5
<1>4. \A l \in Nat : P[l]
  <2> HIDE DEF P
  <2> QED
    BY <1>1, <1>2, <1>3, Induct
<1> QED
  BY <1>4

\* A loop whose turns, until it stands, bring a number down stands after as many
\* turns.
Falling(S, F, M) ==
  /\ F \in [S -> S] /\ M \in [S -> Nat]
  /\ \A s \in S : F[s] = s \/ M[F[s]] < M[s]

\* A loop that comes nearer to its end with every round ends within its bound.
LEMMA Settles ==
  ASSUME NEW S, NEW F, NEW M, Falling(S, F, M), NEW a \in S, NEW n \in Nat, M[a] <= n
  PROVE  \E r \in [0..n -> S] : Turns(F, a, n, r) /\ F[r[n]] = r[n]
<1> USE DEF Falling
<1>1. PICK r \in [0..n -> S] : Turns(F, a, n, r)
  BY Loops
<1>2. r[0] = a /\ \A t \in 1..n : r[t] = F[r[t - 1]]
  BY <1>1 DEF Turns
<1> DEFINE Near(t) == M[r[t]] <= n - t \/ F[r[t]] = r[t]
           T == {t \in 0..n : ~Near(t)}
<1>3. Near(0)
  <2>1. r[0] = a /\ n - 0 = n
    BY <1>2
  <2> QED
    BY <2>1
<1>4. ASSUME NEW t \in Nat, t + 1 <= n, Near(t) PROVE Near(t + 1)
  <2>1. t \in 0..n /\ t + 1 \in 1..n /\ t + 1 \in 0..n /\ t + 1 - 1 = t
    BY <1>4
  <2>2. r[t] \in S /\ r[t + 1] \in S
    BY <2>1
  <2>3. r[t + 1] = F[r[t]]
    BY <1>2, <2>1
  <2>4. F[r[t]] = r[t] \/ M[F[r[t]]] < M[r[t]]
    BY <2>2
  <2>5. M[r[t]] \in Nat /\ M[r[t + 1]] \in Nat
    BY <2>2
  <2>6. CASE F[r[t]] = r[t]
    BY <2>3, <2>6
  <2>7. CASE F[r[t]] # r[t]
    BY <1>4, <2>3, <2>4, <2>5, <2>7
  <2> QED
    BY <2>6, <2>7
<1> HIDE DEF Near
<1>5. ASSUME T # {} PROVE FALSE
  <2>1. PICK t \in T : \A k \in T : t <= k
    <3>1. T \subseteq Nat
      OBVIOUS
    <3> HIDE DEF T
    <3> QED
      BY <1>5, <3>1, Least
  <2>2. t # 0
    BY <1>3
  <2>3. t - 1 \in Nat /\ t - 1 \in 0..n /\ t - 1 + 1 = t /\ t <= n /\ ~(t <= t - 1)
    BY <2>2
  <2>4. t - 1 \notin T
    BY <2>1, <2>3
  <2>5. Near(t - 1) /\ ~Near(t)
    BY <2>3, <2>4
  <2> QED
    BY <1>4, <2>3, <2>5
<1>6. Near(n)
  BY <1>5
<1>7. M[r[n]] <= 0 \/ F[r[n]] = r[n]
  <2>1. n - n = 0
    OBVIOUS
  <2> QED
    BY <1>6, <2>1 DEF Near
<1>8. r[n] \in S /\ n \in 0..n
  OBVIOUS
<1>9. M[r[n]] \in Nat /\ M[F[r[n]]] \in Nat
  BY <1>8
<1>10. F[r[n]] = r[n] \/ M[F[r[n]]] < M[r[n]]
  BY <1>8
<1>11. F[r[n]] = r[n]
  BY <1>7, <1>9, <1>10
<1> QED
  BY <1>1, <1>11

\* g has the entries of h, each once if h has.
Same(g, h) ==
  /\ Len(g) = Len(h)
  /\ Range(g) = Range(h)
  /\ IsInjective(g) <=> IsInjective(h)

\* An exchange keeps the entries.
LEMMA SwapIs ==
  ASSUME NEW E, NEW h \in Seq(E), NEW i \in 1..Len(h), NEW j \in 1..Len(h)
  PROVE  LET g == Swapped(h, i, j) IN
         /\ g \in Seq(E)
         /\ Same(g, h)
         /\ g[i] = h[j] /\ g[j] = h[i]
         /\ \A k \in 1..Len(h) : k # i /\ k # j => g[k] = h[k]
<1> DEFINE n == Len(h)
           g == Swapped(h, i, j)
<1>1. n \in Nat /\ h \in [1..n -> E] /\ DOMAIN h = 1..n
  BY LenProperties
<1>2. /\ g \in [1..n -> E]
      /\ g[i] = h[j] /\ g[j] = h[i]
      /\ \A k \in 1..n : k # i /\ k # j => g[k] = h[k]
  BY <1>1 DEF Swapped
<1>3. i \in 1..n /\ j \in 1..n
  OBVIOUS
<1> HIDE DEF g
<1>4. g \in Seq(E) /\ Len(g) = n /\ DOMAIN g = 1..n
  <2>1. g \in Seq(E)
    BY <1>1, <1>2, SeqDef
  <2> QED
    BY <1>1, <1>2, <2>1, LenProperties
<1> HIDE DEF n
<1>5. Range(g) = Range(h)
  <2>1. \A k \in 1..n : \E m \in 1..n : g[k] = h[m]
    BY <1>2, <1>3
  <2>2. \A k \in 1..n : \E m \in 1..n : h[k] = g[m]
    BY <1>2, <1>3
  <2>3. \A e : e \in Range(g) <=> \E k \in 1..n : e = g[k]
    BY <1>4 DEF Range
  <2>4. \A e : e \in Range(h) <=> \E k \in 1..n : e = h[k]
    BY <1>1 DEF Range
  <2> QED
    BY <2>1, <2>2, <2>3, <2>4
<1>6. IsInjective(g) <=> IsInjective(h)
  BY <1>1, <1>2, <1>3, <1>4 DEF IsInjective
<1> QED
  BY <1>2, <1>4, <1>5, <1>6 DEF Same, g, n

\* Every entry but the first is no further than the one above it.
Heap(h) == \A j \in 2..Len(h) : h[j \div 2].distance >= h[j].distance

\* The first entry of a heap is the furthest.
LEMMA TopFurthest ==
  ASSUME NEW E, \A e \in E : e.distance \in Int, NEW h \in Seq(E), Heap(h)
  PROVE  \A j \in 1..Len(h) : h[j].distance <= h[1].distance
<1> DEFINE T == {j \in 1..Len(h) : ~(h[j].distance <= h[1].distance)}
<1>1. Len(h) \in Nat /\ \A j \in 1..Len(h) : h[j].distance \in Int
  BY LenProperties, ElementOfSeq
<1> SUFFICES ASSUME T # {} PROVE FALSE
  OBVIOUS
<1>2. PICK j \in T : \A k \in T : j <= k
  <2>1. T \subseteq Nat
    BY <1>1
  <2> HIDE DEF T
  <2> QED
    BY <2>1, Least
<1>3. j \in 1..Len(h) /\ ~(h[j].distance <= h[1].distance)
  OBVIOUS
<1> HIDE DEF T
<1>4. j \in 2..Len(h) /\ j \div 2 \in 1..Len(h) /\ j \div 2 < j
  BY <1>1, <1>3
<1>5. j \div 2 \notin T
  BY <1>1, <1>2, <1>4
<1>6. h[j \div 2].distance <= h[1].distance
  BY <1>4, <1>5 DEF T
<1>7. h[j].distance <= h[j \div 2].distance
  BY <1>1, <1>4 DEF Heap
<1> QED
  BY <1>1, <1>3, <1>4, <1>6, <1>7

Placed(E) == {s \in [heap : Seq(E), at : Nat] : s.at \in 1..Len(s.heap)}

\* What an entry on its way up has in order behind it: all but itself and the
\* one above it.
Rising(s) ==
  /\ \A j \in 2..Len(s.heap) : j # s.at => s.heap[j \div 2].distance >= s.heap[j].distance
  /\ \A j \in 2..Len(s.heap) : j \div 2 = s.at /\ s.at >= 2 =>
                                 s.heap[s.at \div 2].distance >= s.heap[j].distance

\* One round of siftUp.
LEMMA RiseIs ==
  ASSUME NEW E, \A e \in E : e.distance \in Int, NEW s \in Placed(E)
  PROVE  /\ Rise(s) \in Placed(E)
         /\ Same(Rise(s).heap, s.heap)
         /\ Rising(s) => Rising(Rise(s))
         /\ Rise(s) = s \/ Rise(s).at < s.at
         /\ Rise(s) = s /\ Rising(s) => Heap(s.heap)
<1> DEFINE h == s.heap
           i == s.at
           up == i \div 2
           stop == i = 1 \/ h[i].distance < h[up].distance
           g == Swapped(h, i, up)
<1>1. /\ h \in Seq(E) /\ Len(h) \in Nat /\ i \in 1..Len(h)
      /\ s = [heap |-> h, at |-> i]
      /\ \A j \in 1..Len(h) : h[j].distance \in Int
  BY LenProperties, ElementOfSeq DEF Placed
<1>2. CASE stop
  <2>1. Rise(s) = s
    BY <1>2 DEF Rise
  <2>2. Rising(s) => Heap(s.heap)
    <3> SUFFICES ASSUME Rising(s), NEW j \in 2..Len(h)
                 PROVE  h[j \div 2].distance >= h[j].distance
      BY DEF Heap
    <3>1. CASE j # i
      BY <3>1 DEF Rising
    <3>2. CASE j = i
      <4>1. j \div 2 \in 1..Len(h) /\ j \in 1..Len(h) /\ i # 1
        BY <1>1, <3>2
      <4> QED
        BY <1>1, <1>2, <3>2, <4>1
    <3> QED
      BY <3>1, <3>2
  <2> QED
    BY <2>1, <2>2 DEF Same
<1>3. CASE ~stop
  <2>1. up \in 1..Len(h) /\ up < i /\ i >= 2 /\ h[i].distance >= h[up].distance
    BY <1>1, <1>3
  <2>2. Rise(s) = [heap |-> g, at |-> up]
    BY <1>3 DEF Rise
  <2>3. /\ g \in Seq(E) /\ Same(g, h) /\ Len(g) = Len(h)
        /\ g[i] = h[up] /\ g[up] = h[i]
        /\ \A k \in 1..Len(h) : k # i /\ k # up => g[k] = h[k]
    <3>1. h \in Seq(E) /\ i \in 1..Len(h) /\ up \in 1..Len(h)
      BY <1>1, <2>1
    <3> HIDE DEF h, i, up
    <3>2. /\ g \in Seq(E) /\ Same(g, h)
          /\ g[i] = h[up] /\ g[up] = h[i]
          /\ \A k \in 1..Len(h) : k # i /\ k # up => g[k] = h[k]
      BY <3>1, SwapIs
    <3> QED
      BY <3>2 DEF Same
  <2> HIDE DEF g, h, i
  <2>4. Rise(s) \in Placed(E)
    BY <2>1, <2>2, <2>3 DEF Placed
  <2>5. ASSUME Rising(s) PROVE Rising(Rise(s))
    <3>1. /\ \A j \in 2..Len(h) : j # i => h[j \div 2].distance >= h[j].distance
          /\ \A j \in 2..Len(h) : j \div 2 = i => h[up].distance >= h[j].distance
      BY <2>1, <2>5 DEF Rising, h, i
    <3>2. ASSUME NEW j \in 2..Len(h)
          PROVE  /\ j \in 1..Len(h) /\ j \div 2 \in 1..Len(h) /\ j \div 2 < j
                 /\ h[j].distance \in Int /\ h[j \div 2].distance \in Int
      <4>1. j \in 1..Len(h) /\ j \div 2 \in 1..Len(h) /\ j \div 2 < j
        BY <1>1
      <4> QED
        BY <1>1, <4>1
    <3>3. h[i].distance \in Int /\ h[up].distance \in Int
      BY <1>1, <2>1
    <3>4. ASSUME NEW j \in 2..Len(h), j # up
          PROVE  g[j \div 2].distance >= g[j].distance
      <4>1. CASE j = i
        BY <2>1, <2>3, <4>1
      <4>2. CASE j # i /\ j \div 2 = i
        BY <2>3, <3>1, <3>2, <3>4, <4>2
      <4>3. CASE j # i /\ j \div 2 = up
        BY <2>1, <2>3, <3>1, <3>2, <3>3, <3>4, <4>3
      <4>4. CASE j # i /\ j \div 2 # i /\ j \div 2 # up
        BY <2>3, <3>1, <3>2, <3>4, <4>4
      <4> QED
        BY <4>1, <4>2, <4>3, <4>4
    <3>5. ASSUME NEW j \in 2..Len(h), j \div 2 = up, up >= 2
          PROVE  g[up \div 2].distance >= g[j].distance
      <4>1. /\ up \in 2..Len(h) /\ up \div 2 \in 1..Len(h) /\ up \div 2 # up
            /\ up \div 2 # i /\ h[up \div 2].distance \in Int
        BY <2>1, <3>2, <3>5
      <4>2. g[up \div 2] = h[up \div 2] /\ h[up \div 2].distance >= h[up].distance
        BY <2>1, <2>3, <3>1, <4>1
      <4>3. CASE j = i
        BY <2>3, <4>2, <4>3
      <4>4. CASE j # i
        <5>1. g[j] = h[j] /\ h[up].distance >= h[j].distance
          BY <2>3, <3>1, <3>2, <3>5, <4>4
        <5> QED
          BY <3>2, <3>3, <4>1, <4>2, <5>1
      <4> QED
        BY <4>3, <4>4
    <3>6. /\ \A j \in 2..Len(g) : j # up => g[j \div 2].distance >= g[j].distance
          /\ \A j \in 2..Len(g) : j \div 2 = up /\ up >= 2 =>
                                    g[up \div 2].distance >= g[j].distance
      BY <2>3, <3>4, <3>5
    <3> QED
      BY <2>2, <3>6 DEF Rising
  <2>6. Rise(s).at < s.at
    BY <2>1, <2>2 DEF i
  <2>7. Rise(s) # s
    BY <1>1, <2>6 DEF i
  <2> QED
    BY <2>2, <2>3, <2>4, <2>5, <2>6, <2>7 DEF h
<1> QED
  BY <1>2, <1>3

\* Having the same entries goes from sequence to sequence.
LEMMA SameTrans ==
  ASSUME NEW f, NEW g, NEW h, Same(f, g), Same(g, h)
  PROVE  Same(f, h)
BY DEF Same

\* siftUp restores the order of a heap whose last entry may be too far down.
LEMMA SiftUpIs ==
  ASSUME NEW E, \A e \in E : e.distance \in Int,
         NEW h \in Seq(E), NEW i \in 1..Len(h), Rising([heap |-> h, at |-> i])
  PROVE  SiftUp(h, i) \in Seq(E) /\ Same(SiftUp(h, i), h) /\ Heap(SiftUp(h, i))
<1> DEFINE n == Len(h)
           a == [heap |-> h, at |-> i]
           Loop(r) == r = [turn \in 0..n |-> IF turn = 0 THEN a ELSE Rise(r[turn - 1])]
           L == CHOOSE r : Loop(r)
           S == {s \in Placed(E) : Same(s.heap, h) /\ Rising(s)}
           F == [s \in S |-> Rise(s)]
           M == [s \in S |-> s.at]
<1>1. n \in Nat /\ a \in S /\ M[a] <= n
  <2>1. a \in Placed(E) /\ Same(a.heap, h)
    BY DEF Placed, Same
  <2> QED
    BY <2>1, LenProperties
<1>2. ASSUME NEW s \in S
      PROVE  /\ Rise(s) \in S
             /\ Rise(s) = s \/ Rise(s).at < s.at
             /\ Rise(s) = s => Heap(s.heap)
    BY RiseIs, SameTrans
<1>3. F \in [S -> S] /\ M \in [S -> Nat]
  BY <1>2 DEF Placed
<1>4. Falling(S, F, M)
  BY <1>2, <1>3 DEF Falling
<1>5. PICK r \in [0..n -> S] : Turns(F, a, n, r) /\ F[r[n]] = r[n]
  <2>1. a \in S /\ n \in Nat /\ M[a] <= n
    BY <1>1
  <2> HIDE DEF n, a, F, S, M, L, Loop
  <2> QED
    BY <1>4, <2>1, Settles
<1>6. Loop(r)
  <2>1. r = [turn \in 0..n |-> IF turn = 0 THEN a ELSE F[r[turn - 1]]]
    BY <1>5 DEF Turns
  <2>2. \A turn \in 0..n : turn # 0 => F[r[turn - 1]] = Rise(r[turn - 1])
    <3>1. \A s \in S : F[s] = Rise(s)
      OBVIOUS
    <3>2. n \in Nat /\ r \in [0..n -> S]
      BY <1>1, <1>5
    <3> HIDE DEF F, S, n
    <3>3. \A turn \in 0..n : turn # 0 => turn - 1 \in 0..n
      BY <3>2
    <3> QED
      BY <3>1, <3>2, <3>3
  <2> HIDE DEF F, a, n, S
  <2> QED
    BY <2>1, <2>2
<1>7. Loop(L)
  <2> HIDE DEF Loop
  <2> QED
    BY <1>6
<1>8. SiftUp(h, i) = L[n].heap
  BY DEF SiftUp
<1>9. L[n] = r[n]
  <2> DEFINE T == {t \in 0..n : L[t] # r[t]}
  <2>1. \A t \in 0..n : L[t] = IF t = 0 THEN a ELSE Rise(L[t - 1])
    <3> HIDE DEF L, a, n
    <3> QED
      BY <1>7
  <2>2. \A t \in 0..n : r[t] = IF t = 0 THEN a ELSE Rise(r[t - 1])
    <3> HIDE DEF a, n
    <3> QED
      BY <1>6
  <2> HIDE DEF L, a, n, S
  <2> SUFFICES ASSUME T # {} PROVE FALSE
    BY <1>1
  <2>3. PICK t \in T : \A k \in T : t <= k
    <3>1. T \subseteq Nat
      OBVIOUS
    <3> HIDE DEF T
    <3> QED
      BY <3>1, Least
  <2>4. t # 0
    BY <2>1, <2>2
  <2>5. t - 1 \in 0..n /\ t - 1 \notin T
    BY <1>1, <2>3, <2>4
  <2> QED
    BY <2>1, <2>2, <2>4, <2>5
<1>10. r[n] \in S /\ Rise(r[n]) = r[n]
  <2>1. r[n] \in S
    BY <1>1
  <2> HIDE DEF S, n
  <2> QED
    BY <1>5, <2>1
<1>11. r[n].heap \in Seq(E)
  BY <1>10 DEF Placed
<1> QED
  BY <1>2, <1>8, <1>9, <1>10, <1>11

\* A heap with an entry more is a heap.
LEMMA PushIs ==
  ASSUME NEW E, \A e \in E : e.distance \in Int,
         NEW h \in Seq(E), Heap(h), NEW e \in E
  PROVE  Push(h, e) \in Seq(E) /\ Same(Push(h, e), Append(h, e)) /\ Heap(Push(h, e))
<1> DEFINE g == Append(h, e)
           n == Len(h)
<1>1. /\ n \in Nat /\ g \in Seq(E) /\ Len(g) = n + 1 /\ n + 1 \in 1..Len(g)
      /\ \A j \in 1..n : g[j] = h[j]
  BY LenProperties
<1> HIDE DEF g
<1>2. Rising([heap |-> g, at |-> n + 1])
  <2>1. ASSUME NEW j \in 2..Len(g), j # n + 1
        PROVE  g[j \div 2].distance >= g[j].distance
    <3>1. j \in 2..n /\ j \in 1..n /\ j \div 2 \in 1..n
      BY <1>1, <2>1
    <3> QED
      BY <1>1, <3>1 DEF Heap
  <2>2. ASSUME NEW j \in 2..Len(g) PROVE j \div 2 # n + 1
    BY <1>1
  <2> QED
    BY <2>1, <2>2 DEF Rising
<1>3. /\ SiftUp(g, n + 1) \in Seq(E) /\ Same(SiftUp(g, n + 1), g)
      /\ Heap(SiftUp(g, n + 1))
  BY <1>1, <1>2, SiftUpIs
<1> QED
  BY <1>3 DEF Push, g

\* A parent comes before its children.
LEMMA Halves ==
  ASSUME NEW i \in Nat
  PROVE  /\ (2 * i) \div 2 = i /\ (2 * i + 1) \div 2 = i
         /\ \A j \in Nat : j \div 2 = i => j \in {2 * i, 2 * i + 1}
OBVIOUS

\* Of a node and its children the furthest.
LEMMA FurthestIs ==
  ASSUME NEW E, \A e \in E : e.distance \in Int,
         NEW h \in Seq(E), NEW i \in 1..Len(h)
  PROVE  LET c == Furthest(h, i) IN
         /\ c \in 1..Len(h)
         /\ c # i => c \div 2 = i /\ c > i /\ h[c].distance > h[i].distance
         /\ \A j \in 2..Len(h) : j \div 2 = i => h[c].distance >= h[j].distance
<1> DEFINE n == Len(h)
           c == Furthest(h, i)
           left == IF 2 * i <= n /\ h[i].distance < h[2 * i].distance THEN 2 * i ELSE i
<1>1. n \in Nat /\ i \in Nat /\ i >= 1 /\ i <= n /\ \A j \in 1..n : h[j].distance \in Int
  BY LenProperties, ElementOfSeq
<1>2. c = IF 2 * i + 1 <= n /\ h[left].distance < h[2 * i + 1].distance
          THEN 2 * i + 1 ELSE left
  BY DEF Furthest
<1> HIDE DEF n, c
<1>3. /\ left \in 1..n /\ h[left].distance \in Int /\ h[i].distance \in Int
      /\ left # i => left = 2 * i /\ h[left].distance > h[i].distance
      /\ 2 * i <= n => h[2 * i].distance <= h[left].distance
      /\ h[i].distance <= h[left].distance
  <2>1. CASE 2 * i <= n
    <3>1. 2 * i \in 1..n /\ i \in 1..n
      BY <1>1, <2>1
    <3> QED
      BY <1>1, <3>1
  <2>2. CASE ~(2 * i <= n)
    BY <1>1, <2>2
  <2> QED
    BY <2>1, <2>2
<1> HIDE DEF left
<1>4. /\ c \in 1..n /\ h[c].distance \in Int
      /\ c # i => c \in {2 * i, 2 * i + 1} /\ h[c].distance > h[i].distance
      /\ 2 * i <= n => h[2 * i].distance <= h[c].distance
      /\ 2 * i + 1 <= n => h[2 * i + 1].distance <= h[c].distance
  <2>1. 2 * i + 1 <= n => 2 * i \in 1..n /\ 2 * i + 1 \in 1..n
    BY <1>1
  <2>2. 2 * i <= n => 2 * i \in 1..n
    BY <1>1
  <2>3. CASE 2 * i + 1 <= n
    <3>1. 2 * i + 1 \in 1..n /\ 2 * i <= n /\ h[2 * i + 1].distance \in Int
      BY <1>1, <2>1, <2>3
    <3>2. h[2 * i].distance \in Int
      BY <1>1, <2>1, <2>3
    <3>3. CASE h[left].distance < h[2 * i + 1].distance
      <4>1. c = 2 * i + 1
        BY <1>2, <2>3, <3>3
      <4>2. c \in 1..n /\ h[c].distance \in Int /\ h[left].distance < h[c].distance
        BY <3>1, <3>3, <4>1
      <4>3. h[2 * i].distance <= h[left].distance /\ h[i].distance <= h[left].distance
            /\ h[left].distance \in Int /\ h[i].distance \in Int
        BY <1>3, <3>1
      <4>4. h[2 * i].distance <= h[c].distance /\ h[c].distance > h[i].distance
            /\ h[c].distance <= h[c].distance
        BY <3>2, <4>2, <4>3
      <4> QED
        BY <4>1, <4>2, <4>4
    <3>4. CASE ~(h[left].distance < h[2 * i + 1].distance)
      <4>1. c = left
        BY <1>2, <3>4
      <4> QED
        BY <1>3, <3>1, <3>4, <4>1
    <3> QED
      BY <3>3, <3>4
  <2>4. CASE ~(2 * i + 1 <= n)
    <3>1. c = left
      BY <1>2, <2>4
    <3> QED
      BY <1>3, <2>4, <3>1
  <2> QED
    BY <2>3, <2>4
<1>5. c # i => c \div 2 = i /\ c > i /\ h[c].distance > h[i].distance
  <2>1. (2 * i) \div 2 = i /\ (2 * i + 1) \div 2 = i /\ 2 * i > i /\ 2 * i + 1 > i
    BY <1>1, Halves
  <2> QED
    BY <1>4, <2>1
<1>6. ASSUME NEW j \in 2..n, j \div 2 = i PROVE h[c].distance >= h[j].distance
  <2>1. j = 2 * i \/ j = 2 * i + 1
    BY <1>1, <1>6, Halves
  <2>2. j \in 1..n /\ h[j].distance \in Int
    BY <1>1
  <2> QED
    BY <1>4, <2>1, <2>2
<1> QED
  BY <1>4, <1>5, <1>6 DEF n, c

\* What an entry on its way down has in order around it: all but the two below
\* it.
Sinking(s) ==
  /\ \A j \in 2..Len(s.heap) : j \div 2 # s.at =>
                                 s.heap[j \div 2].distance >= s.heap[j].distance
  /\ \A j \in 2..Len(s.heap) : j \div 2 = s.at /\ s.at >= 2 =>
                                 s.heap[s.at \div 2].distance >= s.heap[j].distance

\* One round of siftDown.
LEMMA SinkIs ==
  ASSUME NEW E, \A e \in E : e.distance \in Int, NEW s \in Placed(E)
  PROVE  /\ Sink(s) \in Placed(E)
         /\ Same(Sink(s).heap, s.heap)
         /\ Sinking(s) => Sinking(Sink(s))
         /\ Sink(s) = s \/ Sink(s).at > s.at
         /\ Sink(s) = s /\ Sinking(s) => Heap(s.heap)
<1> DEFINE h == s.heap
           i == s.at
           c == Furthest(h, i)
           g == Swapped(h, i, c)
<1>1. /\ h \in Seq(E) /\ Len(h) \in Nat /\ i \in 1..Len(h)
      /\ s = [heap |-> h, at |-> i]
      /\ \A j \in 1..Len(h) : h[j].distance \in Int
  BY LenProperties, ElementOfSeq DEF Placed
<1>2. Sink(s) = IF c = i THEN s ELSE [heap |-> g, at |-> c]
  BY DEF Sink
<1> HIDE DEF h, i
<1>3. /\ c \in 1..Len(h)
      /\ c # i => c \div 2 = i /\ c > i /\ h[c].distance > h[i].distance
      /\ \A j \in 2..Len(h) : j \div 2 = i => h[c].distance >= h[j].distance
  BY <1>1, FurthestIs
<1>4. /\ g \in Seq(E) /\ Same(g, h) /\ Len(g) = Len(h)
      /\ g[i] = h[c] /\ g[c] = h[i]
      /\ \A k \in 1..Len(h) : k # i /\ k # c => g[k] = h[k]
  <2>0. h \in Seq(E) /\ i \in 1..Len(h) /\ c \in 1..Len(h)
    BY <1>1, <1>3
  <2> HIDE DEF c
  <2>1. /\ g \in Seq(E) /\ Same(g, h)
        /\ g[i] = h[c] /\ g[c] = h[i]
        /\ \A k \in 1..Len(h) : k # i /\ k # c => g[k] = h[k]
    BY <2>0, SwapIs
  <2> QED
    BY <2>1 DEF Same
<1> HIDE DEF g, c
<1>5. CASE c = i
  <2>1. Sink(s) = s
    BY <1>2, <1>5
  <2>2. ASSUME Sinking(s), NEW j \in 2..Len(h)
        PROVE  h[j \div 2].distance >= h[j].distance
    BY <1>3, <1>5, <2>2 DEF Sinking, h, i
  <2> QED
    BY <2>1, <2>2 DEF Same, Heap, h
<1>6. CASE c # i
  <2>1. /\ Sink(s) = [heap |-> g, at |-> c]
        /\ c \div 2 = i /\ c > i /\ h[c].distance > h[i].distance
    BY <1>2, <1>3, <1>6
  <2>2. Sink(s) \in Placed(E)
    BY <1>3, <1>4, <2>1 DEF Placed
  <2>3. Sink(s).at > s.at /\ Sink(s) # s
    BY <1>1, <1>6, <2>1 DEF i
  <2>4. ASSUME Sinking(s) PROVE Sinking(Sink(s))
    <3>1. /\ \A j \in 2..Len(h) : j \div 2 # i => h[j \div 2].distance >= h[j].distance
          /\ \A j \in 2..Len(h) : j \div 2 = i /\ i >= 2 =>
                                   h[i \div 2].distance >= h[j].distance
      BY <2>4 DEF Sinking, h, i
    <3>2. ASSUME NEW j \in 2..Len(h)
          PROVE  /\ j \in 1..Len(h) /\ j \div 2 \in 1..Len(h) /\ j \div 2 < j
                 /\ h[j].distance \in Int /\ h[j \div 2].distance \in Int
      <4>1. j \in 1..Len(h) /\ j \div 2 \in 1..Len(h) /\ j \div 2 < j
        BY <1>1
      <4> QED
        BY <1>1, <4>1
    <3>3. h[i].distance \in Int /\ h[c].distance \in Int /\ c \in 2..Len(h)
      BY <1>1, <1>3, <2>1
    <3>4. ASSUME NEW j \in 2..Len(h), j \div 2 # c
          PROVE  g[j \div 2].distance >= g[j].distance
      <4>1. CASE j = c
        BY <1>4, <2>1, <3>3, <4>1
      <4>2. CASE j # c /\ j \div 2 = i
        <5>1. j # i
          BY <3>2, <4>2
        <5> QED
          BY <1>3, <1>4, <3>2, <4>2, <5>1
      <4>3. CASE j = i
        <5>1. j \div 2 # i /\ j \div 2 # c /\ i >= 2
          BY <3>2, <3>4, <4>3
        <5>2. g[j \div 2] = h[i \div 2] /\ g[j] = h[c]
          BY <1>4, <3>2, <4>3, <5>1
        <5>3. h[i \div 2].distance >= h[c].distance
          BY <2>1, <3>1, <3>3, <5>1
        <5> QED
          BY <5>2, <5>3
      <4>4. CASE j # c /\ j # i /\ j \div 2 # i
        <5>1. g[j] = h[j] /\ g[j \div 2] = h[j \div 2]
          BY <1>4, <3>2, <3>4, <4>4
        <5> QED
          BY <3>1, <4>4, <5>1
      <4> QED
        BY <4>1, <4>2, <4>3, <4>4
    <3>5. ASSUME NEW j \in 2..Len(h), j \div 2 = c
          PROVE  g[c \div 2].distance >= g[j].distance
      <4>1. j # c /\ j # i /\ j \div 2 # i
        BY <1>6, <2>1, <3>2, <3>3, <3>5
      <4>2. g[c \div 2] = h[c] /\ g[j] = h[j]
        BY <1>4, <2>1, <3>2, <4>1
      <4>3. h[c].distance >= h[j].distance
        BY <3>1, <3>5, <4>1
      <4> QED
        BY <4>2, <4>3
    <3>6. /\ \A j \in 2..Len(g) : j \div 2 # c => g[j \div 2].distance >= g[j].distance
          /\ \A j \in 2..Len(g) : j \div 2 = c /\ c >= 2 =>
                                   g[c \div 2].distance >= g[j].distance
      BY <1>4, <3>4, <3>5
    <3> QED
      BY <2>1, <3>6 DEF Sinking
  <2> QED
    BY <1>4, <2>1, <2>2, <2>3, <2>4 DEF h
<1> QED
  BY <1>5, <1>6

\* siftDown restores the order of a heap whose first entry may be too far up.
LEMMA SiftDownIs ==
  ASSUME NEW E, \A e \in E : e.distance \in Int,
         NEW h \in Seq(E), NEW i \in 1..Len(h), Sinking([heap |-> h, at |-> i])
  PROVE  SiftDown(h, i) \in Seq(E) /\ Same(SiftDown(h, i), h) /\ Heap(SiftDown(h, i))
<1> DEFINE n == Len(h)
           a == [heap |-> h, at |-> i]
           Loop(r) == r = [turn \in 0..n |-> IF turn = 0 THEN a ELSE Sink(r[turn - 1])]
           L == CHOOSE r : Loop(r)
           S == {s \in Placed(E) : Same(s.heap, h) /\ Sinking(s)}
           F == [s \in S |-> Sink(s)]
           M == [s \in S |-> n - s.at]
<1>1. n \in Nat /\ a \in S /\ M[a] <= n
  <2>1. a \in Placed(E) /\ Same(a.heap, h)
    BY DEF Placed, Same
  <2> QED
    BY <2>1, LenProperties
<1>2. ASSUME NEW s \in S
      PROVE  /\ Sink(s) \in S
             /\ Sink(s) = s \/ Sink(s).at > s.at
             /\ Sink(s) = s => Heap(s.heap)
    BY SinkIs, SameTrans
<1>3. \A s \in S : s.at \in Nat /\ s.at <= n
  BY <1>1 DEF Placed, Same
<1>4. Falling(S, F, M)
  <2>1. F \in [S -> S]
    BY <1>2
  <2>2. M \in [S -> Nat]
    BY <1>1, <1>3
  <2>3. ASSUME NEW s \in S PROVE F[s] = s \/ M[F[s]] < M[s]
    <3>1. F[s] = Sink(s) /\ F[s] \in S
      BY <1>2
    <3>2. M[s] = n - s.at /\ M[F[s]] = n - F[s].at
      BY <3>1
    <3> HIDE DEF F, M, S, n
    <3> QED
      BY <1>1, <1>2, <1>3, <3>1, <3>2
  <2> QED
    BY <2>1, <2>2, <2>3 DEF Falling
<1>5. PICK r \in [0..n -> S] : Turns(F, a, n, r) /\ F[r[n]] = r[n]
  <2>1. a \in S /\ n \in Nat /\ M[a] <= n
    BY <1>1
  <2> HIDE DEF n, a, F, S, M, L, Loop
  <2> QED
    BY <1>4, <2>1, Settles
<1>6. Loop(r)
  <2>1. r = [turn \in 0..n |-> IF turn = 0 THEN a ELSE F[r[turn - 1]]]
    BY <1>5 DEF Turns
  <2>2. \A turn \in 0..n : turn # 0 => F[r[turn - 1]] = Sink(r[turn - 1])
    BY <1>1
  <2> HIDE DEF F, a, n, S
  <2> QED
    BY <2>1, <2>2
<1>7. Loop(L)
  <2> HIDE DEF Loop
  <2> QED
    BY <1>6
<1>8. SiftDown(h, i) = L[n].heap
  BY DEF SiftDown
<1>9. L[n] = r[n]
  <2> DEFINE T == {t \in 0..n : L[t] # r[t]}
  <2>1. \A t \in 0..n : L[t] = IF t = 0 THEN a ELSE Sink(L[t - 1])
    <3> HIDE DEF L, a, n
    <3> QED
      BY <1>7
  <2>2. \A t \in 0..n : r[t] = IF t = 0 THEN a ELSE Sink(r[t - 1])
    <3> HIDE DEF a, n
    <3> QED
      BY <1>6
  <2> HIDE DEF L, a, n, S
  <2> SUFFICES ASSUME T # {} PROVE FALSE
    BY <1>1
  <2>3. PICK t \in T : \A k \in T : t <= k
    <3>1. T \subseteq Nat
      OBVIOUS
    <3> HIDE DEF T
    <3> QED
      BY <3>1, Least
  <2>4. t # 0
    BY <2>1, <2>2
  <2>5. t - 1 \in 0..n /\ t - 1 \notin T
    BY <1>1, <2>3, <2>4
  <2> QED
    BY <2>1, <2>2, <2>4, <2>5
<1>10. r[n] \in S /\ Sink(r[n]) = r[n]
  <2>1. r[n] \in S
    BY <1>1
  <2> HIDE DEF S, n
  <2> QED
    BY <1>5, <2>1
<1>11. r[n].heap \in Seq(E)
  BY <1>10 DEF Placed
<1> QED
  BY <1>2, <1>8, <1>9, <1>10, <1>11

\* A heap that throws its first entry out.
LEMMA PopIs ==
  ASSUME NEW E, \A e \in E : e.distance \in Int,
         NEW h \in Seq(E), Heap(h), IsInjective(h), h # << >>
  PROVE  /\ Pop(h) \in Seq(E) /\ Heap(Pop(h)) /\ IsInjective(Pop(h))
         /\ Len(Pop(h)) = Len(h) - 1
         /\ Range(Pop(h)) = Range(h) \ {h[1]}
<1> DEFINE n == Len(h)
           g == [i \in 1..(n - 1) |-> IF i = 1 THEN h[n] ELSE h[i]]
<1>1. /\ n \in Nat \ {0} /\ DOMAIN h = 1..n
      /\ \A j \in 1..n : h[j] \in E /\ h[j].distance \in Int
  BY EmptySeq, LenProperties, ElementOfSeq
<1>2. \A j, k \in 1..n : h[j] = h[k] => j = k
  BY <1>1 DEF IsInjective
<1>3. Range(h) = {h[j] : j \in 1..n}
  BY <1>1 DEF Range
<1>4. CASE n = 1
  <2>1. Pop(h) = << >>
    BY <1>4 DEF Pop
  <2>2. << >> \in Seq(E) /\ Len(<< >>) = 0 /\ Heap(<< >>) /\ IsInjective(<< >>)
    BY EmptySeq DEF Heap, IsInjective
  <2>3. Range(<< >>) = {} /\ Range(h) = {h[1]}
    BY <1>3, <1>4 DEF Range
  <2> QED
    BY <1>4, <2>1, <2>2, <2>3
<1>5. CASE n # 1
  <2>1. Pop(h) = SiftDown(g, 1)
    BY <1>5 DEF Pop
  <2> HIDE DEF n
  <2>2. n - 1 \in Nat \ {0} /\ \A i \in 1..(n - 1) : i \in 1..n /\ n \in 1..n /\ i # n
    BY <1>1, <1>5
  <2>10. n - 1 \in Nat /\ n - 1 >= 1 /\ 1 \in 1..(n - 1)
    BY <1>1, <1>5
  <2>3. g \in [1..(n - 1) -> E]
    BY <1>1, <2>2
  <2>4. g \in Seq(E) /\ Len(g) = n - 1 /\ DOMAIN g = 1..(n - 1)
    <3>1. n - 1 \in Nat
      BY <2>2
    <3> HIDE DEF g
    <3>2. g \in Seq(E)
      BY <2>3, <3>1, SeqDef
    <3> QED
      BY <2>3, <3>1, <3>2, LenProperties
  <2>5. \A i \in 1..(n - 1) : g[i] = IF i = 1 THEN h[n] ELSE h[i]
    OBVIOUS
  <2> HIDE DEF g
  <2>6. Sinking([heap |-> g, at |-> 1])
    <3>1. ASSUME NEW j \in 2..Len(g), j \div 2 # 1
          PROVE  g[j \div 2].distance >= g[j].distance
      <4>1. j \in 1..(n - 1) /\ j \div 2 \in 1..(n - 1) /\ j # 1 /\ j \in 2..n
        BY <2>2, <2>4
      <4>2. g[j] = h[j] /\ g[j \div 2] = h[j \div 2]
        BY <2>5, <3>1, <4>1
      <4>3. h[j \div 2].distance >= h[j].distance
        BY <4>1 DEF Heap, n
      <4> QED
        BY <4>2, <4>3
    <3> QED
      BY <3>1 DEF Sinking
  <2>7. IsInjective(g)
    BY <1>2, <2>2, <2>4, <2>5 DEF IsInjective
  <2>8. Range(g) = Range(h) \ {h[1]}
    <3>1. Range(g) = {g[i] : i \in 1..(n - 1)}
      BY <2>4 DEF Range
    <3>2. ASSUME NEW i \in 1..(n - 1) PROVE \E j \in 1..n : j # 1 /\ g[i] = h[j]
      BY <1>5, <2>2, <2>5
    <3>3. ASSUME NEW j \in 1..n, j # 1 PROVE \E i \in 1..(n - 1) : g[i] = h[j]
      <4>1. CASE j = n
        BY <2>5, <2>10, <4>1
      <4>2. CASE j # n
        <5>1. j \in 1..(n - 1)
          BY <1>1, <4>2
        <5> QED
          BY <2>5, <3>3, <5>1
      <4> QED
        BY <4>1, <4>2
    <3>4. 1 \in 1..n
      BY <1>1
    <3> QED
      BY <1>2, <1>3, <3>1, <3>2, <3>3, <3>4
  <2>9. /\ SiftDown(g, 1) \in Seq(E) /\ Same(SiftDown(g, 1), g)
        /\ Heap(SiftDown(g, 1))
    <3>1. 1 \in 1..Len(g)
      BY <2>4, <2>10
    <3> QED
      BY <2>4, <2>6, <3>1, SiftDownIs
  <2> QED
    BY <2>1, <2>4, <2>7, <2>8, <2>9 DEF Same, n
<1> QED
  BY <1>4, <1>5

\* Heaps of entries, each in them once.
Heaps(E) == {h \in Seq(E) : Heap(h) /\ IsInjective(h)}

\* What is left of a heap, turn by turn.
LEMMA Popping ==
  ASSUME NEW E, \A e \in E : e.distance \in Int, NEW h \in Heaps(E)
  PROVE  \E r : /\ r = [i \in 0..Len(h) |-> IF i = 0 THEN h ELSE Pop(r[i - 1])]
                /\ \A i \in 0..Len(h) : r[i] \in Heaps(E) /\ Len(r[i]) = Len(h) - i
<1> DEFINE n == Len(h)
           F == [g \in Heaps(E) |-> IF g = << >> THEN g ELSE Pop(g)]
<1>1. n \in Nat
  BY LenProperties DEF Heaps
<1>2. \A g \in Heaps(E) : g # << >> => Pop(g) \in Heaps(E) /\ Len(Pop(g)) = Len(g) - 1
  BY PopIs DEF Heaps
<1>3. F \in [Heaps(E) -> Heaps(E)]
  BY <1>2
<1>4. PICK r \in [0..n -> Heaps(E)] : Turns(F, h, n, r)
  <2> HIDE DEF F, n
  <2> QED
    BY <1>1, <1>3, Loops
<1> HIDE DEF n
<1>5. r[0] = h /\ \A i \in 1..n : i - 1 \in 0..n /\ r[i] = F[r[i - 1]]
  <2> HIDE DEF F
  <2> QED
    BY <1>1, <1>4 DEF Turns
<1>6. ASSUME NEW i \in 1..n, Len(r[i - 1]) = n - (i - 1)
      PROVE  r[i] = Pop(r[i - 1]) /\ Len(r[i]) = n - i
  <2>1. i - 1 \in 0..n /\ r[i - 1] \in Heaps(E) /\ n - (i - 1) # 0
    BY <1>1
  <2>2. r[i - 1] # << >>
    BY <1>6, <2>1
  <2>3. r[i] = Pop(r[i - 1]) /\ Len(r[i]) = Len(r[i - 1]) - 1
    BY <1>2, <1>5, <2>1, <2>2
  <2> QED
    BY <1>1, <1>6, <2>3
<1>7. \A i \in 0..n : Len(r[i]) = n - i
  <2> DEFINE T == {i \in 0..n : Len(r[i]) # n - i}
  <2> SUFFICES ASSUME T # {} PROVE FALSE
    OBVIOUS
  <2>1. PICK i \in T : \A k \in T : i <= k
    <3>1. T \subseteq Nat
      OBVIOUS
    <3> HIDE DEF T
    <3> QED
      BY <3>1, Least
  <2>2. i # 0
    BY <1>1, <1>5 DEF n
  <2>3. i \in 1..n /\ i - 1 \in 0..n /\ i - 1 \notin T
    BY <1>1, <2>1, <2>2
  <2> QED
    BY <1>6, <2>3
<1>8. r = [i \in 0..n |-> IF i = 0 THEN h ELSE Pop(r[i - 1])]
  <2>1. ASSUME NEW i \in 1..n PROVE r[i] = Pop(r[i - 1])
    <3>1. i - 1 \in 0..n
      BY <1>1
    <3> QED
      BY <1>6, <1>7, <3>1
  <2> QED
    BY <1>1, <1>5, <2>1
<1>9. \A i \in 0..n : r[i] \in Heaps(E)
  OBVIOUS
<1> QED
  BY <1>7, <1>8, <1>9 DEF n

\* The entries of a heap, the nearest first, each as often as it is in the heap.
LEMMA EmptiedIs ==
  ASSUME NEW E, \A e \in E : e.distance \in Int, NEW h \in Heaps(E)
  PROVE  /\ Emptied(h) \in Seq(E) /\ Len(Emptied(h)) = Len(h)
         /\ IsInjective(Emptied(h)) /\ Range(Emptied(h)) = Range(h)
         /\ \A i, j \in 1..Len(h) :
              i < j => Emptied(h)[i].distance <= Emptied(h)[j].distance
<1> DEFINE n == Len(h)
           Loop(q) == q = [i \in 0..n |-> IF i = 0 THEN h ELSE Pop(q[i - 1])]
           L == CHOOSE q : Loop(q)
           m == Emptied(h)
<1>1. n \in Nat /\ h \in Seq(E)
  BY LenProperties DEF Heaps
<1>2. Loop(L)
  <2>1. \E q : Loop(q)
    BY Popping
  <2> HIDE DEF Loop
  <2> QED
    BY <2>1
<1>3. m = [i \in 1..n |-> L[n - i][1]]
  BY DEF Emptied
<1>4. PICK r : Loop(r) /\ \A i \in 0..n : r[i] \in Heaps(E) /\ Len(r[i]) = n - i
  BY Popping
<1> HIDE DEF L, n, m
<1>5. \A t \in 0..n : L[t] = IF t = 0 THEN h ELSE Pop(L[t - 1])
  BY <1>2
<1>6. \A t \in 0..n : r[t] = IF t = 0 THEN h ELSE Pop(r[t - 1])
  BY <1>4
<1> HIDE DEF Loop
<1>7. \A t \in 0..n : L[t] = r[t]
  <2> DEFINE T == {t \in 0..n : L[t] # r[t]}
  <2> SUFFICES ASSUME T # {} PROVE FALSE
    OBVIOUS
  <2>3. PICK t \in T : \A k \in T : t <= k
    <3>1. T \subseteq Nat
      OBVIOUS
    <3> HIDE DEF T
    <3> QED
      BY <3>1, Least
  <2>4. t # 0
    BY <1>5, <1>6
  <2>5. t - 1 \in 0..n /\ t - 1 \notin T
    BY <1>1, <2>3, <2>4
  <2> QED
    BY <1>5, <1>6, <2>4, <2>5
<1> DEFINE R(t) == Range(r[t])
<1>8. \A t \in 0..n : /\ r[t] \in Seq(E) /\ Heap(r[t]) /\ IsInjective(r[t])
                      /\ Len(r[t]) = n - t
                      /\ R(t) = {r[t][k] : k \in 1..(n - t)}
  <2> SUFFICES ASSUME NEW t \in 0..n
               PROVE  /\ r[t] \in Seq(E) /\ Heap(r[t]) /\ IsInjective(r[t])
                      /\ Len(r[t]) = n - t
                      /\ R(t) = {r[t][k] : k \in 1..(n - t)}
    OBVIOUS
  <2>1. /\ r[t] \in Seq(E) /\ Heap(r[t]) /\ IsInjective(r[t])
        /\ Len(r[t]) = n - t
    BY <1>4 DEF Heaps
  <2>2. DOMAIN r[t] = 1..(n - t)
    BY <2>1, LenProperties
  <2> QED
    BY <2>1, <2>2 DEF Range
<1>9. ASSUME NEW t \in 0..n, t < n
      PROVE  /\ r[t][1] \in E /\ r[t][1] \in R(t)
             /\ \A e \in R(t) : e.distance <= r[t][1].distance
             /\ R(t + 1) = R(t) \ {r[t][1]}
  <2>1. /\ t + 1 \in 0..n /\ t + 1 # 0 /\ t + 1 - 1 = t
        /\ n - t \in Nat /\ n - t >= 1 /\ 1 \in 1..(n - t)
    BY <1>1, <1>9
  <2>2. r[t] \in Seq(E) /\ Len(r[t]) = n - t /\ r[t] # << >>
    BY <1>8, <2>1
  <2>3. r[t][1] \in E /\ r[t][1] \in R(t)
    BY <1>8, <2>1, <2>2, ElementOfSeq
  <2>4. \A k \in 1..(n - t) : r[t][k].distance <= r[t][1].distance
    BY <1>8, <2>2, TopFurthest
  <2>5. \A e \in R(t) : e.distance <= r[t][1].distance
    BY <1>8, <2>4
  <2>6. r[t + 1] = Pop(r[t])
    BY <1>6, <2>1
  <2>7. R(t + 1) = R(t) \ {r[t][1]}
    BY <1>8, <2>2, <2>6, PopIs
  <2> QED
    BY <2>3, <2>5, <2>7
<1>10. \A i, j \in 0..n : i <= j => R(j) \subseteq R(i)
  <2> SUFFICES ASSUME NEW i \in 0..n, NEW j \in 0..n, i <= j, ~(R(j) \subseteq R(i))
               PROVE  FALSE
    OBVIOUS
  <2> DEFINE T == {k \in i..n : ~(R(k) \subseteq R(i))}
  <2>1. PICK k \in T : \A l \in T : k <= l
    <3>1. T \subseteq Nat /\ T # {}
      BY <1>1
    <3> HIDE DEF T
    <3> QED
      BY <3>1, Least
  <2>2. k # i
    OBVIOUS
  <2>3. k - 1 \in i..n /\ k - 1 \in 0..n /\ k - 1 < n /\ k - 1 + 1 = k /\ ~(k <= k - 1)
    BY <1>1, <2>2
  <2>4. k - 1 \notin T
    BY <2>1, <2>3
  <2>5. R(k - 1) \subseteq R(i) /\ R(k) \subseteq R(k - 1)
    <3>1. R(k - 1) \subseteq R(i)
      BY <2>3, <2>4
    <3>2. R(k - 1 + 1) \subseteq R(k - 1)
      <4> HIDE DEF R
      <4> QED
        BY <1>9, <2>3
    <3> QED
      BY <2>3, <3>1, <3>2
  <2> QED
    BY <2>5
<1> HIDE DEF R
<1>11. ASSUME NEW i \in 0..n, NEW j \in 0..n, i < j, j < n
       PROVE  r[j][1] # r[i][1] /\ r[j][1].distance <= r[i][1].distance
  <2>1. i < n /\ i + 1 \in 0..n /\ i + 1 <= j /\ i <= j
    BY <1>1, <1>11
  <2>2. r[j][1] \in R(j)
    BY <1>9, <1>11
  <2>3. r[j][1] \in R(i + 1) /\ r[j][1] \in R(i)
    BY <1>10, <2>1, <2>2
  <2> QED
    BY <1>9, <2>1, <2>3
<1>12. ASSUME NEW e \in Range(h)
       PROVE  \E i \in 0..n : i < n /\ e = r[i][1]
  <2> DEFINE T == {t \in 0..n : e \notin R(t)}
  <2>1. n \in T
    <3>1. R(n) = {}
      BY <1>1, <1>8
    <3> QED
      BY <1>1, <3>1
  <2>2. PICK k \in T : \A l \in T : k <= l
    <3>1. T \subseteq Nat /\ T # {}
      BY <1>1, <2>1
    <3> HIDE DEF T
    <3> QED
      BY <3>1, Least
  <2>3. k # 0
    BY <1>1, <1>6 DEF R
  <2>4. k - 1 \in 0..n /\ k - 1 < n /\ k - 1 + 1 = k /\ ~(k <= k - 1)
    BY <1>1, <2>3
  <2>5. e \in R(k - 1) /\ e \notin R(k - 1 + 1)
    BY <2>2, <2>4
  <2> QED
    BY <1>9, <2>4, <2>5
<1>13. ASSUME NEW i \in 1..n
       PROVE  n - i \in 0..n /\ n - i < n /\ m[i] = r[n - i][1]
  <2>1. n - i \in 0..n /\ n - i < n
    BY <1>1
  <2> QED
    BY <1>3, <1>7, <2>1
<1>14. m \in Seq(E) /\ Len(m) = n /\ DOMAIN m = 1..n
  <2>1. \A i \in 1..n : m[i] \in E
    BY <1>9, <1>13
  <2>2. m \in [1..n -> E]
    BY <1>3, <2>1
  <2>3. m \in Seq(E)
    BY <1>1, <2>2, SeqDef
  <2> QED
    BY <1>1, <2>2, <2>3, LenProperties
<1>15. ASSUME NEW i \in 1..n, NEW j \in 1..n, i < j
       PROVE  m[i] # m[j] /\ m[i].distance <= m[j].distance
  <2>1. n - j < n - i
    BY <1>1, <1>15
  <2> QED
    BY <1>11, <1>13, <2>1
<1>16. IsInjective(m)
  <2> SUFFICES ASSUME NEW i \in 1..n, NEW j \in 1..n, m[i] = m[j] PROVE i = j
    BY <1>14 DEF IsInjective
  <2> QED
    BY <1>1, <1>15
<1>17. Range(m) = Range(h)
  <2>1. Range(m) = {m[i] : i \in 1..n}
    BY <1>14 DEF Range
  <2>2. \A i \in 1..n : m[i] \in Range(h)
    <3> SUFFICES ASSUME NEW i \in 1..n PROVE m[i] \in R(0)
      BY <1>1, <1>6 DEF R
    <3> QED
      BY <1>1, <1>9, <1>10, <1>13
  <2>3. \A e \in Range(h) : \E i \in 1..n : e = m[i]
    <3> SUFFICES ASSUME NEW e \in Range(h) PROVE \E i \in 1..n : e = m[i]
      OBVIOUS
    <3>1. PICK k \in 0..n : k < n /\ e = r[k][1]
      BY <1>12
    <3>2. n - k \in 1..n /\ n - (n - k) = k
      BY <1>1, <3>1
    <3> QED
      BY <1>13, <3>1, <3>2
  <2> QED
    BY <2>1, <2>2, <2>3
<1> QED
  BY <1>14, <1>15, <1>16, <1>17 DEF m, n

-------------------------------------------------------------------------------
\* n is m or hangs below it.
Under(m, n) == Len(m) <= Len(n) /\ SubSeq(n, 1, Len(m)) = m

\* A node is under itself and under the root.
LEMMA UnderSelf ==
  ASSUME NEW n \in Path
  PROVE  Under(n, n) /\ Under(Root, n) /\ (Under(n, Root) => n = Root)
<1>1. Len(n) \in Nat /\ SubSeq(n, 1, Len(n)) = n
  BY LenProperties, SubSeqFull DEF Path
<1>2. Root \in Path /\ Len(Root) = 0
  BY EmptySeq DEF Root, Path
<1>3. SubSeq(n, 1, 0) = Root
  <2>1. SubSeq(n, 1, 0) \in Path /\ Len(SubSeq(n, 1, 0)) = 0
    <3>1. 0 \in 0..Len(n)
      BY <1>1
    <3> QED
      BY <3>1, Prefix
  <2> QED
    BY <2>1, EmptySeq DEF Root, Path
<1>4. Len(n) = 0 => n = Root
  BY EmptySeq DEF Root, Path
<1> QED
  BY <1>1, <1>2, <1>3, <1>4 DEF Under

\* What is over a child is the child or over its parent.
LEMMA UnderOfChild ==
  ASSUME NEW m \in Path, NEW n \in Path, NEW i \in 0..3
  PROVE  Under(m, Child(n, i)) <=> m = Child(n, i) \/ Under(m, n)
<1> DEFINE c == Child(n, i)
<1>1. /\ Len(m) \in Nat /\ Len(n) \in Nat
      /\ c \in Path /\ Len(c) = Len(n) + 1
      /\ \A k \in 0..Len(n) : SubSeq(c, 1, k) = SubSeq(n, 1, k)
  BY LenProperties, Down DEF Path
<1>2. Under(c, c) /\ SubSeq(c, 1, Len(c)) = c
  BY <1>1, UnderSelf DEF Under
<1> HIDE DEF c
<1>3. CASE Len(m) <= Len(n)
  <2>1. SubSeq(c, 1, Len(m)) = SubSeq(n, 1, Len(m)) /\ m # c /\ Len(m) <= Len(c)
    BY <1>1, <1>3
  <2> QED
    BY <1>3, <2>1 DEF Under, c
<1>4. CASE ~(Len(m) <= Len(n))
  <2>1. Len(m) \in Nat /\ Len(n) \in Nat /\ Len(c) = Len(n) + 1
    BY <1>1
  <2>2. Under(m, c) => Len(m) <= Len(c)
    BY DEF Under
  <2>3. Under(m, c) => Len(m) = Len(c)
    BY <1>4, <2>1, <2>2
  <2> QED
    BY <1>2, <1>4, <2>3 DEF Under, c
<1> QED
  BY <1>3, <1>4

\* What hangs below a node hangs from one of its children.
LEMMA ChildOver ==
  ASSUME NEW m \in Path, NEW n \in Path
  PROVE  /\ Under(m, n) /\ n # m => \E i \in 0..3 : Under(Child(m, i), n)
         /\ \A i \in 0..3 : Under(Child(m, i), n) =>
              /\ Under(m, n) /\ n # m
              /\ \A j \in 0..3 : Under(Child(m, j), n) => j = i
<1>1. Len(m) \in Nat /\ Len(n) \in Nat
  BY LenProperties DEF Path
<1>4. SubSeq(n, 1, Len(n)) = n
  BY SubSeqFull DEF Path
<1>2. ASSUME NEW i \in 0..3, Under(Child(m, i), n)
      PROVE  Under(m, n) /\ n # m /\ n[Len(m) + 1] = i
  <2> DEFINE c == Child(m, i)
  <2>1. /\ c \in Path /\ Len(c) = Len(m) + 1 /\ c[Len(m) + 1] = i
        /\ SubSeq(c, 1, Len(m)) = m
    <3>1. Len(m) \in 0..Len(m)
      BY <1>1
    <3> QED
      BY <3>1, Down
  <2>2. Len(c) <= Len(n) /\ SubSeq(n, 1, Len(c)) = c
    BY <1>2 DEF Under
  <2> HIDE DEF c
  <2>3. Len(m) + 1 \in 0..Len(n) /\ Len(m) \in 0..(Len(m) + 1) /\ Len(m) + 1 \in 1..(Len(m) + 1)
    BY <1>1, <2>1, <2>2
  <2>4. SubSeq(n, 1, Len(m)) = m
    BY <2>1, <2>2, <2>3, PrefixOfPrefix
  <2>5. n[Len(m) + 1] = i
    BY <2>1, <2>2, <2>3, Prefix
  <2> QED
    <3>1. Len(m) <= Len(n) /\ n # m
      <4>1. Len(c) <= Len(n) /\ Len(c) = Len(m) + 1
        BY <2>1, <2>2
      <4> QED
        BY <1>1, <4>1
    <3> QED
      BY <2>4, <2>5, <3>1 DEF Under
<1>3. ASSUME Under(m, n), n # m
      PROVE  \E i \in 0..3 : Under(Child(m, i), n)
  <2>1. Len(m) <= Len(n) /\ SubSeq(n, 1, Len(m)) = m
    BY <1>3 DEF Under
  <2>2. Len(m) # Len(n) /\ Len(m) <= Len(n)
    BY <1>3, <1>4, <2>1
  <2>3. Len(m) + 1 \in 0..Len(n) /\ Len(m) + 1 \in 1..Len(n) /\ Len(m) \in 0..Len(n)
    BY <1>1, <2>2
  <2> DEFINE c == SubSeq(n, 1, Len(m) + 1)
             i == n[Len(m) + 1]
             d == Child(m, i)
  <2>4. i \in 0..3
    BY <2>3, ElementOfSeq DEF Path
  <2>5. /\ c \in Path /\ Len(c) = Len(m) + 1
        /\ \A j \in 1..(Len(m) + 1) : c[j] = n[j]
    BY <2>3, Prefix
  <2> HIDE DEF i
  <2>6. /\ d \in Path /\ Len(d) = Len(m) + 1 /\ d[Len(m) + 1] = i
        /\ \A j \in 1..Len(m) : d[j] = m[j]
    BY <2>4, Down
  <2>7. \A j \in 1..Len(m) : m[j] = n[j]
    BY <2>1, <2>3, Prefix
  <2> HIDE DEF c, d
  <2>8. c = d
    <3>1. ASSUME NEW j \in 1..(Len(m) + 1) PROVE c[j] = d[j]
      <4>1. CASE j = Len(m) + 1
        BY <2>5, <2>6, <4>1 DEF i
      <4>2. CASE j # Len(m) + 1
        <5>1. j \in 1..Len(m)
          BY <1>1, <4>2
        <5> QED
          BY <2>5, <2>6, <2>7, <5>1
      <4> QED
        BY <4>1, <4>2
    <3> QED
      BY <1>1, <2>5, <2>6, <3>1, SeqEqual DEF Path
  <2>9. Under(Child(m, i), n)
    BY <2>3, <2>6, <2>8 DEF Under, c, d
  <2> QED
    BY <2>4, <2>9
<1> QED
  BY <1>2, <1>3

\* With a node the tree has all it hangs from.
LEMMA Ancestors ==
  ASSUME NEW t, Tree(t)
  PROVE  \A n \in Path : n \in DOMAIN t => \A m \in Path : Under(m, n) => m \in DOMAIN t
<1> DEFINE P == [n \in Path |->
                   n \in DOMAIN t => \A m \in Path : Under(m, n) => m \in DOMAIN t]
<1>1. P \in [Path -> BOOLEAN]
  OBVIOUS
<1>2. P[Root]
  <2>1. Root \in Path
    BY EmptySeq DEF Root, Path
  <2> QED
    BY <2>1, UnderSelf
<1>3. ASSUME NEW n \in Path, NEW i \in 0..3, P[n] PROVE P[Child(n, i)]
  <2> SUFFICES ASSUME Child(n, i) \in DOMAIN t, NEW m \in Path, Under(m, Child(n, i))
               PROVE  m \in DOMAIN t
    BY Down
  <2>1. n \in DOMAIN t
    BY Down DEF Tree
  <2>2. \A q \in Path : Under(q, n) => q \in DOMAIN t
    BY <1>3, <2>1
  <2> QED
    BY <2>2, UnderOfChild
<1>4. \A n \in Path : P[n]
  <2> HIDE DEF P
  <2> QED
    BY <1>1, <1>2, <1>3, PathInduct
<1> QED
  BY <1>4

\* The box of a node is in the boxes of all it hangs from.
LEMMA CellUnder ==
  ASSUME NEW b, Proper(b), NEW x \in Int, NEW y \in Int
  PROVE  \A n \in Path : Inside(Cell(b, n), x, y) =>
           \A m \in Path : Under(m, n) => Inside(Cell(b, m), x, y)
<1> DEFINE P == [n \in Path |-> Inside(Cell(b, n), x, y) =>
                   \A m \in Path : Under(m, n) => Inside(Cell(b, m), x, y)]
<1>1. P \in [Path -> BOOLEAN]
  OBVIOUS
<1>2. P[Root]
  <2>1. Root \in Path
    BY EmptySeq DEF Root, Path
  <2> QED
    BY <2>1, UnderSelf
<1>3. ASSUME NEW n \in Path, NEW i \in 0..3, P[n] PROVE P[Child(n, i)]
  <2> SUFFICES ASSUME Inside(Cell(b, Child(n, i)), x, y),
                      NEW m \in Path, Under(m, Child(n, i))
               PROVE  Inside(Cell(b, m), x, y)
    BY Down
  <2>1. Proper(Cell(b, n))
    BY CellProper
  <2>2. Inside(Cell(b, n), x, y)
    BY <2>1, CellOfChild, Quarters
  <2>3. \A q \in Path : Under(q, n) => Inside(Cell(b, q), x, y)
    BY <1>3, <2>2
  <2> QED
    BY <2>3, UnderOfChild
<1>4. \A n \in Path : P[n]
  <2> HIDE DEF P
  <2> QED
    BY <1>1, <1>2, <1>3, PathInduct
<1> QED
  BY <1>4

-------------------------------------------------------------------------------
\* The visits a walk may have before it, each with the box of its node.
Tasks(t) == {[node |-> n, box |-> Cell(Region, n)] : n \in DOMAIN t}

\* The nodes a walk will come to if it leaves out no box; it comes to none twice.
Covers(t, s) == {n \in DOMAIN t : \E i \in 1..Len(s) : Under(s[i].node, n)}
Apart(t, s) ==
  \A i, j \in 1..Len(s), n \in DOMAIN t :
    Under(s[i].node, n) /\ Under(s[j].node, n) => i = j

\* The walks of two lists of calls that have no node in common.
LEMMA Joined ==
  ASSUME NEW t, NEW s \in Seq(Tasks(t)), NEW u \in Seq(Tasks(t)),
         Apart(t, s), Apart(t, u), Covers(t, s) \cap Covers(t, u) = {}
  PROVE  /\ s \o u \in Seq(Tasks(t)) /\ Apart(t, s \o u)
         /\ Covers(t, s \o u) = Covers(t, s) \cup Covers(t, u)
<1> DEFINE w == s \o u
           a == Len(s)
           b == Len(u)
<1>1. a \in Nat /\ b \in Nat
  BY LenProperties
<1>2. w \in Seq(Tasks(t)) /\ Len(w) = a + b
  BY ConcatProperties
<1>3. /\ \A i \in 1..a : w[i] = s[i]
      /\ \A i \in 1..b : w[a + i] = u[i]
  <2>1. \A i \in 1..(Len(s) + Len(u)) : w[i] = IF i <= Len(s) THEN s[i] ELSE u[i - Len(s)]
    BY ConcatProperties
  <2> HIDE DEF w
  <2>2. ASSUME NEW i \in 1..a PROVE w[i] = s[i]
    BY <1>1, <2>1
  <2>3. ASSUME NEW i \in 1..b PROVE w[a + i] = u[i]
    <3>1. a + i \in 1..(a + b) /\ ~(a + i <= a) /\ a + i - a = i
      BY <1>1
    <3> QED
      BY <2>1, <3>1
  <2> QED
    BY <2>2, <2>3
<1>4. ASSUME NEW i \in 1..(a + b)
      PROVE  i \in 1..a \/ \E k \in 1..b : i = a + k
  <2>1. i \in 1..a \/ (i - a \in 1..b /\ i = a + (i - a))
    BY <1>1
  <2> QED
    BY <2>1
<1>5. /\ \A i \in 1..a : i \in 1..(a + b)
      /\ \A i \in 1..b : a + i \in 1..(a + b)
  BY <1>1
<1> HIDE DEF w
<1>6. ASSUME NEW n \in DOMAIN t
      PROVE  n \in Covers(t, w) <=> n \in Covers(t, s) \cup Covers(t, u)
  <2>1. n \in Covers(t, w) <=> \E i \in 1..(a + b) : Under(w[i].node, n)
    BY <1>2 DEF Covers
  <2>2. n \in Covers(t, s) <=> \E i \in 1..a : Under(s[i].node, n)
    BY DEF Covers
  <2>3. n \in Covers(t, u) <=> \E i \in 1..b : Under(u[i].node, n)
    BY DEF Covers
  <2> HIDE DEF a, b
  <2>4. ASSUME NEW i \in 1..(a + b), Under(w[i].node, n)
        PROVE  n \in Covers(t, s) \cup Covers(t, u)
    BY <1>3, <1>4, <2>2, <2>3, <2>4
  <2>5. ASSUME NEW i \in 1..a, Under(s[i].node, n) PROVE n \in Covers(t, w)
    BY <1>3, <1>5, <2>1, <2>5
  <2>6. ASSUME NEW i \in 1..b, Under(u[i].node, n) PROVE n \in Covers(t, w)
    BY <1>3, <1>5, <2>1, <2>6
  <2> QED
    BY <2>1, <2>2, <2>3, <2>4, <2>5, <2>6
<1>7. Covers(t, w) = Covers(t, s) \cup Covers(t, u)
  <2>1. Covers(t, w) \cup Covers(t, s) \cup Covers(t, u) \subseteq DOMAIN t
    BY DEF Covers
  <2> QED
    BY <1>6, <2>1
<1>8. ASSUME NEW n \in DOMAIN t, NEW i \in 1..(a + b), NEW j \in 1..(a + b),
             Under(w[i].node, n), Under(w[j].node, n)
      PROVE  i = j
  <2>1. ASSUME NEW k \in 1..a, Under(w[k].node, n) PROVE n \in Covers(t, s)
    BY <1>3, <2>1 DEF Covers
  <2>2. ASSUME NEW k \in 1..b, Under(w[a + k].node, n) PROVE n \in Covers(t, u)
    BY <1>3, <2>2 DEF Covers
  <2> HIDE DEF a, b
  <2>3. CASE i \in 1..a /\ j \in 1..a
    <3>1. Under(s[i].node, n) /\ Under(s[j].node, n)
      BY <1>3, <1>8, <2>3
    <3> QED
      BY <2>3, <3>1 DEF Apart, a
  <2>4. CASE ~(i \in 1..a) /\ ~(j \in 1..a)
    <3>1. PICK k \in 1..b : i = a + k
      BY <1>4, <2>4
    <3>2. PICK l \in 1..b : j = a + l
      BY <1>4, <2>4
    <3>3. Under(u[k].node, n) /\ Under(u[l].node, n)
      BY <1>3, <1>8, <3>1, <3>2
    <3>4. k = l
      BY <3>3 DEF Apart, b
    <3> QED
      BY <3>1, <3>2, <3>4
  <2>5. CASE i \in 1..a <=> ~(j \in 1..a)
    <3>1. n \in Covers(t, s) /\ n \in Covers(t, u)
      BY <1>4, <1>8, <2>1, <2>2, <2>5
    <3> QED
      BY <3>1
  <2> QED
    BY <2>3, <2>4, <2>5
<1>9. Apart(t, w)
  BY <1>2, <1>8 DEF Apart
<1> QED
  BY <1>2, <1>7, <1>9 DEF w

\* The nodes that hang below a node, by way of its i-th child.
Branch(t, n, i) == {m \in DOMAIN t : Under(Child(n, i), m)}

\* One child, if it is there, is one call more.
LEMMA TurnIs ==
  ASSUME Tree(tree), NEW n \in DOMAIN tree, NEW i \in 0..3
  PROVE  LET s == Turn(n, Cell(Region, n), i) IN
         /\ s \in Seq(Tasks(tree)) /\ Apart(tree, s)
         /\ Covers(tree, s) = Branch(tree, n, i)
<1> DEFINE c == Child(n, i)
           s == Turn(n, Cell(Region, n), i)
<1>1. n \in Path /\ c \in Path /\ DOMAIN tree \subseteq Path
  BY Nodes, Down DEF Tree
<1>2. CASE c \in DOMAIN tree
  <2> DEFINE e == [node |-> c, box |-> Cell(Region, c)]
  <2>1. s = <<e>>
    BY <1>1, <1>2, CellOfChild DEF Turn, Children
  <2>2. e \in Tasks(tree) /\ e.node = c
    BY <1>2 DEF Tasks
  <2> HIDE DEF e, c
  <2>3. s \in Seq(Tasks(tree)) /\ Len(s) = 1 /\ s[1].node = c
    BY <2>1, <2>2
  <2> HIDE DEF s
  <2>4. Apart(tree, s)
    BY <2>3 DEF Apart
  <2>5. Covers(tree, s) = Branch(tree, n, i)
    BY <2>3 DEF Covers, Branch, c
  <2> QED
    BY <2>3, <2>4, <2>5 DEF s
<1>3. CASE c \notin DOMAIN tree
  <2>1. s = << >>
    BY <1>3 DEF Turn, Children
  <2>2. s \in Seq(Tasks(tree)) /\ Len(s) = 0
    BY <2>1, EmptySeq
  <2>3. Apart(tree, s) /\ Covers(tree, s) = {}
    BY <2>2 DEF Apart, Covers
  <2>4. Branch(tree, n, i) = {}
    BY <1>1, <1>3, Ancestors DEF Branch
  <2> QED
    BY <2>2, <2>3, <2>4
<1> QED
  BY <1>2, <1>3

\* After a node a walk comes to all that hangs below it.
LEMMA OnwardIs ==
  ASSUME Tree(tree), NEW n \in DOMAIN tree
  PROVE  LET s == Onward(n, Cell(Region, n)) IN
         /\ s \in Seq(Tasks(tree)) /\ Apart(tree, s)
         /\ Covers(tree, s) = {m \in DOMAIN tree : Under(n, m) /\ m # n}
<1> DEFINE q == QuarterOf(Cell(Region, n), query.at.x, query.at.y)
           u(j) == Turn(n, Cell(Region, n), (q + j) % 4)
           B(j) == Branch(tree, n, (q + j) % 4)
           s == Onward(n, Cell(Region, n))
<1>1. q \in 0..3
  BY DEF QuarterOf
<1>2. s = u(0) \o u(1) \o u(2) \o u(3)
  BY DEF Onward
<1> HIDE DEF s, q
<1>3. /\ \A j \in 0..3 : (q + j) % 4 \in 0..3
      /\ \A i \in 0..3 : \E j \in 0..3 : i = (q + j) % 4
      /\ \A i, j \in 0..3 : i # j => (q + i) % 4 # (q + j) % 4
  BY <1>1
<1>4. n \in Path /\ DOMAIN tree \subseteq Path
  BY Nodes DEF Tree
<1>5. \A j \in 0..3 : /\ u(j) \in Seq(Tasks(tree)) /\ Apart(tree, u(j))
                      /\ Covers(tree, u(j)) = B(j)
  BY <1>3, TurnIs
<1>6. \A i, j \in 0..3 : i # j => B(i) \cap B(j) = {}
  <2> SUFFICES ASSUME NEW i \in 0..3, NEW j \in 0..3, i # j, NEW m \in B(i), m \in B(j)
               PROVE  FALSE
    OBVIOUS
  <2> DEFINE a == (q + i) % 4
             b == (q + j) % 4
  <2>1. a \in 0..3 /\ b \in 0..3 /\ a # b
    BY <1>3
  <2>2. m \in Path /\ Under(Child(n, a), m) /\ Under(Child(n, b), m)
    BY <1>4 DEF Branch
  <2> HIDE DEF a, b
  <2> QED
    BY <1>4, <2>1, <2>2, ChildOver
<1>7. B(0) \cup B(1) \cup B(2) \cup B(3) = {m \in DOMAIN tree : Under(n, m) /\ m # n}
  <2>1. ASSUME NEW m \in DOMAIN tree, Under(n, m), m # n
        PROVE  m \in B(0) \cup B(1) \cup B(2) \cup B(3)
    <3>1. PICK i \in 0..3 : Under(Child(n, i), m)
      BY <1>4, <2>1, ChildOver
    <3>2. PICK j \in 0..3 : i = (q + j) % 4
      BY <1>3
    <3>3. m \in B(j)
      BY <3>1, <3>2 DEF Branch
    <3>4. j = 0 \/ j = 1 \/ j = 2 \/ j = 3
      OBVIOUS
    <3> HIDE DEF B
    <3> QED
      BY <3>3, <3>4
  <2>2. ASSUME NEW j \in 0..3, NEW m \in B(j)
        PROVE  m \in DOMAIN tree /\ Under(n, m) /\ m # n
    <3> DEFINE a == (q + j) % 4
    <3>1. a \in 0..3 /\ m \in DOMAIN tree /\ Under(Child(n, a), m)
      BY <1>3 DEF Branch
    <3> HIDE DEF a
    <3> QED
      BY <1>4, <3>1, ChildOver
  <2> HIDE DEF B
  <2>3. 0 \in 0..3 /\ 1 \in 0..3 /\ 2 \in 0..3 /\ 3 \in 0..3
    OBVIOUS
  <2> QED
    BY <2>1, <2>2, <2>3
<1> HIDE DEF u, B
<1> DEFINE s1 == u(0) \o u(1)
           s2 == s1 \o u(2)
<1>8. /\ s1 \in Seq(Tasks(tree)) /\ Apart(tree, s1)
      /\ Covers(tree, s1) = B(0) \cup B(1)
  <2>1. 0 \in 0..3 /\ 1 \in 0..3 /\ B(0) \cap B(1) = {}
    BY <1>6
  <2> QED
    BY <1>5, <2>1, Joined
<1>9. s = s2 \o u(3)
  BY <1>2
<1> HIDE DEF s1
<1>10. /\ s2 \in Seq(Tasks(tree)) /\ Apart(tree, s2)
       /\ Covers(tree, s2) = B(0) \cup B(1) \cup B(2)
  <2>1. 2 \in 0..3 /\ (B(0) \cup B(1)) \cap B(2) = {}
    BY <1>6
  <2> QED
    BY <1>5, <1>8, <2>1, Joined
<1> HIDE DEF s2
<1>11. /\ s \in Seq(Tasks(tree)) /\ Apart(tree, s)
       /\ Covers(tree, s) = B(0) \cup B(1) \cup B(2) \cup B(3)
  <2>1. 3 \in 0..3 /\ (B(0) \cup B(1) \cup B(2)) \cap B(3) = {}
    BY <1>6
  <2> QED
    BY <1>5, <1>9, <1>10, <2>1, Joined
<1> QED
  BY <1>7, <1>11 DEF s

\* The first visit of a walk is over.
LEMMA TailIs ==
  ASSUME NEW t, NEW s \in Seq(Tasks(t)), s # << >>, Apart(t, s)
  PROVE  /\ Tail(s) \in Seq(Tasks(t)) /\ Apart(t, Tail(s))
         /\ Head(s) \in Tasks(t)
         /\ Covers(t, s) = Covers(t, Tail(s)) \cup {n \in DOMAIN t : Under(Head(s).node, n)}
         /\ \A n \in Covers(t, Tail(s)) : ~Under(Head(s).node, n)
<1>1. /\ Len(s) \in Nat \ {0} /\ Head(s) = s[1] /\ Head(s) \in Tasks(t)
      /\ Tail(s) \in Seq(Tasks(t)) /\ Len(Tail(s)) = Len(s) - 1
      /\ \A i \in 1..(Len(s) - 1) : Tail(s)[i] = s[i + 1]
  BY EmptySeq, HeadTailProperties, LenProperties, ElementOfSeq
<1> DEFINE l == Len(s)
           w == Tail(s)
<1> HIDE DEF l, w
<1>2. l \in Nat \ {0} /\ Len(w) = l - 1 /\ \A i \in 1..(l - 1) : w[i] = s[i + 1]
  BY <1>1 DEF l, w
<1>3. /\ \A i \in 1..(l - 1) : i + 1 \in 1..l /\ i + 1 # 1
      /\ \A i \in 1..l : i = 1 \/ \E j \in 1..(l - 1) : i = j + 1
      /\ 1 \in 1..l
  <2>1. /\ \A i \in 1..(l - 1) : i + 1 \in 1..l /\ i + 1 # 1
        /\ \A i \in 1..l : i = 1 \/ (i - 1 \in 1..(l - 1) /\ i = i - 1 + 1)
        /\ 1 \in 1..l
    BY <1>2
  <2> QED
    BY <2>1
<1>4. /\ \A n : n \in Covers(t, w) <=>
               n \in DOMAIN t /\ \E i \in 1..(l - 1) : Under(s[i + 1].node, n)
      /\ \A n : n \in Covers(t, s) <=> n \in DOMAIN t /\ \E i \in 1..l : Under(s[i].node, n)
  BY <1>2 DEF Covers, l
<1>5. \A i, j \in 1..l, n \in DOMAIN t :
         Under(s[i].node, n) /\ Under(s[j].node, n) => i = j
  BY DEF Apart, l
<1>6. Apart(t, w)
  <2> SUFFICES ASSUME NEW i \in 1..(l - 1), NEW j \in 1..(l - 1), NEW n \in DOMAIN t,
                      Under(s[i + 1].node, n), Under(s[j + 1].node, n)
               PROVE  i = j
    BY <1>2 DEF Apart
  <2>1. i + 1 = j + 1
    BY <1>3, <1>5
  <2> QED
    BY <2>1
<1>7. Covers(t, s) = Covers(t, w) \cup {n \in DOMAIN t : Under(s[1].node, n)}
  BY <1>3, <1>4
<1>8. \A n \in Covers(t, w) : ~Under(s[1].node, n)
  BY <1>3, <1>4, <1>5
<1> QED
  BY <1>1, <1>6, <1>7, <1>8 DEF w

-------------------------------------------------------------------------------
\* The entries a walk may find, the nodes of those it has found, and what the
\* call asks for.
Entries == {Entry(n) : n \in Candidates}
Taken == {e.node : e \in Range(found)}
Asked(n) ==
  IF query.op = "inbound" THEN Inside(query.box, X[tree[n]], Y[tree[n]])
  ELSE Within(Away(tree[n], query.at), query.limit)
Eligible == {n \in Candidates : Asked(n)}

\* What the bound leaves out.
Beyond(n) == ring # NoLimit /\ ring <= Away(tree[n], query.at)

QueryOK ==
  /\ query.at \in [x : Int, y : Int] /\ query.accepts \in SUBSET Item
  /\ query.k \in Nat /\ query.limit \in Nat \cup {NoLimit}
  /\ query.box \in [left : Int, right : Int, bottom : Int, top : Int]

Idle ==
  phase = "idle" =>
    /\ query = NoQuery /\ pending = << >> /\ found = << >> /\ answer = << >>
    /\ reach = NoLimit /\ ring = NoLimit

PendingOK == pending \in Seq(Tasks(tree)) /\ Apart(tree, pending)

FoundOK ==
  /\ found \in Seq(Entries) /\ IsInjective(found)
  /\ Taken \subseteq Eligible
  /\ Taken \cap Covers(tree, pending) = {}

\* What the walk has come past is found or beyond its bound.
Judged == \A n \in Eligible \ Covers(tree, pending) : n \in Taken \/ Beyond(n)

\* The bound is the furthest value found, once there are as many as asked for.
RingOK ==
  IF ring = NoLimit
  THEN reach = query.limit /\ (query.op # "inbound" => query.box = Region)
  ELSE /\ query.op # "inbound" /\ found # << >>
       /\ ring = found[1].distance /\ reach = ring
       /\ query.op = "nearest" => Len(found) = query.k

OpOK ==
  \/ query.op = "inbound"
  \/ /\ query.op \in {"find", "remove"} /\ query.limit = NoLimit
     /\ found = << >> \/ (Len(found) = 1 /\ ring # NoLimit)
  \/ query.op = "nearest" /\ Heap(found) /\ Len(found) <= query.k

Walk == phase = "visiting" => PendingOK /\ FoundOK /\ Judged /\ RingOK /\ OpOK

SearchInv == Sound /\ QueryOK /\ Idle /\ Walk /\ FindsClosest /\ AllInBound /\ ClosestK

\* A square is not negative, and the further of two numbers has the larger one.
LEMMA Squares ==
  /\ \A a \in Int : a * a \in Nat
  /\ \A a, b \in Int : 0 < b /\ b <= a => b * b <= a * a
OBVIOUS

\* A distance is a number that is not negative.
LEMMA AwayIs ==
  ASSUME NEW v \in Item, NEW p \in [x : Int, y : Int]
  PROVE  Away(v, p) \in Nat
<1>1. X[v] - p.x \in Int /\ Y[v] - p.y \in Int
  BY CoordinatesAssumption
<1>2. \A a, b \in Nat : a + b \in Nat
  OBVIOUS
<1> QED
  BY <1>1, <1>2, Squares DEF Away

\* A value the call asks for, and where it is.
LEMMA CandidateIs ==
  ASSUME Sound, QueryOK, NEW n \in Candidates
  PROVE  /\ n \in DOMAIN tree /\ n \in Path /\ n \in Filled(tree)
         /\ tree[n] \in Item /\ tree[n] \in query.accepts
         /\ X[tree[n]] \in Int /\ Y[tree[n]] \in Int
         /\ Away(tree[n], query.at) \in Nat
         /\ Proper(Region)
         /\ \A m \in Path : Under(m, n) => Inside(Cell(Region, m), X[tree[n]], Y[tree[n]])
<1>1. bound = Region /\ Tree(tree) /\ BoundHolds /\ InCell
  BY SoundIs
<1>2. /\ n \in DOMAIN tree /\ n \in Filled(tree) /\ tree[n] # Nil
      /\ tree[n] \in query.accepts
  BY DEF Candidates, Filled
<1>3. n \in Path /\ tree[n] \in Item
  BY <1>1, <1>2, Nodes DEF Tree
<1>4. X[tree[n]] \in Int /\ Y[tree[n]] \in Int
  BY <1>3, CoordinatesAssumption
<1>5. Away(tree[n], query.at) \in Nat
  BY <1>3, AwayIs DEF QueryOK
<1>6. Proper(Region)
  BY <1>1, <1>2, RegionAssumption DEF BoundHolds, Proper
<1>7. Inside(Cell(Region, n), X[tree[n]], Y[tree[n]])
  BY <1>1, <1>2 DEF InCell
<1>8. \A m \in Path : Under(m, n) => Inside(Cell(Region, m), X[tree[n]], Y[tree[n]])
  BY <1>3, <1>4, <1>6, <1>7, CellUnder
<1> QED
  BY <1>2, <1>3, <1>4, <1>5, <1>6, <1>8

\* What an entry says of its node.
LEMMA EntryIs ==
  ASSUME Sound, QueryOK
  PROVE  /\ \A e \in Entries : /\ e.node \in Candidates /\ e = Entry(e.node)
                              /\ e.distance = Away(tree[e.node], query.at)
                              /\ e.distance \in Nat
         /\ \A n \in Candidates : Entry(n) \in Entries /\ Entry(n).node = n
<1>1. \A n : Entry(n).node = n /\ Entry(n).distance = Away(tree[n], query.at)
  BY DEF Entry
<1>2. \A n \in Candidates : Entry(n) \in Entries
  BY DEF Entries
<1>3. ASSUME NEW e \in Entries
      PROVE  /\ e.node \in Candidates /\ e = Entry(e.node)
             /\ e.distance = Away(tree[e.node], query.at) /\ e.distance \in Nat
  <2>1. PICK n \in Candidates : e = Entry(n)
    BY DEF Entries
  <2> QED
    BY <1>1, <2>1, CandidateIs
<1> QED
  BY <1>1, <1>2, <1>3

\* The test of a visit leaves out only boxes whose points are not asked for.
LEMMA OutsideIs ==
  ASSUME QueryOK, NEW box \in [left : Int, right : Int, bottom : Int, top : Int],
         NEW x \in Int, NEW y \in Int, Inside(box, x, y), Outside(box)
  PROVE  /\ ring = NoLimit => ~Inside(query.box, x, y)
         /\ ring \in Nat =>
              ring <= (x - query.at.x) * (x - query.at.x) + (y - query.at.y) * (y - query.at.y)
<1> DEFINE px == query.at.x
           py == query.at.y
           qb == query.box
<1>1. /\ px \in Int /\ py \in Int
      /\ qb.left \in Int /\ qb.right \in Int /\ qb.bottom \in Int /\ qb.top \in Int
  BY DEF QueryOK
<1>2. /\ box.left \in Int /\ box.right \in Int /\ box.bottom \in Int /\ box.top \in Int
      /\ box.left <= x /\ x <= box.right /\ box.bottom <= y /\ y <= box.top
  BY DEF Inside
<1>3. CASE ring = NoLimit
  <2>1. \/ box.left > qb.right \/ box.right < qb.left
        \/ box.bottom > qb.top \/ box.top < qb.bottom
    BY <1>3 DEF Outside
  <2> HIDE DEF qb
  <2>2. ~(qb.left <= x /\ x <= qb.right /\ qb.bottom <= y /\ y <= qb.top)
    BY <1>1, <1>2, <2>1
  <2>3. ~Inside(query.box, x, y)
    BY <2>2 DEF Inside, qb
  <2> QED
    BY <1>3, <2>3 DEF NoLimit
<1>4. CASE ring \in Nat
  <2>1. PICK gap \in {box.left - px, px - box.right, box.bottom - py, py - box.top} :
          gap > 0 /\ gap * gap > ring
    BY <1>4 DEF Outside, NoLimit
  <2> HIDE DEF px, py
  <2> DEFINE dx == x - px
             dy == y - py
             ex == px - x
             ey == py - y
  <2>2. gap \in Int /\ dx \in Int /\ dy \in Int /\ ex \in Int /\ ey \in Int
    BY <1>1, <1>2, <2>1
  <2>3. gap <= dx \/ gap <= ex \/ gap <= dy \/ gap <= ey
    BY <1>1, <1>2, <2>1, <2>2
  <2>4. dx * dx = ex * ex /\ dy * dy = ey * ey
    BY <1>1
  <2> HIDE DEF dx, dy, ex, ey
  <2>5. dx * dx \in Nat /\ dy * dy \in Nat
    BY <2>2, Squares
  <2>6. gap * gap <= dx * dx \/ gap * gap <= dy * dy
    BY <2>1, <2>2, <2>3, <2>4, Squares
  <2>7. gap * gap \in Int
    BY <2>2
  <2>8. ring <= dx * dx + dy * dy
    BY <1>4, <2>1, <2>5, <2>6, <2>7
  <2> QED
    BY <1>4, <2>8 DEF NoLimit, dx, dy, px, py
<1> QED
  BY <1>3, <1>4

\* The bound's radius is the distance of the first entry found.
LEMMA RingIs ==
  ASSUME Sound, QueryOK, RingOK, FoundOK, ring # NoLimit
  PROVE  /\ ring \in Nat /\ found[1] \in Entries /\ found[1] \in Range(found)
         /\ ring = found[1].distance /\ reach = ring
<1>1. found # << >> /\ ring = found[1].distance /\ found \in Seq(Entries) /\ reach = ring
  BY DEF RingOK, FoundOK
<1>2. 1 \in 1..Len(found) /\ 1 \in DOMAIN found
  BY <1>1, EmptySeq, LenProperties
<1>3. found[1] \in Entries /\ found[1] \in Range(found)
  BY <1>1, <1>2, ElementOfSeq DEF Range
<1> QED
  BY <1>1, <1>3, EntryIs

\* What is below a node whose box is left out is not asked for, or beyond.
LEMMA LeftOut ==
  ASSUME Sound, QueryOK, RingOK, FoundOK, NEW h \in DOMAIN tree, Outside(Cell(Region, h)),
         NEW n \in Eligible, Under(h, n)
  PROVE  Beyond(n)
<1> DEFINE x == X[tree[n]]
           y == Y[tree[n]]
           box == Cell(Region, h)
<1>1. h \in Path
  BY SoundIs, Nodes DEF Tree
<1>2. n \in Candidates /\ Asked(n)
  BY DEF Eligible
<1>3. /\ n \in Path /\ x \in Int /\ y \in Int /\ Proper(Region)
      /\ \A m \in Path : Under(m, n) => Inside(Cell(Region, m), x, y)
  BY <1>2, CandidateIs
<1>4. Inside(box, x, y) /\ box \in [left : Int, right : Int, bottom : Int, top : Int]
  BY <1>1, <1>3, CellProper DEF Proper
<1>5. Inside(Region, x, y)
  <2>1. Root \in Path /\ Under(Root, n)
    BY <1>3, UnderSelf, EmptySeq DEF Root, Path
  <2> QED
    BY <1>3, <2>1, CellOfRoot
<1> HIDE DEF box
<1>6. ring = NoLimit => ~Inside(query.box, x, y)
  BY <1>3, <1>4, OutsideIs DEF box
<1>7. ring \in Nat => ring <= Away(tree[n], query.at)
  BY <1>3, <1>4, OutsideIs DEF box, Away
<1>8. CASE ring = NoLimit
  <2>1. query.op = "inbound" => Inside(query.box, x, y)
    BY <1>2 DEF Asked
  <2>2. query.op # "inbound" => query.box = Region
    BY <1>8 DEF RingOK
  <2> QED
    BY <1>5, <1>6, <1>8, <2>1, <2>2
<1>9. CASE ring # NoLimit
  BY <1>7, <1>9, RingIs DEF Beyond
<1> QED
  BY <1>8, <1>9

\* A box that is left out takes nothing with it that is asked for.
LEMMA PruneWalk ==
  ASSUME Sound, QueryOK, Walk, Prune
  PROVE  Walk'
<1>1. /\ PendingOK /\ FoundOK /\ Judged /\ RingOK /\ OpOK
      /\ pending # << >> /\ Outside(Head(pending).box)
      /\ pending' = Tail(pending)
      /\ UNCHANGED <<bound, tree, phase, query, found, reach, ring, answer>>
  BY DEF Walk, Prune
<1> DEFINE h == Head(pending).node
           under == {n \in DOMAIN tree : Under(h, n)}
<1>2. /\ Tail(pending) \in Seq(Tasks(tree)) /\ Apart(tree, Tail(pending))
      /\ Head(pending) \in Tasks(tree)
      /\ Covers(tree, pending) = Covers(tree, Tail(pending)) \cup under
  BY <1>1, TailIs DEF PendingOK
<1>3. h \in DOMAIN tree /\ Outside(Cell(Region, h))
  BY <1>1, <1>2 DEF Tasks
<1>4. /\ Candidates' = Candidates /\ Eligible' = Eligible /\ Entries' = Entries
      /\ Taken' = Taken /\ \A n : Beyond(n)' = Beyond(n)
  BY <1>1 DEF Candidates, Eligible, Entries, Entry, Taken, Asked, Beyond
<1>5. PendingOK'
  BY <1>1, <1>2 DEF PendingOK
<1>6. FoundOK'
  BY <1>1, <1>2, <1>4 DEF FoundOK
<1>7. Judged'
  <2> SUFFICES ASSUME NEW n \in Eligible, n \notin Covers(tree, Tail(pending))
               PROVE  n \in Taken \/ Beyond(n)
    BY <1>1, <1>4 DEF Judged
  <2>1. CASE n \notin Covers(tree, pending)
    BY <1>1, <2>1 DEF Judged
  <2>2. CASE n \in under
    BY <1>1, <1>3, <2>2, LeftOut
  <2> QED
    BY <1>2, <2>1, <2>2
<1>8. RingOK' /\ OpOK'
  BY <1>1 DEF RingOK, OpOK
<1> QED
  BY <1>5, <1>6, <1>7, <1>8 DEF Walk

\* A visit of a node takes it from the nodes to come.
LEMMA VisitOnward ==
  ASSUME Sound, PendingOK, pending # << >>
  PROVE  LET n == Head(pending).node
             s == Onward(n, Head(pending).box) \o Tail(pending)
         IN  /\ n \in DOMAIN tree /\ n \in Covers(tree, pending)
             /\ s \in Seq(Tasks(tree)) /\ Apart(tree, s)
             /\ Covers(tree, s) = Covers(tree, pending) \ {n}
<1> DEFINE n == Head(pending).node
           o == Onward(n, Head(pending).box)
           w == Tail(pending)
<1>1. Tree(tree) /\ DOMAIN tree \subseteq Path
  BY SoundIs, Nodes DEF Tree
<1>2. /\ w \in Seq(Tasks(tree)) /\ Apart(tree, w)
      /\ Head(pending) \in Tasks(tree)
      /\ Covers(tree, pending) = Covers(tree, w) \cup {m \in DOMAIN tree : Under(n, m)}
      /\ \A m \in Covers(tree, w) : ~Under(n, m)
  BY TailIs DEF PendingOK
<1>3. n \in DOMAIN tree /\ Head(pending).box = Cell(Region, n)
  BY <1>2 DEF Tasks
<1>4. /\ o \in Seq(Tasks(tree)) /\ Apart(tree, o)
      /\ Covers(tree, o) = {m \in DOMAIN tree : Under(n, m) /\ m # n}
  BY <1>1, <1>3, OnwardIs
<1>5. Under(n, n)
  BY <1>1, <1>3, UnderSelf
<1> HIDE DEF o, w, n
<1>6. Covers(tree, o) \cap Covers(tree, w) = {}
  BY <1>2, <1>4
<1>7. /\ o \o w \in Seq(Tasks(tree)) /\ Apart(tree, o \o w)
      /\ Covers(tree, o \o w) = Covers(tree, o) \cup Covers(tree, w)
  BY <1>2, <1>4, <1>6, Joined
<1>8. Covers(tree, o) \cup Covers(tree, w) = Covers(tree, pending) \ {n}
  BY <1>2, <1>4, <1>5
<1>9. n \in Covers(tree, pending)
  BY <1>2, <1>3, <1>5
<1> QED
  BY <1>3, <1>7, <1>8, <1>9 DEF o, w, n

\* A node whose value is not taken has none that is asked for.
LEMMA SkipWalk ==
  ASSUME Sound, QueryOK, FoundOK, Judged, RingOK, OpOK,
         NEW n \in DOMAIN tree, Skip(n), UNCHANGED <<bound, tree, query, answer>>,
         Covers(tree, pending') = Covers(tree, pending) \ {n}
  PROVE  FoundOK' /\ Judged' /\ RingOK' /\ OpOK'
<1>1. ~Takes(n) /\ UNCHANGED <<tree, query, found, reach, ring>>
  BY DEF Skip
<1>2. /\ Candidates' = Candidates /\ Eligible' = Eligible /\ Entries' = Entries
      /\ Taken' = Taken /\ \A m : Beyond(m)' = Beyond(m)
  BY <1>1 DEF Candidates, Eligible, Entries, Entry, Taken, Asked, Beyond
<1>3. FoundOK'
  BY <1>1, <1>2 DEF FoundOK
<1>4. ASSUME n \in Eligible PROVE Beyond(n)
  <2>1. n \in Candidates /\ Asked(n)
    BY <1>4 DEF Eligible
  <2>2. n \in Filled(tree) /\ tree[n] \in query.accepts /\ Away(tree[n], query.at) \in Nat
    BY <2>1, CandidateIs
  <2>3. CASE query.op = "inbound"
    BY <1>1, <2>1, <2>2, <2>3 DEF Takes, Asked
  <2>4. CASE query.op # "inbound"
    <3>1. ~Within(Away(tree[n], query.at), reach)
      BY <1>1, <2>2, <2>4 DEF Takes, Entry
    <3>2. Within(Away(tree[n], query.at), query.limit)
      BY <2>1, <2>4 DEF Asked
    <3>3. ring # NoLimit /\ reach = ring
      BY <3>1, <3>2 DEF RingOK
    <3>4. ring \in Nat
      BY <3>3, RingIs
    <3> QED
      BY <2>2, <3>1, <3>3, <3>4 DEF Within, Beyond
  <2> QED
    BY <2>3, <2>4
<1>5. Judged'
  <2> SUFFICES ASSUME NEW m \in Eligible, m \notin Covers(tree, pending) \/ m = n
               PROVE  m \in Taken \/ Beyond(m)
    BY <1>1, <1>2 DEF Judged
  <2> QED
    BY <1>4 DEF Judged
<1>6. RingOK' /\ OpOK'
  BY <1>1 DEF RingOK, OpOK
<1> QED
  BY <1>3, <1>5, <1>6

\* What a visitor takes is what the call asks for.
LEMMA TakesIs ==
  ASSUME Sound, QueryOK, FoundOK, RingOK, OpOK, NEW n \in DOMAIN tree, Takes(n)
  PROVE  /\ n \in Eligible /\ Entry(n) \in Entries /\ Entry(n).node = n
         /\ Entry(n).distance = Away(tree[n], query.at) /\ Entry(n).distance \in Nat
         /\ query.op # "inbound" /\ ring # NoLimit => Entry(n).distance < ring
<1>1. n \in Candidates
  BY DEF Takes, Candidates
<1>2. /\ Entry(n) \in Entries /\ Entry(n).node = n
      /\ Entry(n).distance = Away(tree[n], query.at) /\ Entry(n).distance \in Nat
  BY <1>1, EntryIs
<1>3. CASE query.op = "inbound"
  BY <1>1, <1>2, <1>3 DEF Takes, Eligible, Asked
<1>4. CASE query.op # "inbound"
  <2>1. Within(Entry(n).distance, reach)
    BY <1>4 DEF Takes
  <2>2. CASE ring = NoLimit
    <3>1. reach = query.limit
      BY <2>2 DEF RingOK
    <3> QED
      BY <1>1, <1>2, <1>4, <2>1, <2>2, <3>1 DEF Eligible, Asked
  <2>3. CASE ring # NoLimit
    <3>1. ring \in Nat /\ reach = ring /\ ring = found[1].distance
          /\ found[1] \in Range(found) /\ found[1] \in Entries
      BY <2>3, RingIs
    <3>2. Entry(n).distance < ring
      BY <2>1, <2>3, <3>1 DEF Within
    <3>3. found[1].node \in Eligible /\ Away(tree[found[1].node], query.at) = ring
      BY <3>1, EntryIs DEF FoundOK, Taken
    <3>4. Within(ring, query.limit)
      BY <1>4, <3>3 DEF Eligible, Asked
    <3>5. query.limit \in Nat \cup {NoLimit}
      BY DEF QueryOK
    <3>6. Within(Entry(n).distance, query.limit)
      BY <1>2, <3>1, <3>2, <3>4, <3>5 DEF Within
    <3> QED
      BY <1>1, <1>2, <1>4, <3>2, <3>6 DEF Eligible, Asked
  <2> QED
    BY <2>2, <2>3
<1> QED
  BY <1>3, <1>4

\* findVisitor takes a closer value.
LEMMA ClosestWalk ==
  ASSUME Sound, QueryOK, FoundOK, Judged, RingOK, OpOK,
         NEW n \in DOMAIN tree, TakeClosest(n), UNCHANGED <<bound, tree, query, answer>>,
         Covers(tree, pending') = Covers(tree, pending) \ {n}
  PROVE  FoundOK' /\ Judged' /\ RingOK' /\ OpOK'
<1> DEFINE e == Entry(n)
<1>1. /\ query.op \in {"find", "remove"} /\ query.op # "inbound" /\ query.op # "nearest"
      /\ Takes(n) /\ found' = <<e>> /\ reach' = e.distance /\ ring' = e.distance
      /\ UNCHANGED <<tree, query>>
  BY DEF TakeClosest
<1>2. /\ n \in Eligible /\ e \in Entries /\ e.node = n
      /\ e.distance = Away(tree[n], query.at) /\ e.distance \in Nat
      /\ ring # NoLimit => e.distance < ring
  BY <1>1, TakesIs
<1>3. /\ Candidates' = Candidates /\ Eligible' = Eligible /\ Entries' = Entries
  BY <1>1 DEF Candidates, Eligible, Entries, Entry, Asked
<1> HIDE DEF e
<1>4. /\ found' \in Seq(Entries) /\ Len(found') = 1 /\ found'[1] = e /\ found' # << >>
      /\ DOMAIN found' = {1}
  BY <1>1, <1>2
<1>5. Taken' = {n} /\ IsInjective(found')
  <2>1. Range(found') = {e}
    BY <1>4 DEF Range
  <2>2. IsInjective(found')
    BY <1>4 DEF IsInjective
  <2> QED
    BY <1>2, <2>1, <2>2 DEF Taken
<1>6. FoundOK'
  BY <1>1, <1>2, <1>3, <1>4, <1>5 DEF FoundOK
<1>7. e.distance # NoLimit
  BY <1>2 DEF NoLimit
<1>8. Judged'
  <2> SUFFICES ASSUME NEW m \in Eligible, m \notin Covers(tree, pending), m # n
               PROVE  e.distance <= Away(tree[m], query.at)
    BY <1>1, <1>3, <1>5, <1>7 DEF Judged, Beyond
  <2>1. Away(tree[m], query.at) \in Nat
    BY CandidateIs DEF Eligible
  <2>2. m \in Taken \/ Beyond(m)
    BY DEF Judged
  <2>3. CASE m \in Taken
    <3>1. PICK d \in Range(found) : m = d.node
      BY <2>3 DEF Taken
    <3>2. found # << >>
      BY <3>1 DEF Range
    <3>3. Len(found) = 1 /\ ring # NoLimit /\ found \in Seq(Entries)
      BY <1>1, <3>2 DEF OpOK, FoundOK
    <3>4. DOMAIN found = 1..1
      BY <3>3, LenProperties
    <3>5. d = found[1]
      BY <3>1, <3>4 DEF Range
    <3>6. ring = found[1].distance /\ found[1] \in Entries /\ ring \in Nat
      BY <3>3, RingIs
    <3>7. Away(tree[m], query.at) = ring
      BY <3>1, <3>5, <3>6, EntryIs
    <3> QED
      BY <1>2, <2>1, <3>3, <3>6, <3>7
  <2>4. CASE Beyond(m)
    <3>1. ring # NoLimit /\ ring <= Away(tree[m], query.at) /\ ring \in Nat
      BY <2>4, RingIs DEF Beyond
    <3> QED
      BY <1>2, <2>1, <3>1
  <2> QED
    BY <2>2, <2>3, <2>4
<1>9. RingOK' /\ OpOK'
  BY <1>1, <1>4, <1>7 DEF RingOK, OpOK
<1> QED
  BY <1>6, <1>8, <1>9

\* An entry more at the end of a sequence that does not have it.
LEMMA AppendIs ==
  ASSUME NEW E, NEW h \in Seq(E), NEW e \in E
  PROVE  /\ Append(h, e) \in Seq(E) /\ Len(Append(h, e)) = Len(h) + 1
         /\ Range(Append(h, e)) = Range(h) \cup {e}
         /\ IsInjective(h) /\ e \notin Range(h) => IsInjective(Append(h, e))
<1> DEFINE n == Len(h)
           g == Append(h, e)
<1>1. n \in Nat /\ DOMAIN h = 1..n
  BY LenProperties
<1>2. /\ g \in Seq(E) /\ Len(g) = n + 1 /\ g[n + 1] = e
      /\ \A j \in 1..n : g[j] = h[j]
  BY <1>1
<1>3. DOMAIN g = 1..(n + 1)
  BY <1>2, LenProperties
<1> HIDE DEF g, n
<1>4. \A j \in 1..(n + 1) : j = n + 1 \/ j \in 1..n
  BY <1>1
<1>5. n + 1 \in 1..(n + 1) /\ \A j \in 1..n : j \in 1..(n + 1) /\ j # n + 1
  BY <1>1
<1>6. Range(g) = Range(h) \cup {e}
  <2>1. Range(g) = {g[j] : j \in 1..(n + 1)} /\ Range(h) = {h[j] : j \in 1..n}
    BY <1>1, <1>3 DEF Range
  <2> QED
    BY <1>2, <1>4, <1>5, <2>1
<1>7. IsInjective(h) /\ e \notin Range(h) => IsInjective(g)
  <2>1. \A j \in 1..n : h[j] \in Range(h)
    BY <1>1 DEF Range
  <2> QED
    BY <1>1, <1>2, <1>3, <1>4, <1>5, <2>1 DEF IsInjective
<1> QED
  BY <1>2, <1>6, <1>7 DEF g, n

\* inBoundVisitor takes a value of its box.
LEMMA InsideWalk ==
  ASSUME Sound, QueryOK, FoundOK, Judged, RingOK, OpOK,
         NEW n \in DOMAIN tree, TakeInside(n), UNCHANGED <<bound, tree, query, answer>>,
         n \in Covers(tree, pending),
         Covers(tree, pending') = Covers(tree, pending) \ {n}
  PROVE  FoundOK' /\ Judged' /\ RingOK' /\ OpOK'
<1> DEFINE e == Entry(n)
           f == Append(found, e)
<1>1. /\ query.op = "inbound" /\ Takes(n) /\ found' = f
      /\ UNCHANGED <<tree, query, reach, ring>>
  BY DEF TakeInside
<1>2. n \in Eligible /\ e \in Entries /\ e.node = n
  BY <1>1, TakesIs
<1>3. /\ Candidates' = Candidates /\ Eligible' = Eligible /\ Entries' = Entries
      /\ \A m : Beyond(m)' = Beyond(m)
  BY <1>1 DEF Candidates, Eligible, Entries, Entry, Asked, Beyond
<1> HIDE DEF e
<1>4. e \notin Range(found)
  BY <1>2 DEF FoundOK, Taken
<1>5. f \in Seq(Entries) /\ IsInjective(f) /\ Range(f) = Range(found) \cup {e}
  BY <1>2, <1>4, AppendIs DEF FoundOK
<1> HIDE DEF f
<1>6. Taken' = Taken \cup {n}
  BY <1>1, <1>2, <1>5 DEF Taken
<1>7. FoundOK'
  BY <1>1, <1>2, <1>3, <1>5, <1>6 DEF FoundOK
<1>8. Judged'
  BY <1>1, <1>3, <1>6 DEF Judged
<1>9. ring = NoLimit
  BY <1>1 DEF RingOK
<1>10. RingOK' /\ OpOK'
  BY <1>1, <1>9 DEF RingOK, OpOK
<1> QED
  BY <1>7, <1>8, <1>10

\* The first entry of a heap, seen as a set.
LEMMA TopOver ==
  ASSUME NEW E, \A e \in E : e.distance \in Int, NEW h \in Seq(E), Heap(h), h # << >>
  PROVE  /\ h[1] \in E /\ h[1] \in Range(h)
         /\ \A e \in Range(h) : e \in E /\ e.distance <= h[1].distance
<1>1. /\ Len(h) \in Nat \ {0} /\ DOMAIN h = 1..Len(h)
      /\ \A j \in 1..Len(h) : h[j] \in E
  BY EmptySeq, LenProperties, ElementOfSeq
<1>2. \A j \in 1..Len(h) : h[j].distance <= h[1].distance
  BY TopFurthest
<1>3. 1 \in 1..Len(h)
  BY <1>1
<1> QED
  BY <1>1, <1>2, <1>3 DEF Range

\* One more on the heap: it holds what it held and the new one.
LEMMA Grown ==
  ASSUME Sound, QueryOK, FoundOK, RingOK, OpOK, query.op = "nearest",
         NEW n \in DOMAIN tree, Takes(n), n \in Covers(tree, pending)
  PROVE  LET heap == Push(found, Entry(n))
         IN  /\ heap \in Seq(Entries) /\ Heap(heap) /\ IsInjective(heap)
             /\ Range(heap) = Range(found) \cup {Entry(n)} /\ Len(heap) = Len(found) + 1
<1> DEFINE e == Entry(n)
           heap == Push(found, e)
<1>2. /\ n \in Eligible /\ e \in Entries /\ e.node = n
  BY TakesIs
<1>4. /\ \A d \in Entries : d.distance \in Int
      /\ found \in Seq(Entries) /\ IsInjective(found) /\ Heap(found)
  BY EntryIs DEF FoundOK, OpOK
<1> HIDE DEF e
<1>5. e \notin Range(found)
  BY <1>2 DEF FoundOK, Taken
<1>6. heap \in Seq(Entries) /\ Same(heap, Append(found, e)) /\ Heap(heap)
  BY <1>2, <1>4, PushIs
<1>7. /\ Len(Append(found, e)) = Len(found) + 1
      /\ Range(Append(found, e)) = Range(found) \cup {e}
      /\ IsInjective(Append(found, e))
  BY <1>2, <1>4, <1>5, AppendIs
<1> HIDE DEF heap
<1>8. /\ heap \in Seq(Entries) /\ Heap(heap) /\ IsInjective(heap)
      /\ Range(heap) = Range(found) \cup {e} /\ Len(heap) = Len(found) + 1
  BY <1>6, <1>7 DEF Same
<1> QED
  BY <1>8 DEF heap, e

\* nearestVisitor puts a value on the heap, and may throw the furthest out.
LEMMA NearWalk ==
  ASSUME Sound, QueryOK, FoundOK, Judged, RingOK, OpOK,
         NEW n \in DOMAIN tree, TakeNear(n), phase' = "visiting",
         UNCHANGED <<bound, tree, query, answer>>,
         n \in Covers(tree, pending),
         Covers(tree, pending') = Covers(tree, pending) \ {n}
  PROVE  FoundOK' /\ Judged' /\ RingOK' /\ OpOK'
<1> DEFINE e == Entry(n)
           heap == Push(found, e)
           full == Len(heap) > query.k
           kept == IF full THEN Pop(heap) ELSE heap
<1>1. /\ query.op = "nearest" /\ query.op # "inbound" /\ Takes(n) /\ found' = kept
      /\ kept # << >>
      /\ full => reach' = kept[1].distance /\ ring' = kept[1].distance
      /\ ~full => reach' = reach /\ ring' = ring
      /\ UNCHANGED <<tree, query>>
  BY DEF TakeNear
<1>2. /\ n \in Eligible /\ e \in Entries /\ e.node = n
      /\ e.distance = Away(tree[n], query.at) /\ e.distance \in Nat
      /\ ring # NoLimit => e.distance < ring
  BY <1>1, TakesIs
<1>3. Candidates' = Candidates /\ Eligible' = Eligible /\ Entries' = Entries
  BY <1>1 DEF Candidates, Eligible, Entries, Entry, Asked
<1>4. /\ \A d \in Entries : d.distance \in Int
      /\ found \in Seq(Entries) /\ IsInjective(found) /\ Heap(found)
      /\ Len(found) \in Nat /\ query.k \in Nat /\ Len(found) <= query.k
  BY <1>1, EntryIs, LenProperties DEF FoundOK, OpOK, QueryOK
<1> HIDE DEF e
<1>6. /\ heap \in Seq(Entries) /\ Heap(heap) /\ IsInjective(heap)
      /\ Range(heap) = Range(found) \cup {e} /\ Len(heap) = Len(found) + 1
  BY <1>1, Grown DEF e
<1> HIDE DEF heap
<1>7. CASE ~full
  <2>1. found' = heap /\ reach' = reach /\ ring' = ring
    BY <1>1, <1>7
  <2>2. Len(heap) <= query.k /\ Len(found) # query.k
    BY <1>4, <1>6, <1>7
  <2>3. ring = NoLimit
    BY <1>1, <2>2 DEF RingOK
  <2>4. Taken' = Taken \cup {n}
    BY <1>2, <1>6, <2>1 DEF Taken
  <2>5. FoundOK'
    BY <1>1, <1>2, <1>3, <1>6, <2>1, <2>4 DEF FoundOK
  <2>6. Judged'
    BY <1>1, <1>3, <2>3, <2>4 DEF Judged, Beyond
  <2>7. RingOK' /\ OpOK'
    BY <1>1, <1>6, <2>1, <2>2, <2>3 DEF RingOK, OpOK
  <2> QED
    BY <2>5, <2>6, <2>7
<1>8. CASE full
  <2> DEFINE top == heap[1]
             last == Pop(heap)
             near == last[1]
  <2>1. /\ found' = last /\ last # << >> /\ reach' = near.distance /\ ring' = near.distance
    BY <1>1, <1>8
  <2>2. Len(found) = query.k /\ heap # << >>
    BY <1>4, <1>6, <1>8, EmptySeq
  <2>3. /\ last \in Seq(Entries) /\ Heap(last) /\ IsInjective(last)
        /\ Len(last) = query.k /\ Range(last) = Range(heap) \ {top}
    BY <1>4, <1>6, <2>2, PopIs
  <2>4. /\ \A d \in Range(heap) : d \in Entries /\ d.distance <= top.distance
        /\ top \in Entries
    BY <1>4, <1>6, <2>2, TopOver
  <2> HIDE DEF last, top
  <2>5. near \in Entries /\ near \in Range(last)
    BY <1>4, <2>1, <2>3, TopOver
  <2> HIDE DEF near
  <2>6. near.distance \in Nat /\ near \in Range(heap) /\ near.distance <= top.distance
    BY <2>3, <2>4, <2>5, EntryIs
  <2>7. Taken' = {d.node : d \in Range(last)}
    BY <2>1 DEF Taken
  <2>8. Taken' \subseteq Taken \cup {n}
    BY <1>2, <1>6, <2>3, <2>7 DEF Taken
  <2>9. FoundOK'
    BY <1>1, <1>2, <1>3, <2>1, <2>3, <2>8 DEF FoundOK
  <2>10. near.distance # NoLimit
    BY <2>6 DEF NoLimit
  <2>11. Judged'
    <3> SUFFICES ASSUME NEW m \in Eligible, m \notin Covers(tree, pending) \/ m = n
                 PROVE  m \in Taken' \/ near.distance <= Away(tree[m], query.at)
      BY <1>1, <1>3, <2>1, <2>10 DEF Judged, Beyond
    <3>1. Away(tree[m], query.at) \in Nat
      BY CandidateIs DEF Eligible
    <3>2. m \in Taken \cup {n} \/ Beyond(m)
      BY DEF Judged
    <3>3. CASE m \in Taken \cup {n}
      <4>1. PICK d \in Range(heap) : d.node = m
        BY <1>2, <1>6, <3>3 DEF Taken
      <4>2. CASE d = top
        <5>1. top.distance = Away(tree[m], query.at)
          BY <2>4, <4>1, <4>2, EntryIs
        <5> QED
          BY <2>6, <5>1
      <4>3. CASE d # top
        BY <2>3, <2>7, <4>1, <4>3
      <4> QED
        BY <4>2, <4>3
    <3>4. CASE Beyond(m)
      <4>1. /\ ring # NoLimit /\ ring <= Away(tree[m], query.at) /\ ring \in Nat
            /\ ring = found[1].distance /\ found # << >>
        BY <3>4, RingIs DEF Beyond, RingOK
      <4>2. near.distance <= ring
        <5>1. CASE near = e
          BY <1>2, <4>1, <5>1
        <5>2. CASE near \in Range(found)
          BY <1>4, <4>1, <5>2, TopOver
        <5> QED
          BY <1>6, <2>6, <5>1, <5>2
      <4> QED
        BY <2>6, <3>1, <4>1, <4>2
    <3> QED
      BY <3>2, <3>3, <3>4
  <2>12. RingOK' /\ OpOK'
    <3>1. query.k \in Nat /\ Len(last) <= query.k
      BY <1>4, <2>3
    <3> QED
      BY <1>1, <2>1, <2>3, <2>10, <3>1 DEF RingOK, OpOK, near
  <2> QED
    BY <2>9, <2>11, <2>12
<1> QED
  BY <1>7, <1>8

\* Every Visit keeps the walk's invariant.
LEMMA VisitWalk ==
  ASSUME Sound, QueryOK, Walk, Visit
  PROVE  Walk'
<1> SUFFICES ASSUME phase' = "visiting"
             PROVE  PendingOK' /\ FoundOK' /\ Judged' /\ RingOK' /\ OpOK'
  BY DEF Walk
<1> DEFINE n == Head(pending).node
<1>1. /\ PendingOK /\ FoundOK /\ Judged /\ RingOK /\ OpOK
      /\ pending # << >>
      /\ Skip(n) \/ TakeClosest(n) \/ TakeNear(n) \/ TakeInside(n)
      /\ pending' = Onward(n, Head(pending).box) \o Tail(pending)
      /\ UNCHANGED <<bound, tree, query, answer>>
  BY DEF Walk, Visit
<1>2. /\ n \in DOMAIN tree /\ n \in Covers(tree, pending)
      /\ pending' \in Seq(Tasks(tree)) /\ Apart(tree, pending')
      /\ Covers(tree, pending') = Covers(tree, pending) \ {n}
  BY <1>1, VisitOnward
<1>3. PendingOK'
  BY <1>1, <1>2 DEF PendingOK
<1> HIDE DEF n
<1>4. CASE Skip(n)
  BY <1>1, <1>2, <1>3, <1>4, SkipWalk
<1>5. CASE TakeClosest(n)
  BY <1>1, <1>2, <1>3, <1>5, ClosestWalk
<1>6. CASE TakeNear(n)
  BY <1>1, <1>2, <1>3, <1>6, NearWalk
<1>7. CASE TakeInside(n)
  BY <1>1, <1>2, <1>3, <1>7, InsideWalk
<1> QED
  BY <1>1, <1>4, <1>5, <1>6, <1>7

-------------------------------------------------------------------------------
\* What a call returns for the entries r.
Values(r) == [i \in 1..Len(r) |-> tree[r[i].node]]

\* The nodes a search may find are finitely many.
LEMMA CandidateFinite ==
  ASSUME Sound
  PROVE  IsFiniteSet(Candidates)
<1>1. Candidates \in SUBSET Node
  BY SoundIs DEF Candidates, Filled, Tree
<1> QED
  BY <1>1, NodeFinite, FS_Subset

\* It has each value as often as the nodes of the entries have.
LEMMA ValuesAre ==
  ASSUME Sound, QueryOK, NEW r \in Seq(Entries), IsInjective(r)
  PROVE  LET T == {e.node : e \in Range(r)} IN
         /\ Values(r) \in Seq(Item) /\ Len(Values(r)) = Len(r)
         /\ \A i \in 1..Len(r) : /\ r[i] \in Entries /\ r[i].node \in Candidates
                                 /\ Values(r)[i] = tree[r[i].node]
                                 /\ Away(Values(r)[i], query.at) = r[i].distance
         /\ T \subseteq Candidates /\ IsFiniteSet(T) /\ Cardinality(T) = Len(r)
         /\ \A v \in Item : Cardinality({i \in 1..Len(Values(r)) : Values(r)[i] = v}) =
                            Cardinality({n \in T : tree[n] = v})
<1> DEFINE T == {e.node : e \in Range(r)}
           a == Values(r)
           l == Len(r)
<1>1. /\ l \in Nat /\ DOMAIN r = 1..l
      /\ \A i \in 1..l : r[i] \in Entries
  BY LenProperties, ElementOfSeq
<1>2. \A i \in 1..l : /\ r[i].node \in Candidates /\ r[i] = Entry(r[i].node)
                      /\ r[i].distance = Away(tree[r[i].node], query.at)
                      /\ tree[r[i].node] \in Item
  BY <1>1, EntryIs, CandidateIs
<1>3. a = [i \in 1..l |-> tree[r[i].node]]
  BY DEF Values
<1> HIDE DEF a, l
<1>4. a \in [1..l -> Item]
  BY <1>2, <1>3
<1>5. a \in Seq(Item) /\ Len(a) = l
  <2>1. a \in Seq(Item)
    BY <1>1, <1>4, SeqDef
  <2> QED
    BY <1>1, <1>4, <2>1, LenProperties
<1>6. \A i, j \in 1..l : r[i].node = r[j].node => i = j
  <2> SUFFICES ASSUME NEW i \in 1..l, NEW j \in 1..l, r[i].node = r[j].node PROVE i = j
    OBVIOUS
  <2>1. r[i] = r[j]
    BY <1>2
  <2> QED
    BY <1>1, <2>1 DEF IsInjective
<1>7. T = {r[i].node : i \in 1..l}
  BY <1>1 DEF Range
<1> HIDE DEF T
<1>8. T \subseteq Candidates /\ IsFiniteSet(T)
  <2>1. T \in SUBSET Candidates
    BY <1>2, <1>7
  <2> QED
    BY <2>1, CandidateFinite, FS_Subset
<1>9. IsFiniteSet(1..l) /\ Cardinality(1..l) = l
  <2>1. 1 \in Int /\ l \in Int /\ 1 <= l + 1
    BY <1>1
  <2>2. IsFiniteSet(1..l) /\ Cardinality(1..l) = IF 1 > l THEN 0 ELSE l - 1 + 1
    BY <2>1, FS_Interval
  <2> QED
    BY <1>1, <2>2
<1>10. Cardinality(T) = l
  <2> DEFINE f == [i \in 1..l |-> r[i].node]
  <2>1. f \in [1..l -> T] /\ \A i \in 1..l : f[i] = r[i].node
    BY <1>7
  <2>2. \A n \in T : \E i \in 1..l : f[i] = n
    BY <1>7
  <2> HIDE DEF f
  <2>3. f \in Bijection(1..l, T)
    BY <1>6, <2>1, <2>2 DEF Bijection, Injection, Surjection, IsInjective
  <2> QED
    BY <1>9, <2>3, FS_Bijection DEF ExistsBijection
<1>11. ASSUME NEW v \in Item
       PROVE  Cardinality({i \in 1..Len(a) : a[i] = v}) = Cardinality({n \in T : tree[n] = v})
  <2> DEFINE A == {i \in 1..l : a[i] = v}
             B == {n \in T : tree[n] = v}
             f == [i \in A |-> r[i].node]
  <2>1. \A i \in 1..l : a[i] = tree[r[i].node]
    BY <1>3
  <2>2. f \in [A -> B] /\ \A i \in A : f[i] = r[i].node
    BY <1>7, <2>1
  <2>3. \A n \in B : \E i \in A : f[i] = n
    BY <1>7, <2>1
  <2>4. \A i \in A : i \in 1..l
    OBVIOUS
  <2>5. IsFiniteSet(A)
    <3>1. A \in SUBSET (1..l)
      OBVIOUS
    <3> HIDE DEF A
    <3> QED
      BY <1>9, <3>1, FS_Subset
  <2> HIDE DEF f, A, B
  <2>6. f \in Bijection(A, B)
    BY <1>6, <2>2, <2>3, <2>4 DEF Bijection, Injection, Surjection, IsInjective
  <2>7. Cardinality(B) = Cardinality(A)
    BY <2>5, <2>6, FS_Bijection DEF ExistsBijection
  <2> QED
    BY <1>5, <2>7 DEF A, B
<1> QED
  BY <1>1, <1>2, <1>3, <1>5, <1>8, <1>10, <1>11 DEF a, T, l

\* At the end of a walk the rest is beyond the bound.
LEMMA WalkOver ==
  ASSUME Sound, QueryOK, PendingOK, FoundOK, Judged, pending = << >>
  PROVE  /\ Taken \subseteq Eligible
         /\ \A n \in Eligible : n \in Taken \/ Beyond(n)
<1>1. Covers(tree, pending) = {}
  BY EmptySeq DEF Covers
<1> QED
  BY <1>1 DEF Judged, FoundOK

\* At the end of its walk findVisitor has the closest value, if there is one.
LEMMA ClosestFound ==
  ASSUME Sound, QueryOK, PendingOK, FoundOK, Judged, RingOK, OpOK, pending = << >>,
         query.op \in {"find", "remove"}
  PROVE  /\ found = << >> => Candidates = {}
         /\ found # << >> =>
              /\ Len(found) = 1 /\ found[1].node \in Candidates
              /\ \A n \in Candidates :
                   Away(tree[found[1].node], query.at) <= Away(tree[n], query.at)
<1>1. query.limit = NoLimit /\ (found = << >> \/ (Len(found) = 1 /\ ring # NoLimit))
  BY DEF OpOK
<1>2. Eligible = Candidates
  BY <1>1 DEF Eligible, Asked, Within
<1>3. \A n \in Candidates : n \in Taken \/ Beyond(n)
  BY <1>2, WalkOver
<1>4. ASSUME found = << >> PROVE Candidates = {}
  <2>1. Taken = {}
    BY <1>4 DEF Taken, Range
  <2>2. ring = NoLimit
    BY <1>4 DEF RingOK
  <2> QED
    BY <1>3, <2>1, <2>2 DEF Beyond
<1>5. ASSUME found # << >>
      PROVE  /\ Len(found) = 1 /\ found[1].node \in Candidates
             /\ \A n \in Candidates :
                  Away(tree[found[1].node], query.at) <= Away(tree[n], query.at)
  <2>1. Len(found) = 1 /\ ring # NoLimit /\ found \in Seq(Entries)
    BY <1>1, <1>5 DEF FoundOK
  <2>2. ring \in Nat /\ found[1] \in Entries /\ ring = found[1].distance
    BY <2>1, RingIs
  <2>3. found[1].node \in Candidates /\ Away(tree[found[1].node], query.at) = ring
    BY <2>2, EntryIs
  <2>4. Taken = {found[1].node}
    <3>1. DOMAIN found = 1..1
      BY <2>1, LenProperties
    <3>2. Range(found) = {found[1]}
      BY <3>1 DEF Range
    <3> QED
      BY <3>2 DEF Taken
  <2>5. ASSUME NEW n \in Candidates PROVE ring <= Away(tree[n], query.at)
    BY <1>3, <2>2, <2>3, <2>4 DEF Beyond
  <2> QED
    BY <2>1, <2>3, <2>5
<1> QED
  BY <1>4, <1>5

\* What Find and Matching return.
LEMMA AnswerFinds ==
  ASSUME Sound, QueryOK, Walk, Answer
  PROVE  FindsClosest'
<1> SUFFICES ASSUME query.op = "find"
             PROVE  IF answer' = << >> THEN Candidates = {}
                    ELSE /\ \E n \in Candidates : tree[n] = answer'[1]
                         /\ \A n \in Candidates :
                              Away(answer'[1], query.at) <= Away(tree[n], query.at)
  <2>1. UNCHANGED query /\ (query.op = "find" => UNCHANGED tree)
    BY DEF Answer
  <2> QED
    BY <2>1 DEF FindsClosest, Candidates
<1>1. /\ PendingOK /\ FoundOK /\ Judged /\ RingOK /\ OpOK /\ pending = << >>
      /\ answer' = Values(found)
  BY DEF Walk, Answer, Values
<1>2. /\ found \in Seq(Entries) /\ answer' \in Seq(Item) /\ Len(answer') = Len(found)
      /\ \A i \in 1..Len(found) : answer'[i] = tree[found[i].node]
  BY <1>1, ValuesAre DEF FoundOK
<1>3. /\ found = << >> => Candidates = {}
      /\ found # << >> =>
           /\ Len(found) = 1 /\ found[1].node \in Candidates
           /\ \A n \in Candidates :
                Away(tree[found[1].node], query.at) <= Away(tree[n], query.at)
  BY <1>1, ClosestFound
<1>4. answer' = << >> <=> found = << >>
  BY <1>2, EmptySeq
<1>5. found # << >> => answer'[1] = tree[found[1].node]
  BY <1>2, <1>3
<1> QED
  BY <1>3, <1>4, <1>5

\* What InBound and InBoundMatching return.
LEMMA AnswerInBound ==
  ASSUME Sound, QueryOK, Walk, Answer
  PROVE  AllInBound'
<1> SUFFICES ASSUME query.op = "inbound", NEW v \in Item
             PROVE  Cardinality({i \in 1..Len(answer') : answer'[i] = v}) =
                      IF Inside(query.box, X[v], Y[v]) THEN Occurrences(v) ELSE 0
  <2>1. UNCHANGED query /\ (query.op = "inbound" => UNCHANGED tree)
    BY DEF Answer
  <2> QED
    BY <2>1 DEF AllInBound, Occurrences, Candidates, Inside
<1>1. /\ PendingOK /\ FoundOK /\ Judged /\ RingOK /\ OpOK /\ pending = << >>
      /\ answer' = Values(found)
  BY DEF Walk, Answer, Values
<1>2. Cardinality({i \in 1..Len(answer') : answer'[i] = v}) =
        Cardinality({n \in Taken : tree[n] = v})
  <2>1. found \in Seq(Entries) /\ IsInjective(found)
    BY <1>1 DEF FoundOK
  <2> QED
    BY <1>1, <2>1, ValuesAre DEF Taken
<1>3. ring = NoLimit
  BY <1>1 DEF RingOK
<1>4. Taken = Eligible
  BY <1>1, <1>3, WalkOver DEF Beyond
<1>5. CASE Inside(query.box, X[v], Y[v])
  <2>1. {n \in Eligible : tree[n] = v} = {n \in Candidates : tree[n] = v}
    BY <1>5 DEF Eligible, Asked
  <2> QED
    BY <1>2, <1>4, <1>5, <2>1 DEF Occurrences
<1>6. CASE ~Inside(query.box, X[v], Y[v])
  <2>1. {n \in Eligible : tree[n] = v} = {}
    BY <1>6 DEF Eligible, Asked
  <2>2. Cardinality({}) = 0
    BY FS_EmptySet
  <2> QED
    BY <1>2, <1>4, <1>6, <2>1, <2>2
<1> QED
  BY <1>5, <1>6

\* What KNearest and KNearestMatching return.
LEMMA AnswerClosestK ==
  ASSUME Sound, QueryOK, Walk, Answer
  PROVE  ClosestK'
<1> DEFINE eligible == {n \in Candidates : Within(Away(tree[n], query.at), query.limit)}
           a == answer'
           d(i) == Away(a[i], query.at)
<1> SUFFICES ASSUME query.op = "nearest"
             PROVE  /\ Len(a) = IF Cardinality(eligible) < query.k THEN Cardinality(eligible)
                                ELSE query.k
                    /\ \A i, j \in 1..Len(a) : i < j => d(i) <= d(j)
                    /\ \A v \in Item : Cardinality({i \in 1..Len(a) : a[i] = v}) <= Occurrences(v)
                    /\ Len(a) > 0 =>
                         Cardinality({n \in eligible : Away(tree[n], query.at) < d(Len(a))})
                           < Len(a)
  <2>1. UNCHANGED query /\ (query.op = "nearest" => UNCHANGED tree)
    BY DEF Answer
  <2> QED
    BY <2>1 DEF ClosestK, Occurrences, Candidates, Away, Within
<1> DEFINE r == Emptied(found)
<1>1. /\ PendingOK /\ FoundOK /\ Judged /\ RingOK /\ OpOK /\ pending = << >>
      /\ a = Values(r)
  BY DEF Walk, Answer, Values
<1>2. /\ \A e \in Entries : e.distance \in Int
      /\ found \in Seq(Entries) /\ IsInjective(found) /\ Heap(found)
      /\ Len(found) \in Nat /\ query.k \in Nat /\ Len(found) <= query.k
  BY <1>1, EntryIs, LenProperties DEF FoundOK, OpOK, QueryOK
<1>3. /\ r \in Seq(Entries) /\ Len(r) = Len(found)
      /\ IsInjective(r) /\ Range(r) = Range(found)
      /\ \A i, j \in 1..Len(found) : i < j => r[i].distance <= r[j].distance
  BY <1>2, EmptiedIs DEF Heaps
<1> HIDE DEF r, a
<1> DEFINE l == Len(found)
<1>4. /\ Len(a) = l
      /\ \A i \in 1..l : /\ r[i] \in Entries /\ r[i].node \in Candidates
                         /\ a[i] = tree[r[i].node] /\ d(i) = r[i].distance
      /\ Taken \subseteq Candidates /\ IsFiniteSet(Taken) /\ Cardinality(Taken) = l
      /\ \A v \in Item : Cardinality({i \in 1..Len(a) : a[i] = v}) =
                         Cardinality({n \in Taken : tree[n] = v})
  BY <1>1, <1>3, ValuesAre DEF Taken
<1> HIDE DEF d
<1>5. eligible = Eligible
  BY DEF Eligible, Asked
<1>6. /\ Taken \subseteq Eligible /\ IsFiniteSet(Eligible) /\ Cardinality(Eligible) \in Nat
      /\ \A n \in Eligible : n \in Taken \/ Beyond(n)
  <2>1. Eligible \in SUBSET Candidates
    BY DEF Eligible
  <2>2. IsFiniteSet(Eligible)
    BY <2>1, CandidateFinite, FS_Subset
  <2> QED
    BY <1>1, <2>2, WalkOver, FS_CardinalityType
<1> HIDE DEF eligible
<1>7. Len(a) = IF Cardinality(eligible) < query.k THEN Cardinality(eligible) ELSE query.k
  <2>1. l <= Cardinality(Eligible)
    BY <1>4, <1>6, FS_Subset
  <2>2. CASE ring = NoLimit
    <3>1. Taken = Eligible
      BY <1>6, <2>2 DEF Beyond
    <3> QED
      BY <1>2, <1>4, <1>5, <3>1
  <2>3. CASE ring # NoLimit
    <3>1. l = query.k
      BY <1>1, <2>3 DEF RingOK
    <3> QED
      BY <1>2, <1>4, <1>5, <1>6, <2>1, <3>1
  <2> QED
    BY <2>2, <2>3
<1>8. \A i, j \in 1..Len(a) : i < j => d(i) <= d(j)
  BY <1>3, <1>4
<1>9. ASSUME NEW v \in Item
      PROVE  Cardinality({i \in 1..Len(a) : a[i] = v}) <= Occurrences(v)
  <2> DEFINE N == {n \in Candidates : tree[n] = v}
  <2>1. N \in SUBSET Candidates /\ {n \in Taken : tree[n] = v} \in SUBSET N
    BY <1>4
  <2>2. IsFiniteSet(N)
    <3> HIDE DEF N
    <3> QED
      BY <2>1, CandidateFinite, FS_Subset
  <2>3. Cardinality({n \in Taken : tree[n] = v}) <= Cardinality(N)
    <3> HIDE DEF N
    <3> QED
      BY <2>1, <2>2, FS_Subset
  <2> QED
    BY <1>4, <2>3 DEF Occurrences
<1>10. ASSUME Len(a) > 0
       PROVE  Cardinality({n \in eligible : Away(tree[n], query.at) < d(Len(a))}) < Len(a)
  <2> DEFINE D == {n \in eligible : Away(tree[n], query.at) < d(l)}
             last == r[l]
  <2>1. l \in Nat \ {0} /\ l \in 1..l /\ l \in DOMAIN r
    BY <1>2, <1>3, <1>4, <1>10, LenProperties
  <2>2. /\ last \in Range(found) /\ last \in Entries /\ d(l) = last.distance
        /\ last.distance \in Nat /\ last.node \in Taken
        /\ Away(tree[last.node], query.at) = last.distance
    <3>1. last \in Range(found)
      BY <1>3, <2>1 DEF Range
    <3> QED
      BY <1>4, <2>1, <3>1, EntryIs DEF Taken
  <2> HIDE DEF last
  <2>3. ASSUME NEW n \in D PROVE n \in Taken \ {last.node}
    <3>1. /\ n \in Eligible /\ n \in Candidates
          /\ Away(tree[n], query.at) < last.distance
      BY <1>5, <2>2 DEF Eligible
    <3>2. Away(tree[n], query.at) \in Nat
      BY <3>1, CandidateIs
    <3>3. ~Beyond(n)
      <4> SUFFICES ASSUME Beyond(n) PROVE FALSE
        OBVIOUS
      <4>1. /\ ring # NoLimit /\ ring <= Away(tree[n], query.at) /\ ring \in Nat
            /\ ring = found[1].distance /\ found # << >>
        BY <1>1, RingIs DEF Beyond, RingOK
      <4>2. last.distance <= ring
        BY <1>2, <2>2, <4>1, TopOver
      <4> QED
        BY <2>2, <3>1, <3>2, <4>1, <4>2
    <3>4. n # last.node
      BY <2>2, <3>1, <3>2
    <3> QED
      BY <1>6, <3>1, <3>3, <3>4
  <2> HIDE DEF D
  <2>4. D \in SUBSET (Taken \ {last.node})
    BY <2>3
  <2>5. /\ IsFiniteSet(Taken \ {last.node})
        /\ Cardinality(Taken \ {last.node}) = l - 1
    BY <1>4, <2>2, FS_RemoveElement
  <2>6. IsFiniteSet(D) /\ Cardinality(D) <= l - 1
    BY <2>4, <2>5, FS_Subset
  <2>7. Cardinality(D) \in Nat
    BY <2>6, FS_CardinalityType
  <2>8. Cardinality(D) < l
    BY <2>1, <2>6, <2>7
  <2> QED
    BY <1>4, <2>8 DEF D
<1> QED
  BY <1>7, <1>8, <1>9, <1>10

-------------------------------------------------------------------------------
\* The right and the top edge of the bound are whole numbers, which math.Ceil
\* leaves what they are.  With another bound KNearest moves the edges under the
\* values, and the searches go wrong (the run QuadtreeFraction).
WholeEdges == Ceil(Region.right) = Region.right /\ Ceil(Region.top) = Region.top

\* At the start of a walk everything is before it.
LEMMA StartWalk ==
  ASSUME Sound, QueryOK', Start(query', Region), UNCHANGED bound,
         Idle, phase = "idle", DOMAIN tree # {},
         query'.op = "inbound" \/ query'.box = Region,
         \/ query'.op \in {"find", "remove"} /\ query'.limit = NoLimit
         \/ query'.op \in {"nearest", "inbound"}
  PROVE  Walk'
<1> DEFINE e == [node |-> Root, box |-> Region]
<1>1. /\ pending' = <<e>> /\ reach' = query'.limit
      /\ UNCHANGED <<tree, found, ring, answer>>
      /\ found = << >> /\ ring = NoLimit
  BY DEF Start, Idle
<1>2. Tree(tree) /\ DOMAIN tree \subseteq Path /\ DOMAIN tree # {}
  BY SoundIs, Nodes DEF Tree
<1>3. Root \in DOMAIN tree /\ \A n \in DOMAIN tree : Under(Root, n)
  <2>1. \A n \in DOMAIN tree : Under(Root, n)
    BY <1>2, UnderSelf
  <2>2. Root \in Path
    BY EmptySeq DEF Root, Path
  <2> QED
    BY <1>2, <2>1, <2>2, Ancestors
<1>4. e \in Tasks(tree) /\ e.node = Root
  BY <1>3, CellOfRoot DEF Tasks
<1> HIDE DEF e
<1>5. pending' \in Seq(Tasks(tree)) /\ Len(pending') = 1 /\ pending'[1].node = Root
  BY <1>1, <1>4
<1>6. Apart(tree, pending')
  BY <1>5 DEF Apart
<1>7. Covers(tree, pending') = DOMAIN tree
  <2>1. 1 \in 1..Len(pending')
    BY <1>5
  <2>2. \A n \in DOMAIN tree : Under(pending'[1].node, n)
    BY <1>3, <1>5
  <2> QED
    BY <2>1, <2>2 DEF Covers
<1>8. PendingOK'
  BY <1>1, <1>5, <1>6 DEF PendingOK
<1>9. FoundOK'
  <2>1. found' = << >> /\ Range(found') = {}
    BY <1>1 DEF Range
  <2>2. IsInjective(found') /\ found' \in Seq(Entries')
    BY <2>1, EmptySeq DEF IsInjective
  <2> QED
    BY <2>1, <2>2 DEF FoundOK, Taken
<1>10. Judged'
  BY <1>1, <1>7 DEF Judged, Eligible, Candidates, Filled
<1>11. RingOK'
  BY <1>1 DEF RingOK
<1>12. OpOK'
  <2>1. found' = << >> /\ Len(found') = 0 /\ Heap(found')
    BY <1>1, EmptySeq DEF Heap
  <2>2. query'.k \in Nat
    BY DEF QueryOK
  <2> QED
    BY <1>1, <2>1, <2>2 DEF OpOK
<1> QED
  BY <1>8, <1>9, <1>10, <1>11, <1>12 DEF Walk

\* A query is what its call asks for, over a query that asks for nothing.
Asking(op, at, accepts, k, limit, box) ==
  [op |-> op, at |-> at, accepts |-> accepts, k |-> k, limit |-> limit, box |-> box]

\* The query of no call.
LEMMA NoQueryIs ==
  /\ NoQuery = [op |-> "none", at |-> [x |-> 0, y |-> 0], accepts |-> {}, k |-> 0,
                limit |-> NoLimit, box |-> Nowhere]
  /\ [x |-> 0, y |-> 0] \in [x : Int, y : Int] /\ {} \in SUBSET Item /\ 0 \in Nat
  /\ NoLimit \in Nat \cup {NoLimit}
  /\ Nowhere \in [left : Int, right : Int, bottom : Int, top : Int]
BY DEF NoQuery, Nowhere

\* A call that does not start a walk.
LEMMA AnsweredAtOnce ==
  ASSUME QueryOK', NEW q, ReadEmpty(q), DOMAIN tree = {}, Idle, phase = "idle"
  PROVE  Idle' /\ Walk' /\ FindsClosest' /\ AllInBound' /\ ClosestK'
<1>1. phase' = "answered" /\ answer' = << >> /\ tree' = tree /\ answer = << >>
  BY DEF ReadEmpty, Idle
<1>2. Candidates' = {}
  BY <1>1 DEF Candidates, Filled
<1>3. /\ Cardinality({}) = 0 /\ Len(<< >>) = 0
      /\ \A v \in Item : Occurrences(v)' = 0
      /\ \A v \in Item : {i \in 1..0 : answer'[i] = v} = {}
  BY <1>2, FS_EmptySet, EmptySeq DEF Occurrences
<1>4. FindsClosest'
  BY <1>1, <1>2 DEF FindsClosest
<1>5. AllInBound'
  BY <1>1, <1>3 DEF AllInBound
<1>6. ClosestK'
  <2> DEFINE eligible == {n \in Candidates : Within(Away(tree[n], query.at), query.limit)}'
  <2>1. eligible = {} /\ query'.k \in Nat /\ Len(answer') = 0
    BY <1>1, <1>2, <1>3 DEF QueryOK
  <2>2. Len(answer') = IF Cardinality(eligible) < query'.k THEN Cardinality(eligible)
                       ELSE query'.k
    <3> HIDE DEF eligible
    <3> QED
      BY <1>3, <2>1
  <2> QED
    BY <1>1, <1>3, <2>1, <2>2 DEF ClosestK
<1> QED
  BY <1>1, <1>4, <1>5, <1>6 DEF Idle, Walk

\* A call that does not answer yet has nothing to show.
LEMMA Started ==
  ASSUME phase' # "idle", phase' # "answered"
  PROVE  Idle' /\ FindsClosest' /\ AllInBound' /\ ClosestK'
BY DEF Idle, FindsClosest, AllInBound, ClosestK

\* What all reads of the tree have in common.
LEMMA ReadInv ==
  ASSUME Sound, QueryOK', Idle, phase = "idle",
         IF DOMAIN tree = {} THEN ReadEmpty(query')
         ELSE Start(query', Region) /\ UNCHANGED bound,
         query'.op = "inbound" \/ query'.box = Region,
         \/ query'.op \in {"find", "remove"} /\ query'.limit = NoLimit
         \/ query'.op \in {"nearest", "inbound"}
  PROVE  Idle' /\ Walk' /\ FindsClosest' /\ AllInBound' /\ ClosestK' /\ UNCHANGED <<bound, tree>>
<1>1. CASE DOMAIN tree = {}
  BY <1>1, AnsweredAtOnce DEF ReadEmpty
<1>2. CASE DOMAIN tree # {}
  <2>1. Walk'
    BY <1>2, StartWalk
  <2>2. phase' # "idle" /\ phase' # "answered" /\ UNCHANGED <<bound, tree>>
    BY <1>2 DEF Start
  <2> QED
    BY <2>1, <2>2, Started
<1> QED
  BY <1>1, <1>2

\* A call that begins keeps the invariant, and only Add changes the tree.
LEMMA BeginInv ==
  ASSUME WholeEdges, SearchInv, Begin
  PROVE  /\ QueryOK' /\ Idle' /\ Walk' /\ FindsClosest' /\ AllInBound' /\ ClosestK'
         /\ (\E v \in Item : Add(v)) \/ UNCHANGED <<bound, tree>>
<1>1. Sound /\ QueryOK /\ Idle /\ bound = Region
  BY SoundIs DEF SearchInv
<1>2. ASSUME NEW v \in Item, AddValue(v)
      PROVE  /\ QueryOK' /\ Idle' /\ Walk' /\ FindsClosest' /\ AllInBound' /\ ClosestK'
             /\ Add(v)
  BY <1>1, <1>2 DEF AddValue, call, QueryOK, Idle, Walk, FindsClosest, AllInBound, ClosestK
<1>3. ASSUME NEW v \in Item, Refuse(v)
      PROVE  /\ QueryOK' /\ Idle' /\ Walk' /\ FindsClosest' /\ AllInBound' /\ ClosestK'
             /\ UNCHANGED <<bound, tree>>
  <2>1. phase' = "answered" /\ query' = [NoQuery EXCEPT !.op = "add"] /\ UNCHANGED <<bound, tree>>
    BY <1>3 DEF Refuse
  <2>a. query' = Asking("add", [x |-> 0, y |-> 0], {}, 0, NoLimit, Nowhere)
    BY <2>1, NoQueryIs DEF Asking
  <2>2. query'.op = "add" /\ QueryOK'
    BY <2>a, NoQueryIs DEF QueryOK, Asking
  <2> QED
    BY <2>1, <2>2 DEF Idle, Walk, FindsClosest, AllInBound, ClosestK
<1>4. ASSUME NEW v \in Item, NEW accepts \in Filter \cup {AtPlaceOf(v)}, Remove(v, accepts)
      PROVE  /\ QueryOK' /\ Idle' /\ Walk' /\ FindsClosest' /\ AllInBound' /\ ClosestK'
             /\ UNCHANGED <<bound, tree>>
  <2>1. /\ phase = "idle"
        /\ query' = [NoQuery EXCEPT !.op = "remove", !.at = [x |-> X[v], y |-> Y[v]],
                                    !.accepts = accepts, !.box = bound]
        /\ IF DOMAIN tree = {} THEN phase' = "panic" /\ UNCHANGED <<bound, tree>>
           ELSE Start(query', Region) /\ UNCHANGED bound
    BY <1>1, <1>4 DEF Remove, Start
  <2>2. accepts \in SUBSET Item /\ X[v] \in Int /\ Y[v] \in Int
    BY FilterAssumption, CoordinatesAssumption DEF AtPlaceOf
  <2>a. query' = Asking("remove", [x |-> X[v], y |-> Y[v]], accepts, 0, NoLimit, Region)
    BY <1>1, <2>1, NoQueryIs DEF Asking
  <2>b. [x |-> X[v], y |-> Y[v]] \in [x : Int, y : Int]
    BY <2>2
  <2>3. QueryOK' /\ query'.op = "remove" /\ query'.box = Region /\ query'.limit = NoLimit
    BY <2>a, <2>b, <2>2, NoQueryIs, RegionAssumption DEF QueryOK, Asking
  <2>4. CASE DOMAIN tree = {}
    BY <2>1, <2>3, <2>4, Started DEF Walk
  <2>5. CASE DOMAIN tree # {}
    BY <1>1, <2>1, <2>3, <2>5, ReadInv
  <2> QED
    BY <2>4, <2>5
<1>5. ASSUME NEW p \in Point, NEW accepts \in Filter, Matching(p, accepts)
      PROVE  /\ QueryOK' /\ Idle' /\ Walk' /\ FindsClosest' /\ AllInBound' /\ ClosestK'
             /\ UNCHANGED <<bound, tree>>
  <2>1. /\ phase = "idle"
        /\ query' = [NoQuery EXCEPT !.op = "find", !.at = p, !.accepts = accepts, !.box = bound]
        /\ IF DOMAIN tree = {} THEN ReadEmpty(query')
           ELSE Start(query', Region) /\ UNCHANGED bound
    BY <1>1, <1>5 DEF Matching, Start, ReadEmpty
  <2>2. accepts \in SUBSET Item /\ p \in [x : Int, y : Int]
    BY FilterAssumption, PointAssumption
  <2>a. query' = Asking("find", p, accepts, 0, NoLimit, Region)
    BY <1>1, <2>1, NoQueryIs DEF Asking
  <2>3. QueryOK' /\ query'.op = "find" /\ query'.box = Region /\ query'.limit = NoLimit
    BY <2>a, <2>2, NoQueryIs, RegionAssumption DEF QueryOK, Asking
  <2> QED
    BY <1>1, <2>1, <2>3, ReadInv
<1>6. ASSUME NEW p \in Point, NEW accepts \in Filter, NEW k \in 0..MaxK,
             NEW limit \in Distances \cup {NoLimit}, KNearest(p, k, accepts, limit)
      PROVE  /\ QueryOK' /\ Idle' /\ Walk' /\ FindsClosest' /\ AllInBound' /\ ClosestK'
             /\ UNCHANGED <<bound, tree>>
  <2> DEFINE raised == [bound EXCEPT !.right = Ceil(@), !.top = Ceil(@)]
  <2>1. raised = Region /\ [raised EXCEPT !.right = bound.right] = Region
        /\ [raised EXCEPT !.right = raised.right] = Region
    BY <1>1, RegionAssumption DEF WholeEdges
  <2>2. /\ phase = "idle"
        /\ query' = [NoQuery EXCEPT !.op = "nearest", !.at = p, !.accepts = accepts, !.k = k,
                                    !.limit = limit, !.box = bound]
        /\ IF DOMAIN tree = {} THEN ReadEmpty(query')
           ELSE Start(query', Region) /\ UNCHANGED bound
    BY <1>1, <1>6, <2>1 DEF KNearest, Start, ReadEmpty
  <2>3. /\ accepts \in SUBSET Item /\ p \in [x : Int, y : Int] /\ k \in Nat
        /\ limit \in Nat \cup {NoLimit}
    BY FilterAssumption, PointAssumption, DistancesAssumption
  <2>a. query' = Asking("nearest", p, accepts, k, limit, Region)
    BY <1>1, <2>2, NoQueryIs DEF Asking
  <2>4. QueryOK' /\ query'.op = "nearest" /\ query'.box = Region
    BY <2>a, <2>3, RegionAssumption DEF QueryOK, Asking
  <2> QED
    BY <1>1, <2>2, <2>4, ReadInv
<1>7. ASSUME NEW window \in Window, NEW accepts \in Filter, InBound(window, accepts)
      PROVE  /\ QueryOK' /\ Idle' /\ Walk' /\ FindsClosest' /\ AllInBound' /\ ClosestK'
             /\ UNCHANGED <<bound, tree>>
  <2>1. /\ phase = "idle"
        /\ query' = [NoQuery EXCEPT !.op = "inbound", !.accepts = accepts, !.box = window]
        /\ IF DOMAIN tree = {} THEN ReadEmpty(query')
           ELSE Start(query', Region) /\ UNCHANGED bound
    BY <1>1, <1>7 DEF InBound, Start, ReadEmpty
  <2>2. /\ accepts \in SUBSET Item
        /\ window \in [left : Int, right : Int, bottom : Int, top : Int]
    BY FilterAssumption, WindowAssumption
  <2>a. query' = Asking("inbound", [x |-> 0, y |-> 0], accepts, 0, NoLimit, window)
    BY <2>1, NoQueryIs DEF Asking
  <2>3. QueryOK' /\ query'.op = "inbound"
    BY <2>a, <2>2, NoQueryIs DEF QueryOK, Asking
  <2> QED
    BY <1>1, <2>1, <2>3, ReadInv
<1> QED
  BY <1>2, <1>3, <1>4, <1>5, <1>6, <1>7 DEF Begin

-------------------------------------------------------------------------------
\* Every step of the tree keeps it sound.
LEMMA NextSound ==
  ASSUME Sound, [Next]_<<bound, tree>>
  PROVE  Sound'
<1>1. CASE \E v \in Item : Add(v)
  BY <1>1, AddSound
<1>2. CASE \E n \in DOMAIN tree : TakeOut(n)
  BY <1>2, TakeOutSound
<1>3. CASE UNCHANGED <<bound, tree>>
  BY <1>3 DEF Sound, TypeOK, BoundHolds, InCell
<1> QED
  BY <1>1, <1>2, <1>3 DEF Next

\* Remove takes out the value it found, and every other call leaves the tree.
LEMMA AnswerTakesOut ==
  ASSUME Sound, QueryOK, Walk, Answer
  PROVE  IF query.op = "remove" /\ found # << >>
         THEN found[1].node \in Filled(tree) /\ TakeOut(found[1].node)
         ELSE UNCHANGED <<bound, tree>>
<1>1. /\ PendingOK /\ FoundOK /\ Judged /\ RingOK /\ OpOK /\ pending = << >>
      /\ UNCHANGED bound
      /\ tree' = IF query.op = "remove" /\ found # << >>
                 THEN Without(tree, found[1].node) ELSE tree
  BY DEF Walk, Answer
<1>2. CASE query.op = "remove" /\ found # << >>
  <2>1. found[1].node \in Candidates
    BY <1>1, <1>2, ClosestFound
  <2>2. found[1].node \in Filled(tree)
    BY <2>1 DEF Candidates
  <2> QED
    BY <1>1, <1>2, <2>2 DEF TakeOut
<1> QED
  BY <1>1, <1>2

\* Every step of the calls is a step of the tree, or none.
LEMMA Implements ==
  ASSUME WholeEdges, SearchInv, [SearchNext]_<<bound, tree, call>>
  PROVE  [Next]_<<bound, tree>>
<1>1. CASE Begin
  BY <1>1, BeginInv DEF Next
<1>2. CASE Prune \/ Visit \/ Return
  BY <1>2 DEF Prune, Visit, Return
<1>3. CASE Answer
  <2>1. Sound /\ QueryOK /\ Walk
    BY DEF SearchInv
  <2>2. \A n \in Filled(tree) : n \in DOMAIN tree
    BY DEF Filled
  <2> QED
    BY <1>3, <2>1, <2>2, AnswerTakesOut DEF Next
<1>4. CASE UNCHANGED <<bound, tree, call>>
  BY <1>4
<1> QED
  BY <1>1, <1>2, <1>3, <1>4 DEF SearchNext

\* The first state.
LEMMA SearchStart ==
  ASSUME SearchInit
  PROVE  SearchInv
<1>1. Sound
  BY InitSound DEF SearchInit
<1>2. phase = "idle" /\ query = NoQuery /\ Idle
  BY DEF SearchInit, Idle
<1>3. QueryOK
  BY <1>2, NoQueryIs DEF QueryOK
<1> QED
  BY <1>1, <1>2, <1>3 DEF SearchInv, Walk, FindsClosest, AllInBound, ClosestK

\* Every step of the calls.
LEMMA SearchStep ==
  ASSUME WholeEdges, SearchInv, [SearchNext]_<<bound, tree, call>>
  PROVE  SearchInv'
<1>1. Sound'
  BY Implements, NextSound DEF SearchInv
<1>2. Sound /\ QueryOK /\ Idle /\ Walk
  BY DEF SearchInv
<1>3. CASE Begin
  BY <1>1, <1>3, BeginInv DEF SearchInv
<1>4. CASE Prune
  <2>1. phase' = "visiting" /\ UNCHANGED query
    BY <1>4 DEF Prune
  <2>2. QueryOK'
    BY <1>2, <2>1 DEF QueryOK
  <2>3. Walk'
    BY <1>2, <1>4, PruneWalk
  <2> QED
    BY <1>1, <2>1, <2>2, <2>3, Started DEF SearchInv
<1>5. CASE Visit
  <2>1. phase' # "idle" /\ phase' # "answered" /\ UNCHANGED query
    BY <1>5 DEF Visit, Skip, TakeClosest, TakeNear, TakeInside
  <2>2. QueryOK'
    BY <1>2, <2>1 DEF QueryOK
  <2>3. Walk'
    BY <1>2, <1>5, VisitWalk
  <2> QED
    BY <1>1, <2>1, <2>2, <2>3, Started DEF SearchInv
<1>6. CASE Answer
  <2>1. phase' = "answered" /\ UNCHANGED query
    BY <1>6 DEF Answer
  <2>2. QueryOK' /\ Idle' /\ Walk'
    BY <1>2, <2>1 DEF QueryOK, Idle, Walk
  <2> QED
    BY <1>1, <1>2, <1>6, <2>2, AnswerFinds, AnswerInBound, AnswerClosestK DEF SearchInv
<1>7. CASE Return
  <2>1. phase' = "idle" /\ query' = NoQuery /\ Idle'
    BY <1>7 DEF Return, Idle
  <2>2. QueryOK'
    BY <2>1, NoQueryIs DEF QueryOK
  <2> QED
    BY <1>1, <2>1, <2>2 DEF SearchInv, Walk, FindsClosest, AllInBound, ClosestK
<1>8. CASE UNCHANGED <<bound, tree, call>>
  <2>1. UNCHANGED <<bound, tree, phase, query, pending, found, reach, ring, answer>>
    BY <1>8 DEF call
  <2>2. QueryOK' /\ Idle'
    BY <1>2, <2>1 DEF QueryOK, Idle
  <2>3. Walk'
    BY <1>2, <2>1 DEF Walk, PendingOK, FoundOK, Judged, RingOK, OpOK, Tasks, Apart, Covers,
       Entries, Entry, Candidates, Filled, Taken, Eligible, Asked, Beyond
  <2>4. FindsClosest' /\ AllInBound' /\ ClosestK'
    BY <2>1 DEF SearchInv, FindsClosest, AllInBound, ClosestK, Candidates, Filled, Occurrences
  <2> QED
    BY <1>1, <2>2, <2>3, <2>4 DEF SearchInv
<1> QED
  BY <1>3, <1>4, <1>5, <1>6, <1>7, <1>8 DEF SearchNext

\* The walk's invariant holds of every search.
THEOREM SearchInvariant ==
  ASSUME WholeEdges
  PROVE  SearchSpec => []SearchInv
<1>1. SearchInit => SearchInv
  BY SearchStart
<1>2. SearchInv /\ [SearchNext]_<<bound, tree, call>> => SearchInv'
  BY SearchStep
<1> QED
  BY <1>1, <1>2, PTL DEF SearchSpec

\* Find and Matching return a value that is accepted and closest, in every tree a
\* program can build, although the walk leaves out whole boxes.
THEOREM Closest ==
  ASSUME WholeEdges
  PROVE  SearchSpec => []FindsClosest
<1>1. SearchInv => FindsClosest
  BY DEF SearchInv
<1> QED
  BY <1>1, SearchInvariant, PTL

\* KNearest and KNearestMatching return the k nearest, nearest first, each as often
\* as it is there, although the heap forgets all but k.
THEOREM KClosest ==
  ASSUME WholeEdges
  PROVE  SearchSpec => []ClosestK
<1>1. SearchInv => ClosestK
  BY DEF SearchInv
<1> QED
  BY <1>1, SearchInvariant, PTL

\* InBound and InBoundMatching return all the values of the box, each as often as
\* it is there.
THEOREM AllOfBox ==
  ASSUME WholeEdges
  PROVE  SearchSpec => []AllInBound
<1>1. SearchInv => AllInBound
  BY DEF SearchInv
<1> QED
  BY <1>1, SearchInvariant, PTL

\* The calls implement the tree: an Add or the end of a Remove is one step of it,
\* and nothing else changes it.
THEOREM SearchRefinement ==
  ASSUME WholeEdges
  PROVE  SearchSpec => Spec
<1>1. SearchInit => Init
  BY DEF SearchInit
<1>2. SearchInv /\ [SearchNext]_<<bound, tree, call>> => [Next]_<<bound, tree>>
  BY Implements
<1> QED
  BY <1>1, <1>2, SearchInvariant, PTL DEF SearchSpec, Spec

\* So in a program that searches, too, the tree is sound, and changes by one
\* value at a time.
THEOREM SearchSound ==
  ASSUME WholeEdges
  PROVE  SearchSpec => []Sound /\ OneAtATime
  BY SearchRefinement, AlwaysSound, OneByOne, PTL

\* What the end of a Remove takes out.
LEMMA AnswerRemoves ==
  ASSUME Sound, QueryOK, Walk, Answer, query.op = "remove"
  PROVE  IF answer' = << >> THEN Candidates = {} /\ UNCHANGED tree
         ELSE /\ held' = [held EXCEPT ![answer'[1]] = @ - 1]
              /\ answer'[1] \in query.accepts
              /\ \A n \in Candidates :
                   Away(answer'[1], query.at) <= Away(tree[n], query.at)
<1>1. /\ PendingOK /\ FoundOK /\ Judged /\ RingOK /\ OpOK /\ pending = << >>
      /\ answer' = Values(found)
  BY DEF Walk, Answer, Values
<1>2. /\ found \in Seq(Entries) /\ answer' \in Seq(Item) /\ Len(answer') = Len(found)
      /\ \A i \in 1..Len(found) : answer'[i] = tree[found[i].node]
  BY <1>1, ValuesAre DEF FoundOK
<1>3. /\ found = << >> => Candidates = {}
      /\ found # << >> =>
           /\ Len(found) = 1 /\ found[1].node \in Candidates
           /\ \A n \in Candidates :
                Away(tree[found[1].node], query.at) <= Away(tree[n], query.at)
  BY <1>1, ClosestFound
<1>4. answer' = << >> <=> found = << >>
  BY <1>2, EmptySeq
<1>5. CASE found = << >>
  BY <1>3, <1>4, <1>5, AnswerTakesOut
<1>6. CASE found # << >>
  <2>1. answer'[1] = tree[found[1].node] /\ found[1].node \in Candidates
    BY <1>2, <1>3, <1>6
  <2>2. tree[found[1].node] \in query.accepts /\ found[1].node \in Filled(tree)
    BY <2>1 DEF Candidates
  <2>3. TakeOut(found[1].node)
    BY <1>6, AnswerTakesOut
  <2>4. held' = [held EXCEPT ![tree[found[1].node]] = @ - 1]
    <3>1. found[1].node \in DOMAIN tree
      BY <2>2 DEF Filled
    <3> QED
      BY <3>1, <2>3, TakeOutHeld
  <2> QED
    BY <1>3, <1>4, <1>6, <2>1, <2>2, <2>4
<1> QED
  BY <1>5, <1>6

\* Remove takes out one value, which its filter accepts, and none of the accepted
\* values is closer.
THEOREM Removes ==
  ASSUME WholeEdges
  PROVE  SearchSpec => RemovesClosest
<1> DEFINE Removal ==
      query.op = "remove" /\ phase' = "answered" =>
        IF answer' = << >> THEN Candidates = {} /\ UNCHANGED tree
        ELSE /\ held' = [held EXCEPT ![answer'[1]] = @ - 1]
             /\ answer'[1] \in query.accepts
             /\ \A n \in Candidates :
                  Away(answer'[1], query.at) <= Away(tree[n], query.at)
<1>1. SearchInv /\ [SearchNext]_<<bound, tree, call>> => [Removal]_<<tree, call>>
  <2> SUFFICES ASSUME SearchInv, [SearchNext]_<<bound, tree, call>>,
                      query.op = "remove", phase' = "answered",
                      ~UNCHANGED <<tree, call>>
               PROVE  Removal
    OBVIOUS
  <2>1. Sound /\ QueryOK /\ Idle /\ Walk
    BY DEF SearchInv
  <2>2. phase # "idle"
    BY <2>1, NoQueryIs DEF Idle
  <2>3. ~Begin
    BY <2>2 DEF Begin, AddValue, Refuse, Remove, Matching, KNearest, InBound
  <2>4. ~Prune /\ ~Visit /\ ~Return
    BY DEF Prune, Visit, Return, Skip, TakeClosest, TakeNear, TakeInside
  <2>5. Answer
    BY <2>3, <2>4 DEF SearchNext, call
  <2> QED
    BY <2>1, <2>5, AnswerRemoves
<1> QED
  BY <1>1, SearchInvariant, PTL DEF SearchSpec, RemovesClosest

-------------------------------------------------------------------------------
\* nearestVisitor reads the top of an empty heap only when no value was asked for.
LEMMA NearPanics ==
  ASSUME Sound, QueryOK, FoundOK, RingOK, OpOK, phase = "visiting", phase' = "panic",
         NEW n \in DOMAIN tree, TakeNear(n), n \in Covers(tree, pending)
  PROVE  query.op = "nearest" /\ query.k = 0
<1> DEFINE heap == Push(found, Entry(n))
           full == Len(heap) > query.k
<1>1. /\ query.op = "nearest" /\ Takes(n)
      /\ (IF full THEN Pop(heap) ELSE heap) = << >>
  BY DEF TakeNear
<1>2. /\ heap \in Seq(Entries) /\ Heap(heap) /\ IsInjective(heap)
      /\ Len(heap) = Len(found) + 1 /\ found \in Seq(Entries)
  BY <1>1, Grown DEF FoundOK
<1> HIDE DEF heap
<1>3. /\ Len(found) \in Nat /\ query.k \in Nat /\ Len(found) <= query.k
      /\ \A d \in Entries : d.distance \in Int
  BY <1>1, <1>2, EntryIs, LenProperties DEF OpOK, QueryOK
<1>4. Len(heap) \in Nat /\ Len(heap) > 0 /\ heap # << >>
  BY <1>2, <1>3, EmptySeq
<1>5. Len(Pop(heap)) = Len(heap) - 1 /\ Pop(heap) = << >>
  BY <1>1, <1>2, <1>3, <1>4, PopIs
<1>6. Len(heap) = 1
  BY <1>4, <1>5, EmptySeq
<1> QED
  BY <1>1, <1>2, <1>3, <1>4, <1>6

\* The two calls that end a program: KNearest for no value, and Remove from a
\* tree that never held one.
PanicKnown ==
  phase = "panic" => \/ query.op = "nearest" /\ query.k = 0
                     \/ query.op = "remove" /\ DOMAIN tree = {}

\* No other call ends in a panic: neither an empty box, nor a filter that
\* accepts nothing, nor a root that has lost its value is the end of a program.
THEOREM Panics ==
  ASSUME WholeEdges
  PROVE  SearchSpec => []PanicKnown
<1>1. SearchInit => PanicKnown
  BY DEF SearchInit, PanicKnown
<1>2. SearchInv /\ PanicKnown /\ [SearchNext]_<<bound, tree, call>> => PanicKnown'
  <2> SUFFICES ASSUME SearchInv, PanicKnown, [SearchNext]_<<bound, tree, call>>,
                      phase' = "panic"
               PROVE  PanicKnown'
    BY DEF PanicKnown
  <2>1. Sound /\ QueryOK /\ Idle /\ Walk
    BY DEF SearchInv
  <2>2. CASE Begin
    <3>1. PICK v \in Item : \E accepts \in Filter \cup {AtPlaceOf(v)} : Remove(v, accepts)
      BY <2>1, <2>2 DEF Begin, AddValue, Refuse, Matching, KNearest, InBound, ReadEmpty, Start,
         call
    <3>2. query'.op = "remove" /\ DOMAIN tree' = {}
      <4>0. PICK accepts \in Filter \cup {AtPlaceOf(v)} : Remove(v, accepts)
        BY <3>1
      <4>1. NoQuery.op = "none" /\ DOMAIN NoQuery = {"op", "at", "accepts", "k", "limit", "box"}
        BY NoQueryIs
      <4>2. DOMAIN tree = {} /\ UNCHANGED tree
        BY <4>0 DEF Remove, Start
      <4>3. query' = [NoQuery EXCEPT !.op = "remove", !.at = [x |-> X[v], y |-> Y[v]],
                                     !.accepts = accepts, !.box = bound]
        BY <4>0, <4>2 DEF Remove
      <4> QED
        BY <4>1, <4>2, <4>3
    <3> QED
      BY <3>2 DEF PanicKnown
  <2>3. CASE Prune \/ Answer \/ Return
    BY <2>3 DEF Prune, Answer, Return
  <2>4. CASE Visit
    <3> DEFINE n == Head(pending).node
    <3>1. phase = "visiting" /\ UNCHANGED query /\ TakeNear(n)
      BY <2>4 DEF Visit, Skip, TakeClosest, TakeInside
    <3>2. PendingOK /\ FoundOK /\ RingOK /\ OpOK
      BY <2>1, <3>1 DEF Walk
    <3>3. n \in DOMAIN tree /\ n \in Covers(tree, pending)
      BY <2>1, <2>4, <3>2, VisitOnward DEF Visit
    <3> QED
      BY <2>1, <3>1, <3>2, <3>3, NearPanics DEF PanicKnown
  <2>5. CASE UNCHANGED <<bound, tree, call>>
    BY <2>5 DEF PanicKnown, call
  <2> QED
    BY <2>2, <2>3, <2>4, <2>5 DEF SearchNext
<1> QED
  BY <1>1, <1>2, SearchInvariant, PTL DEF SearchSpec
===============================================================================
