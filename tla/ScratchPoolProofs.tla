--------------------------- MODULE ScratchPoolProofs ---------------------------
(***************************************************************************)
(* For any number of goroutines, any depth and any size of the pool: no    *)
(* two calls ever share the storage of a buffer, and nobody writes over    *)
(* what an open object has collected, wherever the slices of buffers move. *)
(***************************************************************************)
EXTENDS ScratchPool, FiniteSetTheorems, TLAPS

\* The image of a finite set is finite and not larger.
LEMMA Image ==
  ASSUME NEW S, IsFiniteSet(S), NEW f, DOMAIN f = S
  PROVE  /\ IsFiniteSet({f[x] : x \in S})
         /\ Cardinality({f[x] : x \in S}) <= Cardinality(S)
<1> DEFINE T == {f[x] : x \in S}
           h == [x \in S |-> f[x]]
<1>1. h \in Surjection(S, T)
  BY DEF Surjection
<1> HIDE DEF h, T
<1>2. IsFiniteSet(T) /\ Cardinality(T) <= Cardinality(S)
  BY <1>1, FS_Surjection
<1> QED
  BY <1>2 DEF T

\* The indexes of the elements and of the open objects, and what they hold.
LEMMA Indexes ==
  ASSUME Inv, NEW g \in Goroutine
  PROVE  /\ slice[g] \in Seq(Cell) /\ Len(slice[g]) \in Nat
         /\ DOMAIN slice[g] = 1..Len(slice[g])
         /\ live[g] \in Seq(Object) /\ Len(live[g]) \in Nat
         /\ DOMAIN live[g] = 1..Len(live[g])
         /\ Len(live[g]) <= Len(slice[g]) /\ Len(slice[g]) <= MaxDepth
         /\ \A n \in 1..Len(slice[g]) : slice[g][n] \in Own(n)
         /\ \A n \in 1..Len(live[g]) : live[g][n] \in Object
<1>1. slice[g] \in Seq(Cell) /\ live[g] \in Seq(Object)
  BY DEF Inv, PoolSound, TypeOK
<1>2. DOMAIN slice[g] = 1..Len(slice[g]) /\ DOMAIN live[g] = 1..Len(live[g])
  BY <1>1
<1>3. /\ Len(live[g]) <= Len(slice[g]) /\ Len(slice[g]) <= MaxDepth
      /\ \A n \in DOMAIN slice[g] : slice[g][n] \in Own(n)
  BY DEF Inv, PoolSound, PointersValid, Placed
<1> QED
  BY <1>1, <1>2, <1>3

\* The n-th open object, wherever its element is, has a cell for n-th elements.
LEMMA OwnCell ==
  ASSUME Inv, NEW g \in Goroutine, NEW n \in 1..Len(live[g])
  PROVE  CellOf(g, n) \in Own(n) /\ n \in 1..MaxDepth /\ n \in 1..Len(slice[g])
<1>1. n \in 1..Len(slice[g]) /\ n \in 1..MaxDepth
  BY Indexes, MaxDepthAssumption
<1>2. slice[g][n] \in Own(n)
  BY <1>1, Indexes
<1>3. live[g][n].cell \in Own(n)
  BY Indexes DEF Inv, PoolSound, PointersValid
<1> QED
  BY <1>1, <1>2, <1>3 DEF CellOf

\* The storage a call reaches: through its slice or through an open object.
LEMMA InReach ==
  ASSUME NEW g, NEW s
  PROVE  s \in Reach(g) <=>
           /\ s # None
           /\ \/ \E n \in DOMAIN slice[g] : slice[g][n] = s
              \/ \E n \in DOMAIN live[g] : CellOf(g, n) = s
  BY DEF Reach, Range

\* The same of the state after a step.
LEMMA InReachAfter ==
  ASSUME NEW g, NEW s
  PROVE  s \in Reach(g)' <=>
           /\ s # None
           /\ \/ \E n \in DOMAIN slice'[g] : slice'[g][n] = s
              \/ \E n \in DOMAIN live'[g] : CellOf(g, n)' = s
  BY DEF Reach, Range

\* The storage of a slice in the pool.
LEMMA InStorage ==
  ASSUME NEW c, NEW s
  PROVE  s \in StorageIn(c) <=> s # None /\ \E n \in DOMAIN c : c[n] = s
  BY DEF StorageIn, Range

\* A free storage exists: of the numbers of the n-th elements, every slice and
\* every call takes one at most, and an object left behind one more.
LEMMA FreeExists ==
  ASSUME Inv, NEW n \in 1..MaxDepth
  PROVE  \E i \in Number : <<n, i>> \notin Used
<1> DEFINE inPool == [c \in pool |-> c[n][2]]
           inSlice == [g \in Goroutine |-> slice[g][n][2]]
           inObject == [g \in Goroutine |-> CellOf(g, n)[2]]
           A == {inPool[x] : x \in pool}
           B == {inSlice[x] : x \in Goroutine}
           C == {inObject[x] : x \in Goroutine}
           T == (A \cup B) \cup C
<1>1. /\ IsFiniteSet(pool) /\ Cardinality(pool) <= MaxPooled
      /\ IsFiniteSet(Goroutine)
  BY GoroutineAssumption DEF Inv, PoolSound, PointersValid
<1>2. IsFiniteSet(A) /\ Cardinality(A) <= Cardinality(pool)
  BY <1>1, Image
<1>3. IsFiniteSet(B) /\ Cardinality(B) <= Cardinality(Goroutine)
  <2> HIDE DEF inSlice
  <2>1. DOMAIN inSlice = Goroutine
    BY DEF inSlice
  <2> QED
    BY <1>1, <2>1, Image
<1>4. IsFiniteSet(C) /\ Cardinality(C) <= Cardinality(Goroutine)
  <2> HIDE DEF inObject
  <2>1. DOMAIN inObject = Goroutine
    BY DEF inObject
  <2> QED
    BY <1>1, <2>1, Image
<1>5. ASSUME NEW i, <<n, i>> \in Used PROVE i \in T
  <2>1. CASE \E g \in Goroutine : <<n, i>> \in Reach(g)
    <3>1. PICK g \in Goroutine : <<n, i>> \in Reach(g)
      BY <2>1
    <3>2. ASSUME NEW m \in DOMAIN slice[g], slice[g][m] = <<n, i>>
          PROVE  i \in B
      <4>1. slice[g][m] \in Own(m) /\ <<n, i>> # None
        BY <3>1, Indexes, InReach
      <4>2. m = n
        BY <3>2, <4>1 DEF Own
      <4> QED
        BY <3>2, <4>2
    <3>3. ASSUME NEW m \in DOMAIN live[g], CellOf(g, m) = <<n, i>>
          PROVE  i \in C
      <4>1. CellOf(g, m) \in Own(m) /\ <<n, i>> # None
        BY <3>1, OwnCell, Indexes, InReach
      <4>2. m = n
        BY <3>3, <4>1 DEF Own
      <4> QED
        BY <3>3, <4>2
    <3> QED
      BY <3>1, <3>2, <3>3, InReach
  <2>2. CASE \E c \in pool : <<n, i>> \in StorageIn(c)
    <3>1. PICK c \in pool : <<n, i>> \in StorageIn(c)
      BY <2>2
    <3>2. PICK m \in DOMAIN c : c[m] = <<n, i>>
      BY <3>1, InStorage
    <3>3. c[m] \in Own(m) /\ <<n, i>> # None
      BY <3>1, <3>2, InStorage DEF Inv, PoolSound, PointersValid, Placed
    <3>4. m = n
      BY <3>2, <3>3 DEF Own
    <3> QED
      BY <3>2, <3>4
  <2> QED
    BY <1>5, <2>1, <2>2 DEF Used
<1> HIDE DEF A, B, C
<1>6. IsFiniteSet(A \cup B)
      /\ Cardinality(A \cup B) <= Cardinality(A) + Cardinality(B)
  <2>1. /\ Cardinality(A \cup B)
             = Cardinality(A) + Cardinality(B) - Cardinality(A \cap B)
        /\ IsFiniteSet(A \cup B) /\ IsFiniteSet(A \cap B)
    BY <1>2, <1>3, FS_Union, FS_Intersection
  <2> QED
    BY <1>2, <1>3, <2>1, FS_CardinalityType
<1>7. IsFiniteSet(T)
      /\ Cardinality(T) <= Cardinality(A \cup B) + Cardinality(C)
  <2>1. /\ Cardinality(T)
             = Cardinality(A \cup B) + Cardinality(C) - Cardinality((A \cup B) \cap C)
        /\ IsFiniteSet(T) /\ IsFiniteSet((A \cup B) \cap C)
    BY <1>4, <1>6, FS_Union, FS_Intersection
  <2> QED
    BY <1>4, <1>6, <2>1, FS_CardinalityType
<1>8. /\ IsFiniteSet(Number)
      /\ Cardinality(Number) = MaxPooled + 2 * Cardinality(Goroutine) + 1
  <2>1. Cardinality(Goroutine) \in Nat
    BY <1>1, FS_CardinalityType
  <2>2. MaxPooled + 2 * Cardinality(Goroutine) + 1 \in Nat \ {0}
    BY <2>1, MaxPooledAssumption
  <2> DEFINE m == MaxPooled + 2 * Cardinality(Goroutine) + 1
  <2> HIDE DEF m
  <2>3. IsFiniteSet(1..m) /\ Cardinality(1..m) = m
    BY <2>2, FS_Interval DEF m
  <2> QED
    BY <2>3 DEF Number, m
<1>9. Cardinality(T) < Cardinality(Number)
  <2>1. /\ Cardinality(Goroutine) \in Nat /\ Cardinality(pool) \in Nat
        /\ Cardinality(A) \in Nat /\ Cardinality(B) \in Nat
        /\ Cardinality(C) \in Nat /\ Cardinality(T) \in Nat
        /\ Cardinality(A \cup B) \in Nat
    BY <1>1, <1>2, <1>3, <1>4, <1>6, <1>7, FS_CardinalityType
  <2> QED
    BY <1>1, <1>2, <1>3, <1>4, <1>6, <1>7, <1>8, <2>1, MaxPooledAssumption
<1> HIDE DEF T
<1>10. ~(Number \subseteq T)
  <2>1. Number \subseteq T => Cardinality(Number) <= Cardinality(T)
    BY <1>7, FS_Subset
  <2>2. Cardinality(Number) \in Nat /\ Cardinality(T) \in Nat
    BY <1>7, <1>8, FS_CardinalityType
  <2> QED
    BY <1>9, <2>1, <2>2
<1> QED
  BY <1>5, <1>10

\* The storage a write goes to is an n-th element's, and no other call, no state
\* of the pool and no other object of the call has it.
LEMMA WriteTarget ==
  ASSUME Inv, NEW g \in Goroutine, NEW n \in 1..Len(live[g])
  PROVE  LET s == StorageAfter(g, n)
         IN  /\ s \in StorageId /\ s \in Own(n) /\ s # None
             /\ \A h \in Goroutine : h # g => s \notin Reach(h)
             /\ \A c \in pool : s \notin StorageIn(c)
             /\ \A h \in Goroutine : \A m \in DOMAIN live[h] :
                  h # g \/ m # n => CellOf(h, m) # s
<1> DEFINE s == StorageAfter(g, n)
<1>1. CellOf(g, n) \in Own(n) /\ n \in 1..MaxDepth
  BY OwnCell
<1>2. /\ s \in StorageId /\ s \in Own(n) /\ s # None
      /\ \A h \in Goroutine : h # g => s \notin Reach(h)
      /\ \A c \in pool : s \notin StorageIn(c)
  <2>1. CASE CellOf(g, n) = None
    <3>1. PICK i \in Number : s = <<n, i>> /\ <<n, i>> \notin Used
      BY <1>1, <2>1, FreeExists DEF StorageAfter, FreeStorage
    <3>2. s \in StorageId
      BY <1>1, <3>1 DEF StorageId
    <3>3. s # None
      BY <1>1, <3>1 DEF None
    <3> QED
      BY <3>1, <3>2, <3>3 DEF Own, Cell, Used
  <2>2. CASE CellOf(g, n) # None
    <3>1. s = CellOf(g, n) /\ s \in Cell
      BY <1>1, <2>2 DEF StorageAfter, Own
    <3>2. s \in Reach(g)
      BY <2>2, <3>1, InReach, Indexes
    <3> QED
      BY <1>1, <2>2, <3>1, <3>2 DEF Cell, Inv, PoolSound, CallsApart
  <2> QED
    BY <2>1, <2>2
<1> HIDE DEF s
<1>3. ASSUME NEW h \in Goroutine, NEW m \in DOMAIN live[h], h # g \/ m # n
      PROVE  CellOf(h, m) # s
  <2>1. CASE h # g
    BY <1>2, <1>3, <2>1, InReach
  <2>2. CASE h = g /\ m # n
    <3>1. CellOf(g, m) \in Own(m)
      BY <1>3, <2>2, OwnCell, Indexes
    <3> QED
      BY <1>2, <2>2, <3>1 DEF Own
  <2> QED
    BY <1>3, <2>1, <2>2
<1> QED
  BY <1>2, <1>3 DEF s

\* A write through the n-th of the objects keeps the invariant, if the other
\* objects are some of those that were open and keep their writer.
LEMMA WriteToInv ==
  ASSUME Inv, NEW g \in Goroutine, NEW objects \in Seq(Object),
         NEW n \in 1..Len(objects), Len(objects) <= Len(live[g]),
         \A m \in 1..Len(objects) : objects[m] = live[g][m],
         NEW others \in [StorageId -> Writer],
         \A h \in Goroutine : \A m \in DOMAIN live[h] :
           (h = g => m <= Len(objects)) /\ live[h][m].wrote
             => others[CellOf(h, m)] = writer[CellOf(h, m)],
         WriteTo(g, n, objects, others), UNCHANGED <<pool, running>>
  PROVE  Inv'
<1> DEFINE s == StorageAfter(g, n)
           f == objects[n]
           o == [f EXCEPT !.wrote = TRUE, !.cell = IF f.left THEN s ELSE None]
           new == [objects EXCEPT ![n] = o]
<1>1. /\ live' = [live EXCEPT ![g] = new]
      /\ slice' = IF f.left THEN slice ELSE [slice EXCEPT ![g][n] = s]
      /\ writer' = [others EXCEPT ![s] = <<g, n>>]
  BY DEF WriteTo
<1>2. /\ Len(live[g]) \in Nat /\ n \in 1..Len(live[g]) /\ n \in 1..MaxDepth
      /\ n \in 1..Len(slice[g])
  BY Indexes, OwnCell
<1>3. /\ s \in StorageId /\ s \in Own(n) /\ s # None
      /\ \A h \in Goroutine : h # g => s \notin Reach(h)
      /\ \A c \in pool : s \notin StorageIn(c)
      /\ \A h \in Goroutine : \A m \in DOMAIN live[h] :
           h # g \/ m # n => CellOf(h, m) # s
  BY <1>2, WriteTarget
<1> HIDE DEF s
<1>4. /\ f = live[g][n] /\ f \in Object
      /\ o \in Object /\ o.left = f.left /\ o.wrote = TRUE
      /\ o.cell = IF f.left THEN s ELSE None
  <2>1. f = live[g][n] /\ f \in Object
    OBVIOUS
  <2>2. (IF f.left THEN s ELSE None) \in Cell
    BY <1>3 DEF Cell
  <2> HIDE DEF f
  <2> QED
    BY <2>1, <2>2 DEF Object
<1> HIDE DEF f, o
<1>5. /\ new \in Seq(Object) /\ Len(new) = Len(objects)
      /\ new[n] = o
      /\ \A m \in 1..Len(objects) : m # n => new[m] = live[g][m]
  BY <1>4
<1> HIDE DEF new
\* The lengths and the cells after the write.
<1>6. /\ slice' \in [Goroutine -> Seq(Cell)]
      /\ \A h \in Goroutine : Len(slice'[h]) = Len(slice[h])
      /\ \A h \in Goroutine : \A m \in 1..Len(slice[h]) :
           slice'[h][m] = IF h = g /\ m = n /\ ~f.left THEN s ELSE slice[h][m]
  <2>1. slice \in [Goroutine -> Seq(Cell)] /\ s \in Cell
    BY <1>3 DEF Inv, PoolSound, TypeOK, Cell
  <2> QED
    BY <1>1, <1>2, <2>1
<1>7. /\ live' \in [Goroutine -> Seq(Object)]
      /\ live'[g] = new
      /\ \A h \in Goroutine : h # g => live'[h] = live[h]
  BY <1>1, <1>5 DEF Inv, PoolSound, TypeOK
<1>8. \A h \in Goroutine : \A m \in DOMAIN live'[h] :
        /\ m \in DOMAIN live[h] /\ (h = g => m <= Len(objects))
        /\ h # g \/ m # n => live'[h][m] = live[h][m]
  BY <1>2, <1>5, <1>7, Indexes
<1>9. \A h \in Goroutine : \A m \in DOMAIN live'[h] :
        CellOf(h, m)' = IF h = g /\ m = n THEN s ELSE CellOf(h, m)
  <2> TAKE h \in Goroutine
  <2> TAKE m \in DOMAIN live'[h]
  <2>1. m \in 1..Len(slice[h]) /\ m \in DOMAIN live[h]
    BY <1>8, Indexes, OwnCell
  <2>2. CASE h = g /\ m = n
    BY <1>4, <1>5, <1>6, <1>7, <2>1, <2>2 DEF CellOf
  <2>3. CASE h # g \/ m # n
    BY <1>6, <1>8, <2>1, <2>3 DEF CellOf
  <2> QED
    BY <2>2, <2>3
<1>10. \A h \in Goroutine : Reach(h)' \subseteq
         Reach(h) \cup (IF h = g THEN {s} ELSE {})
  <2> TAKE h \in Goroutine
  <2> SUFFICES ASSUME NEW x \in Reach(h)', h # g \/ x # s
               PROVE  x \in Reach(h)
    OBVIOUS
  <2>1. /\ x # None
        /\ \/ \E m \in DOMAIN slice'[h] : slice'[h][m] = x
           \/ \E m \in DOMAIN live'[h] : CellOf(h, m)' = x
    BY InReachAfter
  <2>2. DOMAIN slice'[h] = 1..Len(slice[h]) /\ DOMAIN slice[h] = 1..Len(slice[h])
    BY <1>6, Indexes
  <2>3. CASE \E m \in DOMAIN slice'[h] : slice'[h][m] = x
    BY <1>6, <2>1, <2>2, <2>3, InReach
  <2>4. CASE \E m \in DOMAIN live'[h] : CellOf(h, m)' = x
    BY <1>8, <1>9, <2>1, <2>4, InReach
  <2> QED
    BY <2>1, <2>3, <2>4
<1>11. TypeOK'
  <2>1. writer' \in [StorageId -> Writer]
    BY <1>1, <1>2, <1>3 DEF Writer
  <2> QED
    BY <1>6, <1>7, <2>1 DEF TypeOK, Inv, PoolSound
<1>12. PointersValid'
  <2>1. /\ \A cells \in pool : Placed(cells)
        /\ IsFiniteSet(pool) /\ Cardinality(pool) <= MaxPooled
    BY DEF Inv, PoolSound, PointersValid
  <2>2. ASSUME NEW h \in Goroutine
        PROVE  /\ Placed(slice'[h]) /\ Len(live'[h]) <= Len(slice'[h])
               /\ \A m \in DOMAIN live'[h] : live'[h][m].cell \in Own(m)
               /\ h \notin running => slice'[h] = << >>
    <3>0. /\ Len(slice'[h]) = Len(slice[h]) /\ Len(slice[h]) <= MaxDepth
          /\ DOMAIN slice'[h] = 1..Len(slice[h])
          /\ Len(live[h]) <= Len(slice[h])
          /\ \A m \in 1..Len(slice[h]) : slice[h][m] \in Own(m)
      BY <1>6, Indexes
    <3>1. Placed(slice'[h])
      <4>1. \A m \in 1..Len(slice[h]) : slice'[h][m] \in Own(m)
        BY <1>3, <1>6, <3>0
      <4> QED
        BY <3>0, <4>1 DEF Placed
    <3>2. Len(live'[h]) <= Len(slice'[h])
      <4>1. CASE h = g
        BY <1>5, <1>7, <3>0, <4>1, Indexes
      <4>2. CASE h # g
        BY <1>7, <3>0, <4>2
      <4> QED
        BY <4>1, <4>2
    <3>3. \A m \in DOMAIN live'[h] : live'[h][m].cell \in Own(m)
      <4> TAKE m \in DOMAIN live'[h]
      <4>1. CASE h = g /\ m = n
        BY <1>3, <1>4, <1>5, <1>7, <4>1 DEF Own, Cell
      <4>2. CASE h # g \/ m # n
        BY <1>8, <4>2 DEF Inv, PoolSound, PointersValid
      <4> QED
        BY <4>1, <4>2
    <3>4. h \notin running => slice'[h] = << >>
      <4>1. h \notin running => slice[h] = << >> /\ h # g
        BY <1>2 DEF Inv, PoolSound, PointersValid
      <4> QED
        BY <1>1, <4>1 DEF Inv, PoolSound, TypeOK
    <3> QED
      BY <3>1, <3>2, <3>3, <3>4
  <2> QED
    BY <2>1, <2>2 DEF PointersValid
<1>13. CallsApart'
  <2>1. \A c : StorageIn(c)' = StorageIn(c)
    BY DEF StorageIn
  <2>2. \A h, i \in Goroutine : h # i => Reach(h)' \cap Reach(i)' = {}
    BY <1>3, <1>10 DEF Inv, PoolSound, CallsApart
  <2>3. \A h \in Goroutine, c \in pool : Reach(h)' \cap StorageIn(c) = {}
    BY <1>3, <1>10 DEF Inv, PoolSound, CallsApart
  <2> QED
    BY <2>2, <2>3 DEF Inv, PoolSound, CallsApart
<1>14. CollectedIntact'
  <2> SUFFICES ASSUME NEW h \in Goroutine, NEW m \in DOMAIN live'[h],
                      live'[h][m].wrote
               PROVE  /\ CellOf(h, m)' # None
                      /\ writer'[CellOf(h, m)'] = <<h, m>>
    BY DEF CollectedIntact
  <2>1. CASE h = g /\ m = n
    BY <1>1, <1>3, <1>9, <2>1
  <2>2. CASE h # g \/ m # n
    <3>1. /\ m \in DOMAIN live[h] /\ live[h][m].wrote
          /\ (h = g => m <= Len(objects))
      BY <1>8, <2>2
    <3>2. CellOf(h, m) # None /\ writer[CellOf(h, m)] = <<h, m>>
      BY <3>1 DEF Inv, CollectedIntact
    <3>3. CellOf(h, m) # s /\ CellOf(h, m)' = CellOf(h, m)
      BY <1>3, <1>9, <2>2, <3>1
    <3>4. CellOf(h, m) \in StorageId
      BY <3>1, <3>2, Indexes, OwnCell DEF Own, Cell
    <3>5. others[CellOf(h, m)] = <<h, m>>
      BY <3>1, <3>2
    <3> QED
      BY <1>1, <3>2, <3>3, <3>4, <3>5
  <2> QED
    BY <2>1, <2>2
<1> QED
  BY <1>11, <1>12, <1>13, <1>14 DEF Inv, PoolSound

-------------------------------------------------------------------------------
\* An empty pool and no calls satisfy the invariant.
LEMMA InitInv == Init => Inv
<1> SUFFICES ASSUME Init PROVE Inv
  OBVIOUS
<1> USE DEF Init
<1>1. << >> \in Seq(Cell) /\ << >> \in Seq(Object)
      /\ Len(<< >>) = 0 /\ DOMAIN << >> = {}
  OBVIOUS
<1>2. TypeOK
  BY <1>1 DEF TypeOK, Writer
<1>3. PointersValid
  <2>1. IsFiniteSet(pool) /\ Cardinality(pool) <= MaxPooled
    BY FS_EmptySet, MaxPooledAssumption
  <2>2. Placed(<< >>)
    BY <1>1, MaxDepthAssumption DEF Placed
  <2> QED
    BY <1>1, <2>1, <2>2 DEF PointersValid
<1>4. \A g \in Goroutine : Reach(g) = {}
  BY <1>1 DEF Reach, Range
<1>5. CallsApart /\ CollectedIntact
  BY <1>1, <1>4 DEF CallsApart, CollectedIntact
<1> QED
  BY <1>2, <1>3, <1>5 DEF Inv, PoolSound

\* A goroutine that is not in a call has no slice and no open objects.
LEMMA Idle ==
  ASSUME Inv, NEW g \in Goroutine, g \notin running
  PROVE  slice[g] = << >> /\ live[g] = << >> /\ Reach(g) = {}
<1>1. slice[g] = << >>
  BY DEF Inv, PoolSound, PointersValid
<1>2. live[g] = << >>
  BY <1>1, Indexes
<1>3. DOMAIN slice[g] = {} /\ DOMAIN live[g] = {}
  BY <1>1, <1>2
<1> QED
  BY <1>1, <1>2, <1>3 DEF Reach, Range

\* What a step that opens, writes and closes nothing has to show: the slices
\* and the pool are well placed and apart, and a call's storage stays the same
\* while it has open objects.
LEMMA QuietStep ==
  ASSUME Inv, UNCHANGED <<live, writer>>,
         running' \subseteq Goroutine,
         pool' \subseteq Seq(Cell), slice' \in [Goroutine -> Seq(Cell)],
         \A cells \in pool' : Placed(cells),
         IsFiniteSet(pool'), Cardinality(pool') <= MaxPooled,
         \A g \in Goroutine :
           /\ Placed(slice'[g])
           /\ slice'[g] = slice[g] \/ live[g] = << >>
           /\ g \notin running' => slice'[g] = << >>,
         CallsApart'
  PROVE  Inv'
<1>1. TypeOK'
  BY DEF TypeOK, Inv, PoolSound
<1>2. PointersValid'
  <2>1. \A g \in Goroutine : Len(live[g]) <= Len(slice'[g])
    <3> TAKE g \in Goroutine
    <3>1. CASE live[g] = << >>
      <4>1. Len(live[g]) = 0 /\ Len(slice'[g]) \in Nat
        BY <3>1
      <4> QED
        BY <4>1
    <3>2. CASE slice'[g] = slice[g]
      BY <3>2, Indexes
    <3> QED
      BY <3>1, <3>2
  <2>2. \A g \in Goroutine : \A n \in DOMAIN live[g] : live[g][n].cell \in Own(n)
    BY DEF Inv, PoolSound, PointersValid
  <2> QED
    BY <2>1, <2>2 DEF PointersValid
<1>3. CollectedIntact'
  <2> SUFFICES ASSUME NEW g \in Goroutine, NEW n \in DOMAIN live[g],
                      live[g][n].wrote
               PROVE  CellOf(g, n)' # None /\ writer[CellOf(g, n)'] = <<g, n>>
    BY DEF CollectedIntact
  <2>1. slice'[g] = slice[g]
    OBVIOUS
  <2>2. CellOf(g, n)' = CellOf(g, n)
    BY <2>1 DEF CellOf
  <2> QED
    BY <2>2 DEF Inv, CollectedIntact
<1> QED
  BY <1>1, <1>2, <1>3 DEF Inv, PoolSound

\* A call starts with storage nobody else has: a state leaves the pool when it
\* is handed out.
LEMMA GetInv ==
  ASSUME Inv, NEW g \in Goroutine, Get(g)
  PROVE  Inv'
<1>1. /\ g \notin running /\ running' = running \cup {g}
      /\ UNCHANGED <<live, writer>>
  BY DEF Get
<1>2. slice[g] = << >> /\ live[g] = << >> /\ Reach(g) = {}
  BY <1>1, Idle
<1>3. /\ running' \subseteq Goroutine /\ slice \in [Goroutine -> Seq(Cell)]
      /\ pool \subseteq Seq(Cell) /\ IsFiniteSet(pool)
      /\ Cardinality(pool) <= MaxPooled /\ Cardinality(pool) \in Nat
      /\ \A c \in pool : Placed(c)
      /\ \A h \in Goroutine : /\ Placed(slice[h])
                              /\ h \notin running => slice[h] = << >>
  BY <1>1, FS_CardinalityType DEF Inv, PoolSound, TypeOK, PointersValid
<1>4. \A h \in Goroutine : slice'[h] = slice[h] => Reach(h)' = Reach(h)
  BY <1>1 DEF Reach, CellOf
<1>5. \A c : StorageIn(c)' = StorageIn(c)
  BY DEF StorageIn
<1>6. CASE UNCHANGED <<pool, slice>>
  <2>1. CallsApart'
    BY <1>4, <1>5, <1>6 DEF CallsApart, Inv, PoolSound
  <2> QED
    BY <1>1, <1>3, <1>6, <2>1, QuietStep
<1>7. ASSUME NEW cells \in pool, pool' = pool \ {cells},
             slice' = [slice EXCEPT ![g] = cells]
      PROVE  Inv'
  <2>1. IsFiniteSet(pool') /\ Cardinality(pool') <= MaxPooled
    <3>1. IsFiniteSet(pool \ {cells}) /\ Cardinality(pool \ {cells}) <= Cardinality(pool)
      BY <1>3, FS_Subset
    <3> QED
      BY <1>3, <1>7, <3>1, FS_CardinalityType, MaxPooledAssumption
  <2>2. /\ slice' \in [Goroutine -> Seq(Cell)] /\ slice'[g] = cells
        /\ \A h \in Goroutine : h # g => slice'[h] = slice[h]
    BY <1>3, <1>7
  <2>3. Reach(g)' = StorageIn(cells)
    <3>1. DOMAIN live'[g] = {}
      BY <1>1, <1>2
    <3> QED
      BY <2>2, <3>1 DEF Reach, StorageIn
  <2>4. CallsApart'
    <3>1. \A h \in Goroutine : h # g => Reach(h)' = Reach(h)
      BY <1>4, <2>2
    <3>2. \A h, i \in Goroutine : h # i => Reach(h)' \cap Reach(i)' = {}
      BY <2>3, <3>1 DEF Inv, PoolSound, CallsApart
    <3>3. \A h \in Goroutine, c \in pool' : Reach(h)' \cap StorageIn(c) = {}
      BY <1>7, <2>3, <3>1 DEF Inv, PoolSound, CallsApart
    <3>4. \A c, d \in pool' : c # d => StorageIn(c) \cap StorageIn(d) = {}
      BY <1>7 DEF Inv, PoolSound, CallsApart
    <3> QED
      BY <1>5, <3>2, <3>3, <3>4 DEF CallsApart
  <2>5. \A h \in Goroutine : /\ Placed(slice'[h])
                             /\ slice'[h] = slice[h] \/ live[h] = << >>
                             /\ h \notin running' => slice'[h] = << >>
    BY <1>1, <1>2, <1>3, <1>7, <2>2
  <2>6. /\ UNCHANGED <<live, writer>> /\ running' \subseteq Goroutine
        /\ slice' \in [Goroutine -> Seq(Cell)] /\ pool' \subseteq Seq(Cell)
        /\ \A c \in pool' : Placed(c)
    BY <1>1, <1>3, <1>7, <2>2
  <2> QED
    BY <2>1, <2>4, <2>5, <2>6, QuietStep
<1> QED
  BY <1>6, <1>7 DEF Get

\* A call gives back what it had, less the storage of large buffers, and keeps
\* nothing of it.
LEMMA PutInv ==
  ASSUME Inv, NEW g \in Goroutine, Put(g)
  PROVE  Inv'
<1>1. /\ g \in running /\ running' = running \ {g} /\ live[g] = << >>
      /\ slice' = [slice EXCEPT ![g] = << >>]
      /\ UNCHANGED <<live, writer>>
  BY DEF Put
<1>2. PICK large \in SUBSET DOMAIN slice[g] :
        pool' = IF Cardinality(pool) < MaxPooled
                THEN pool \cup {[n \in DOMAIN slice[g] |->
                                 IF n \in large THEN None ELSE slice[g][n]]}
                ELSE pool
  BY DEF Put
<1> DEFINE cells == [n \in DOMAIN slice[g] |->
                       IF n \in large THEN None ELSE slice[g][n]]
<1>3. /\ running' \subseteq Goroutine /\ slice \in [Goroutine -> Seq(Cell)]
      /\ pool \subseteq Seq(Cell) /\ IsFiniteSet(pool)
      /\ Cardinality(pool) <= MaxPooled /\ Cardinality(pool) \in Nat
      /\ \A c \in pool : Placed(c)
      /\ \A h \in Goroutine : /\ Placed(slice[h])
                              /\ h \notin running => slice[h] = << >>
  BY <1>1, FS_CardinalityType DEF Inv, PoolSound, TypeOK, PointersValid
<1>4. cells \in Seq(Cell) /\ Placed(cells)
  <2>1. /\ DOMAIN slice[g] = 1..Len(slice[g]) /\ Len(slice[g]) \in Nat
        /\ Len(slice[g]) <= MaxDepth
        /\ \A n \in 1..Len(slice[g]) : slice[g][n] \in Own(n)
    BY Indexes
  <2>2. \A n \in 1..Len(slice[g]) : cells[n] \in Own(n) /\ cells[n] \in Cell
    BY <2>1 DEF Own, Cell
  <2>3. cells = [n \in 1..Len(slice[g]) |-> cells[n]]
    BY <2>1
  <2> DEFINE l == Len(slice[g])
  <2> HIDE DEF cells, l
  <2>a. cells \in [1..l -> Cell] /\ l \in Nat
    BY <2>1, <2>2, <2>3 DEF l
  <2>b. cells \in Seq(Cell) /\ Len(cells) = l
    BY <2>a
  <2>4. cells \in Seq(Cell) /\ Len(cells) = Len(slice[g])
    BY <2>b DEF l
  <2> QED
    BY <2>1, <2>2, <2>4 DEF Placed
<1>5. StorageIn(cells) \subseteq Reach(g)
  BY DEF StorageIn, Reach, Range
<1> HIDE DEF cells
<1>6. pool' = IF Cardinality(pool) < MaxPooled THEN pool \cup {cells} ELSE pool
  BY <1>2 DEF cells
<1>7. /\ pool' \subseteq Seq(Cell) /\ \A c \in pool' : Placed(c)
      /\ IsFiniteSet(pool') /\ Cardinality(pool') <= MaxPooled
  <2>1. CASE Cardinality(pool) < MaxPooled
    <3>1. /\ IsFiniteSet(pool \cup {cells})
          /\ Cardinality(pool \cup {cells}) =
               IF cells \in pool THEN Cardinality(pool) ELSE Cardinality(pool) + 1
      BY <1>3, FS_AddElement
    <3>2. Cardinality(pool \cup {cells}) <= MaxPooled
      BY <1>3, <2>1, <3>1, MaxPooledAssumption
    <3> QED
      BY <1>3, <1>4, <1>6, <2>1, <3>1, <3>2
  <2>2. CASE ~(Cardinality(pool) < MaxPooled)
    BY <1>3, <1>6, <2>2
  <2> QED
    BY <2>1, <2>2
<1>8. /\ slice' \in [Goroutine -> Seq(Cell)] /\ slice'[g] = << >>
      /\ \A h \in Goroutine : h # g => slice'[h] = slice[h]
  <2>1. << >> \in Seq(Cell)
    OBVIOUS
  <2> QED
    BY <1>1, <1>3, <2>1
<1>9. CallsApart'
  <2>1. Reach(g)' = {}
    <3>1. DOMAIN slice'[g] = {} /\ DOMAIN live'[g] = {}
      BY <1>1, <1>8
    <3> QED
      BY <3>1 DEF Reach, Range
  <2>2. \A h \in Goroutine : h # g => Reach(h)' = Reach(h)
    BY <1>1, <1>8 DEF Reach, CellOf
  <2>3. \A c : StorageIn(c)' = StorageIn(c)
    BY DEF StorageIn
  <2>4. \A h, i \in Goroutine : h # i => Reach(h)' \cap Reach(i)' = {}
    BY <2>1, <2>2 DEF Inv, PoolSound, CallsApart
  <2>5. \A h \in Goroutine, c \in pool' : Reach(h)' \cap StorageIn(c) = {}
    BY <1>5, <1>6, <2>1, <2>2 DEF Inv, PoolSound, CallsApart
  <2>6. \A c, d \in pool' : c # d => StorageIn(c) \cap StorageIn(d) = {}
    BY <1>5, <1>6 DEF Inv, PoolSound, CallsApart
  <2> QED
    BY <2>3, <2>4, <2>5, <2>6 DEF CallsApart
<1>10. \A h \in Goroutine : /\ Placed(slice'[h])
                            /\ slice'[h] = slice[h] \/ live[h] = << >>
                            /\ h \notin running' => slice'[h] = << >>
  <2>1. Placed(<< >>)
    BY MaxDepthAssumption DEF Placed
  <2> QED
    BY <1>1, <1>3, <1>8, <2>1
<1>11. UNCHANGED <<live, writer>> /\ running' \subseteq Goroutine
       /\ slice' \in [Goroutine -> Seq(Cell)]
  BY <1>1, <1>3, <1>8
<1> QED
  BY <1>7, <1>9, <1>10, <1>11, QuietStep

\* What a step that changes only the objects of one call has to show: it needs
\* no storage that the call did not have, and every object that has written
\* keeps its cell and its writer.
LEMMA ObjectsStep ==
  ASSUME Inv, NEW g \in running, UNCHANGED <<pool, running>>,
         live' \in [Goroutine -> Seq(Object)],
         slice' \in [Goroutine -> Seq(Cell)],
         writer' \in [StorageId -> Writer],
         Placed(slice'[g]), Len(live'[g]) <= Len(slice'[g]),
         \A h \in Goroutine : h # g => live'[h] = live[h] /\ slice'[h] = slice[h],
         \A m \in DOMAIN live'[g] : live'[g][m].cell \in Own(m),
         Reach(g)' \subseteq Reach(g),
         \A m \in DOMAIN live'[g] : live'[g][m].wrote =>
           m \in DOMAIN live[g] /\ live[g][m].wrote /\ CellOf(g, m)' = CellOf(g, m),
         \A h \in Goroutine : \A m \in DOMAIN live'[h] : live'[h][m].wrote =>
           writer'[CellOf(h, m)] = writer[CellOf(h, m)]
  PROVE  Inv'
<1>1. g \in Goroutine
  BY DEF Inv, PoolSound, TypeOK
<1>2. TypeOK'
  BY DEF Inv, PoolSound, TypeOK
<1>3. PointersValid'
  <2>1. \A h \in Goroutine :
          /\ Placed(slice'[h]) /\ Len(live'[h]) <= Len(slice'[h])
          /\ \A m \in DOMAIN live'[h] : live'[h][m].cell \in Own(m)
          /\ h \notin running => slice'[h] = << >>
    BY DEF Inv, PoolSound, PointersValid
  <2>2. /\ \A cells \in pool : Placed(cells)
        /\ IsFiniteSet(pool) /\ Cardinality(pool) <= MaxPooled
    BY DEF Inv, PoolSound, PointersValid
  <2> QED
    BY <2>1, <2>2 DEF PointersValid
<1>4. \A h \in Goroutine : Reach(h)' \subseteq Reach(h)
  <2> TAKE h \in Goroutine
  <2>1. CASE h = g
    BY <2>1
  <2>2. CASE h # g
    <3>1. live'[h] = live[h] /\ slice'[h] = slice[h]
      BY <2>2
    <3>2. \A m : CellOf(h, m)' = CellOf(h, m)
      BY <3>1 DEF CellOf
    <3>3. ASSUME NEW x \in Reach(h)' PROVE x \in Reach(h)
      <4>1. /\ x # None
            /\ \/ \E n \in DOMAIN slice'[h] : slice'[h][n] = x
               \/ \E n \in DOMAIN live'[h] : CellOf(h, n)' = x
        BY InReachAfter
      <4>2. /\ x # None
            /\ \/ \E n \in DOMAIN slice[h] : slice[h][n] = x
               \/ \E n \in DOMAIN live[h] : CellOf(h, n) = x
        BY <3>1, <3>2, <4>1
      <4> QED
        BY <4>2, InReach
    <3> QED
      BY <3>3
  <2> QED
    BY <2>1, <2>2
<1>5. CallsApart'
  <2>1. \A c : StorageIn(c)' = StorageIn(c)
    BY DEF StorageIn
  <2>2. \A h, i \in Goroutine : h # i => Reach(h)' \cap Reach(i)' = {}
    BY <1>4 DEF Inv, PoolSound, CallsApart
  <2>3. \A h \in Goroutine, c \in pool : Reach(h)' \cap StorageIn(c) = {}
    BY <1>4 DEF Inv, PoolSound, CallsApart
  <2> QED
    BY <2>2, <2>3 DEF Inv, PoolSound, CallsApart
<1>6. CollectedIntact'
  <2> SUFFICES ASSUME NEW h \in Goroutine, NEW m \in DOMAIN live'[h],
                      live'[h][m].wrote
               PROVE  /\ CellOf(h, m)' # None
                      /\ writer'[CellOf(h, m)'] = <<h, m>>
    BY DEF CollectedIntact
  <2>1. /\ m \in DOMAIN live[h] /\ live[h][m].wrote
        /\ CellOf(h, m)' = CellOf(h, m)
    <3>1. CASE h = g
      BY <3>1
    <3>2. CASE h # g
      BY <3>2 DEF CellOf
    <3> QED
      BY <3>1, <3>2
  <2>2. CellOf(h, m) # None /\ writer[CellOf(h, m)] = <<h, m>>
    BY <2>1 DEF Inv, CollectedIntact
  <2> QED
    BY <2>1, <2>2
<1> QED
  BY <1>2, <1>3, <1>5, <1>6 DEF Inv, PoolSound

\* An object opens on the next element of the slice and shares it with none.
LEMMA OpenInSliceInv ==
  ASSUME Inv, NEW g \in Goroutine, OpenInSlice(g)
  PROVE  Inv'
<1> DEFINE l == Len(live[g])
<1>1. /\ g \in running /\ l < Len(slice[g])
      /\ live' = [live EXCEPT ![g] = Append(live[g], InSlice)]
      /\ UNCHANGED <<pool, running, slice, writer>>
  BY DEF OpenInSlice
<1>2. /\ live[g] \in Seq(Object) /\ l \in Nat /\ DOMAIN live[g] = 1..l
      /\ Len(slice[g]) \in Nat /\ DOMAIN slice[g] = 1..Len(slice[g])
      /\ live \in [Goroutine -> Seq(Object)] /\ InSlice \in Object
  BY Indexes DEF Inv, PoolSound, TypeOK, InSlice, Object, Cell
<1>3. /\ live' \in [Goroutine -> Seq(Object)]
      /\ Len(live'[g]) = l + 1 /\ DOMAIN live'[g] = 1..(l + 1)
      /\ live'[g][l + 1] = InSlice
      /\ \A m \in 1..l : live'[g][m] = live[g][m]
      /\ \A h \in Goroutine : h # g => live'[h] = live[h]
  BY <1>1, <1>2
<1> HIDE DEF l
<1>4. \A m \in 1..l : CellOf(g, m)' = CellOf(g, m)
  BY <1>1, <1>3 DEF CellOf
<1>5. \A m : m = l + 1 => CellOf(g, m)' = slice[g][m] /\ m \in DOMAIN slice[g]
  BY <1>1, <1>2, <1>3 DEF CellOf, InSlice, l
<1>6. Reach(g)' \subseteq Reach(g)
  <2> SUFFICES ASSUME NEW x \in Reach(g)' PROVE x \in Reach(g)
    OBVIOUS
  <2>1. /\ x # None
        /\ \/ \E m \in DOMAIN slice[g] : slice[g][m] = x
           \/ \E m \in DOMAIN live'[g] : CellOf(g, m)' = x
    BY <1>1 DEF Reach, Range
  <2>2. ASSUME NEW m \in 1..(l + 1), CellOf(g, m)' = x
        PROVE  x \in Reach(g)
    BY <1>2, <1>4, <1>5, <2>1, <2>2, InReach
  <2> QED
    BY <1>3, <2>1, <2>2, InReach
<1>7. \A m \in DOMAIN live'[g] : live'[g][m].cell \in Own(m)
  <2>1. \A m \in 1..l : live[g][m].cell \in Own(m)
    BY <1>2 DEF Inv, PoolSound, PointersValid
  <2>2. InSlice.cell \in Own(l + 1)
    BY DEF InSlice, Own, Cell
  <2> QED
    BY <1>2, <1>3, <2>1, <2>2
<1>8. \A m \in DOMAIN live'[g] : live'[g][m].wrote =>
        m \in DOMAIN live[g] /\ live[g][m].wrote /\ CellOf(g, m)' = CellOf(g, m)
  BY <1>2, <1>3, <1>4 DEF InSlice
<1>9. \A h \in Goroutine : \A m \in DOMAIN live'[h] : live'[h][m].wrote =>
        writer'[CellOf(h, m)] = writer[CellOf(h, m)]
  BY <1>1
<1>10. /\ slice' \in [Goroutine -> Seq(Cell)] /\ writer' \in [StorageId -> Writer]
       /\ Placed(slice'[g])
       /\ \A h \in Goroutine : h # g => slice'[h] = slice[h]
  BY <1>1 DEF Inv, PoolSound, TypeOK, PointersValid
<1>11. Len(live'[g]) <= Len(slice'[g])
  BY <1>1, <1>2, <1>3 DEF l
<1> QED
  BY <1>1, <1>3, <1>6, <1>7, <1>8, <1>9, <1>10, <1>11, ObjectsStep

\* An object opens on a new element; in place or in a new array, the open
\* objects keep the cells their pointers lead to.
LEMMA OpenGrowingInv ==
  ASSUME Inv, NEW g \in Goroutine, OpenGrowing(g)
  PROVE  Inv'
<1> DEFINE l == Len(live[g])
<1>1. /\ g \in running /\ Len(slice[g]) = l /\ l < MaxDepth
      /\ slice' = [slice EXCEPT ![g] = Append(slice[g], None)]
      /\ UNCHANGED <<pool, running, writer>>
  BY DEF OpenGrowing
<1>2. PICK moves \in BOOLEAN :
        live' = [live EXCEPT ![g] = Append(
                  [n \in DOMAIN live[g] |->
                     IF moves THEN [live[g][n] EXCEPT !.left = TRUE, !.cell = CellOf(g, n)]
                     ELSE live[g][n]], InSlice)]
  BY DEF OpenGrowing
<1> DEFINE moved(n) == [live[g][n] EXCEPT !.left = TRUE, !.cell = CellOf(g, n)]
           behind == [n \in DOMAIN live[g] |-> IF moves THEN moved(n) ELSE live[g][n]]
<1>3. /\ live[g] \in Seq(Object) /\ l \in Nat /\ DOMAIN live[g] = 1..l
      /\ slice[g] \in Seq(Cell) /\ DOMAIN slice[g] = 1..l
      /\ live \in [Goroutine -> Seq(Object)] /\ slice \in [Goroutine -> Seq(Cell)]
      /\ \A n \in 1..l : live[g][n] \in Object
      /\ InSlice \in Object /\ None \in Cell
  BY <1>1, Indexes DEF Inv, PoolSound, TypeOK, InSlice, Object, Cell
<1>4. \A n \in 1..l : /\ moved(n) \in Object /\ moved(n).left = TRUE
                      /\ moved(n).cell = CellOf(g, n)
                      /\ moved(n).wrote = live[g][n].wrote
  <2> TAKE n \in 1..l
  <2>1. live[g][n] \in Object /\ CellOf(g, n) \in Cell
    BY <1>3, OwnCell DEF Own
  <2> QED
    BY <2>1 DEF Object
<1> HIDE DEF moved
<1>5. behind \in Seq(Object) /\ Len(behind) = l
      /\ \A n \in 1..l : behind[n] = IF moves THEN moved(n) ELSE live[g][n]
  <2>1. \A n \in 1..l : behind[n] \in Object
    BY <1>3, <1>4
  <2>2. behind \in [1..l -> Object]
    BY <1>3, <2>1
  <2> HIDE DEF behind, l
  <2>3. behind \in Seq(Object) /\ Len(behind) = l
    BY <1>3, <2>2
  <2> QED
    BY <1>3, <2>3 DEF behind
<1>6. live' = [live EXCEPT ![g] = Append(behind, InSlice)]
  BY <1>2 DEF moved
<1> HIDE DEF behind
<1>7. /\ live' \in [Goroutine -> Seq(Object)]
      /\ Len(live'[g]) = l + 1 /\ DOMAIN live'[g] = 1..(l + 1)
      /\ live'[g][l + 1] = InSlice
      /\ \A m \in 1..l : live'[g][m] = behind[m]
      /\ \A h \in Goroutine : h # g => live'[h] = live[h]
  BY <1>3, <1>5, <1>6
<1>8. /\ slice' \in [Goroutine -> Seq(Cell)]
      /\ Len(slice'[g]) = l + 1 /\ DOMAIN slice'[g] = 1..(l + 1)
      /\ slice'[g][l + 1] = None
      /\ \A m \in 1..l : slice'[g][m] = slice[g][m]
      /\ \A h \in Goroutine : h # g => slice'[h] = slice[h]
  BY <1>1, <1>3
<1> HIDE DEF l
<1>9. \A m \in 1..l : CellOf(g, m)' = CellOf(g, m)
  BY <1>4, <1>5, <1>7, <1>8 DEF CellOf
<1>10. \A m : m = l + 1 => CellOf(g, m)' = None
  BY <1>3, <1>7, <1>8 DEF CellOf, InSlice
<1>11. Reach(g)' \subseteq Reach(g)
  <2> SUFFICES ASSUME NEW x \in Reach(g)' PROVE x \in Reach(g)
    OBVIOUS
  <2>1. /\ x # None
        /\ \/ \E m \in DOMAIN slice'[g] : slice'[g][m] = x
           \/ \E m \in DOMAIN live'[g] : CellOf(g, m)' = x
    BY InReachAfter
  <2>2. ASSUME NEW m \in 1..(l + 1), slice'[g][m] = x
        PROVE  x \in Reach(g)
    <3>1. m \in 1..l
      BY <1>3, <1>8, <2>1, <2>2
    <3> QED
      BY <1>3, <1>8, <2>1, <2>2, <3>1, InReach
  <2>3. ASSUME NEW m \in 1..(l + 1), CellOf(g, m)' = x
        PROVE  x \in Reach(g)
    <3>1. m \in 1..l
      BY <1>3, <1>10, <2>1, <2>3
    <3> QED
      BY <1>3, <1>9, <2>1, <2>3, <3>1, InReach
  <2> QED
    BY <1>7, <1>8, <2>1, <2>2, <2>3
<1>12. \A m \in DOMAIN live'[g] : live'[g][m].cell \in Own(m)
  <2>1. \A m \in 1..l : live[g][m].cell \in Own(m) /\ CellOf(g, m) \in Own(m)
    BY <1>3, OwnCell DEF Inv, PoolSound, PointersValid, l
  <2>2. InSlice.cell \in Own(l + 1)
    BY DEF InSlice, Own, Cell
  <2>3. ASSUME NEW m \in 1..l PROVE live'[g][m].cell \in Own(m)
    <3>1. live'[g][m] = IF moves THEN moved(m) ELSE live[g][m]
      BY <1>5, <1>7
    <3>2. moved(m).cell = CellOf(g, m)
      BY <1>4
    <3> QED
      BY <2>1, <3>1, <3>2
  <2>4. \A m \in 1..(l + 1) : m \in 1..l \/ m = l + 1
    BY <1>3
  <2> QED
    BY <1>7, <2>2, <2>3, <2>4
<1>13. \A m \in DOMAIN live'[g] : live'[g][m].wrote =>
         m \in DOMAIN live[g] /\ live[g][m].wrote /\ CellOf(g, m)' = CellOf(g, m)
  BY <1>3, <1>4, <1>5, <1>7, <1>9 DEF InSlice
<1>14. \A h \in Goroutine : \A m \in DOMAIN live'[h] : live'[h][m].wrote =>
         writer'[CellOf(h, m)] = writer[CellOf(h, m)]
  BY <1>1
<1>15. Placed(slice'[g])
  <2>1. \A m \in 1..(l + 1) : slice'[g][m] \in Own(m)
    <3>1. \A m \in 1..l : slice[g][m] \in Own(m)
      BY <1>1, Indexes DEF l
    <3>2. None \in Own(l + 1)
      BY DEF Own, Cell
    <3> QED
      BY <1>3, <1>8, <3>1, <3>2
  <2>2. l + 1 <= MaxDepth
    BY <1>1, <1>3, MaxDepthAssumption
  <2> QED
    BY <1>8, <2>1, <2>2 DEF Placed
<1>16. writer' \in [StorageId -> Writer] /\ Len(live'[g]) <= Len(slice'[g])
  BY <1>1, <1>3, <1>7, <1>8 DEF Inv, PoolSound, TypeOK
<1> QED
  BY <1>1, <1>7, <1>8, <1>11, <1>12, <1>13, <1>14, <1>15, <1>16, ObjectsStep

\* A cell with storage leads to no other open object's.
LEMMA CellsApart ==
  ASSUME Inv, NEW g \in Goroutine, NEW n \in DOMAIN live[g],
         NEW h \in Goroutine, NEW m \in DOMAIN live[h],
         CellOf(h, m) = CellOf(g, n), CellOf(h, m) # None
  PROVE  h = g /\ m = n
<1>1. CellOf(g, n) \in Own(n) /\ CellOf(h, m) \in Own(m)
  BY OwnCell, Indexes
<1>2. CellOf(g, n) \in Reach(g) /\ CellOf(h, m) \in Reach(h)
  BY InReach
<1>3. h = g
  BY <1>2 DEF Inv, PoolSound, CallsApart
<1> QED
  BY <1>1, <1>3 DEF Own

\* What the innermost object wrote is forgotten, and nothing that another open
\* object wrote.
LEMMA ForgottenKeeps ==
  ASSUME Inv, NEW g \in Goroutine, live[g] # << >>
  PROVE  /\ Forgotten(g) \in [StorageId -> Writer]
         /\ \A h \in Goroutine : \A m \in DOMAIN live[h] :
              (h = g => m <= Len(live[g]) - 1) /\ live[h][m].wrote
                => Forgotten(g)[CellOf(h, m)] = writer[CellOf(h, m)]
<1> DEFINE n == Len(live[g])
<1>1. n \in DOMAIN live[g] /\ n \in Nat
  BY Indexes
<1>2. Forgotten(g) \in [StorageId -> Writer]
  BY DEF Forgotten, Inv, PoolSound, TypeOK, Writer
<1>3. ASSUME NEW h \in Goroutine, NEW m \in DOMAIN live[h],
             h = g => m <= n - 1, live[h][m].wrote
      PROVE  Forgotten(g)[CellOf(h, m)] = writer[CellOf(h, m)]
  <2>1. CellOf(h, m) # None
    BY <1>3 DEF Inv, CollectedIntact
  <2>2. CellOf(h, m) \in StorageId
    BY <1>3, <2>1, Indexes, OwnCell DEF Own, Cell
  <2>3. h # g \/ m # n
    BY <1>1, <1>3, Indexes
  <2>4. CellOf(h, m) # CellOf(g, n)
    BY <1>1, <1>3, <2>1, <2>3, CellsApart
  <2> QED
    BY <2>2, <2>4 DEF Forgotten
<1> QED
  BY <1>2, <1>3

\* The innermost object goes and the others stay as they are.
LEMMA ReleaseInv ==
  ASSUME Inv, NEW g \in Goroutine, Release(g)
  PROVE  Inv'
<1>1. /\ live[g] # << >> /\ writer' = Forgotten(g)
      /\ live' = [live EXCEPT ![g] = Front(live[g])]
      /\ UNCHANGED <<pool, running, slice>>
  BY DEF Release
<1> DEFINE l == Len(live[g]) - 1
           objects == Front(live[g])
<1>2. /\ live[g] \in Seq(Object) /\ l \in Nat /\ l < Len(live[g])
      /\ DOMAIN live[g] = 1..(l + 1) /\ Len(live[g]) <= Len(slice[g])
      /\ live \in [Goroutine -> Seq(Object)]
  BY <1>1, Indexes DEF Inv, PoolSound, TypeOK
<1>3. /\ objects \in Seq(Object) /\ Len(objects) = l
      /\ \A m \in 1..l : objects[m] = live[g][m]
  BY <1>2 DEF Front
<1> HIDE DEF l, objects
<1>4. /\ live' \in [Goroutine -> Seq(Object)]
      /\ Len(live'[g]) = l /\ DOMAIN live'[g] = 1..l
      /\ \A m \in 1..l : live'[g][m] = live[g][m]
      /\ \A h \in Goroutine : h # g => live'[h] = live[h]
  BY <1>1, <1>2, <1>3 DEF objects
<1>5. g \in running
  BY <1>1, Idle
<1>6. \A m \in 1..l : CellOf(g, m)' = CellOf(g, m) /\ m \in DOMAIN live[g]
  BY <1>1, <1>2, <1>4 DEF CellOf
<1>7. Reach(g)' \subseteq Reach(g)
  <2>1. ASSUME NEW x \in Reach(g)' PROVE x \in Reach(g)
    BY <1>1, <1>4, <1>6, InReach, InReachAfter
  <2> QED
    BY <2>1
<1>8. \A m \in DOMAIN live'[g] : live'[g][m].cell \in Own(m)
  BY <1>4, <1>6 DEF Inv, PoolSound, PointersValid
<1>9. \A m \in DOMAIN live'[g] : live'[g][m].wrote =>
        m \in DOMAIN live[g] /\ live[g][m].wrote /\ CellOf(g, m)' = CellOf(g, m)
  BY <1>4, <1>6
<1>10. \A h \in Goroutine : \A m \in DOMAIN live'[h] : live'[h][m].wrote =>
         writer'[CellOf(h, m)] = writer[CellOf(h, m)]
  <2> TAKE h \in Goroutine
  <2> TAKE m \in DOMAIN live'[h]
  <2>1. m \in DOMAIN live[h] /\ live'[h][m] = live[h][m] /\ (h = g => m <= l)
    BY <1>2, <1>4, <1>6
  <2> QED
    BY <1>1, <2>1, ForgottenKeeps DEF l
<1>11. /\ slice' \in [Goroutine -> Seq(Cell)] /\ writer' \in [StorageId -> Writer]
       /\ Placed(slice'[g])
       /\ \A h \in Goroutine : h # g => slice'[h] = slice[h]
  BY <1>1, ForgottenKeeps DEF Inv, PoolSound, TypeOK, PointersValid
<1>12. Len(live'[g]) <= Len(slice'[g])
  <2>1. Len(slice[g]) \in Nat
    BY Indexes
  <2> QED
    BY <1>1, <1>2, <1>4, <2>1
<1> QED
  BY <1>1, <1>4, <1>5, <1>7, <1>8, <1>9, <1>10, <1>11, <1>12, ObjectsStep

\* A member value goes to the innermost object's own storage.
LEMMA WriteMemberInv ==
  ASSUME Inv, NEW g \in Goroutine, WriteMember(g)
  PROVE  Inv'
<1> DEFINE l == Len(live[g])
<1>1. /\ WriteTo(g, l, live[g], writer) /\ live[g] # << >>
      /\ UNCHANGED <<pool, running>>
  BY DEF WriteMember
<1>2. live[g] \in Seq(Object) /\ l \in 1..Len(live[g]) /\ Len(live[g]) <= Len(live[g])
  BY <1>1, Indexes
<1>3. writer \in [StorageId -> Writer]
  BY DEF Inv, PoolSound, TypeOK
<1> HIDE DEF l
<1> QED
  BY <1>1, <1>2, <1>3, WriteToInv

\* The text of the innermost object goes to the storage of the object around it.
LEMMA CloseInnerInv ==
  ASSUME Inv, NEW g \in Goroutine, CloseInner(g)
  PROVE  Inv'
<1> DEFINE l == Len(live[g]) - 1
           objects == Front(live[g])
<1>1. /\ WriteTo(g, l, objects, Forgotten(g)) /\ Len(live[g]) > 1
      /\ UNCHANGED <<pool, running>>
  BY DEF CloseInner
<1>2. /\ live[g] \in Seq(Object) /\ Len(live[g]) \in Nat
      /\ l \in Nat \ {0} /\ l < Len(live[g]) /\ live[g] # << >>
  BY <1>1, Indexes
<1>3. /\ objects \in Seq(Object) /\ Len(objects) = l
      /\ \A m \in 1..l : objects[m] = live[g][m]
  BY <1>2 DEF Front
<1>4. /\ Forgotten(g) \in [StorageId -> Writer]
      /\ \A h \in Goroutine : \A m \in DOMAIN live[h] :
           (h = g => m <= l) /\ live[h][m].wrote
             => Forgotten(g)[CellOf(h, m)] = writer[CellOf(h, m)]
  BY <1>2, ForgottenKeeps
<1> HIDE DEF l, objects
<1>5. l \in 1..Len(objects) /\ Len(objects) <= Len(live[g])
  BY <1>2, <1>3
<1> QED
  BY <1>1, <1>3, <1>4, <1>5, WriteToInv

-------------------------------------------------------------------------------
\* The invariant is inductive.
LEMMA StepInv == Inv /\ [Next]_vars => Inv'
<1> SUFFICES ASSUME Inv, [Next]_vars PROVE Inv'
  OBVIOUS
<1>1. ASSUME NEW g \in Goroutine, Get(g) PROVE Inv'
  BY <1>1, GetInv
<1>2. ASSUME NEW g \in Goroutine, Put(g) PROVE Inv'
  BY <1>2, PutInv
<1>3. ASSUME NEW g \in Goroutine, OpenInSlice(g) PROVE Inv'
  BY <1>3, OpenInSliceInv
<1>4. ASSUME NEW g \in Goroutine, OpenGrowing(g) PROVE Inv'
  BY <1>4, OpenGrowingInv
<1>5. ASSUME NEW g \in Goroutine, WriteMember(g) PROVE Inv'
  BY <1>5, WriteMemberInv
<1>6. ASSUME NEW g \in Goroutine, CloseInner(g) PROVE Inv'
  BY <1>6, CloseInnerInv
<1>7. ASSUME NEW g \in Goroutine, Release(g) PROVE Inv'
  BY <1>7, ReleaseInv
<1>8. CASE UNCHANGED vars
  BY <1>8 DEF vars, Inv, PoolSound, TypeOK, PointersValid, CallsApart,
              CollectedIntact, Reach, CellOf, StorageIn
<1> QED
  BY <1>1, <1>2, <1>3, <1>4, <1>5, <1>6, <1>7, <1>8 DEF Next

\* Every state the goroutines can reach satisfies the inductive invariant.
THEOREM Invariance == Spec => []Inv
  BY InitInv, StepInv, PTL DEF Spec

\* The pool and the memory stay well formed, and no storage of a buffer is ever
\* shared: not by two calls, not by a call and the pool, not within the pool.
THEOREM StorageApart == Spec => []PoolSound
<1>1. Inv => PoolSound
  BY DEF Inv
<1> QED
  BY <1>1, Invariance, PTL

\* What an open object has collected stays there until the object is given
\* back, although its pointer may lead into an array the slice has left.
THEOREM NothingOverwritten == Spec => []CollectedIntact
<1>1. Inv => CollectedIntact
  BY DEF Inv
<1> QED
  BY <1>1, Invariance, PTL
================================================================================
