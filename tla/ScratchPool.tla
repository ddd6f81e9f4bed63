------------------------------ MODULE ScratchPool ------------------------------
(***************************************************************************)
(* The memory of the scratch buffers (json_direct.go, convert.go).  Calls  *)
(* of ToJSONInto on several goroutines share a sync.Pool of scratch        *)
(* states.  A scratch state is a slice of bytes.Buffer values; an open     *)
(* object holds a POINTER to one element of it.  When a deeper object      *)
(* makes the slice grow, append may copy the elements to a new array: the  *)
(* open objects then write through pointers into an old array, while the   *)
(* slice holds copies that share their byte storage.                       *)
(*                                                                         *)
(* A slice is a sequence of cells, a cell the storage of a buffer or None. *)
(* An open object whose element was left behind in an old array holds that *)
(* cell itself.  Of the bytes only the object that wrote them is kept.     *)
(***************************************************************************)
EXTENDS Naturals, FiniteSets, SequencesExt

CONSTANTS
  Goroutine,   \* the goroutines that convert
  MaxDepth,    \* bound of the model: nested objects of one call
  MaxPooled    \* bound of the model: the pool drops states beyond it

ASSUME GoroutineAssumption == IsFiniteSet(Goroutine)
ASSUME MaxDepthAssumption == MaxDepth \in Nat \ {0}
ASSUME MaxPooledAssumption == MaxPooled \in Nat

None == <<0, 0>>

\* Bound of the model, large enough that free storage always exists: of each
\* element, one for every slice in the pool or in a call, one for every cell
\* left behind, and one to move to.
Number == 1..(MaxPooled + 2 * Cardinality(Goroutine) + 1)
StorageId == (1..MaxDepth) \X Number

VARIABLES
  pool,      \* jsonScratchPool: the slices of the scratch states in it
  running,   \* the goroutines inside a call
  slice,     \* parser.jsonScratch of each goroutine's call
  live,      \* the open objects of the call, innermost last
  writer     \* of each storage, the open object that wrote to it last

vars == <<pool, running, slice, live, writer>>

NoObject == << >>

Init ==
  /\ pool = {}
  /\ running = {}
  /\ slice = [g \in Goroutine |-> << >>]
  /\ live = [g \in Goroutine |-> << >>]
  /\ writer = [s \in StorageId |-> NoObject]

-------------------------------------------------------------------------------
\* The cell the pointer of the n-th open object leads to.
CellOf(g, n) == IF live[g][n].left THEN live[g][n].cell ELSE slice[g][n]

\* Storage that a slice or an object left behind refers to.
StorageIn(cells) == Range(cells) \ {None}
Reach(g) ==
  (Range(slice[g]) \cup {CellOf(g, n) : n \in DOMAIN live[g]}) \ {None}

Used == UNION ({Reach(g) : g \in Goroutine} \cup {StorageIn(c) : c \in pool})

\* The allocator: any unused storage will do; the n-th elements draw from
\* numbers of their own, which keeps equivalent states equal.
FreeStorage(n) == <<n, CHOOSE i \in Number : <<n, i>> \notin Used>>

\* Mutant: the state stays in the pool while the call uses it.
GetShared(g) ==
  /\ g \notin running
  /\ running' = running \cup {g}
  /\ \/ \E cells \in pool : slice' = [slice EXCEPT ![g] = cells]
     \/ UNCHANGED slice
  /\ UNCHANGED <<pool, live, writer>>

\* The pool hands out one of its states, or a new one (it may drop any).
Get(g) ==
  /\ g \notin running
  /\ running' = running \cup {g}
  /\ \/ \E cells \in pool : /\ pool' = pool \ {cells}
                            /\ slice' = [slice EXCEPT ![g] = cells]
     \/ UNCHANGED <<pool, slice>>
  /\ UNCHANGED <<live, writer>>

\* nextJSONScratch, an element is free: it keeps the storage it has.
InSlice == [left |-> FALSE, cell |-> None, wrote |-> FALSE]

OpenInSlice(g) ==
  /\ g \in running
  /\ Len(live[g]) < Len(slice[g])
  /\ live' = [live EXCEPT ![g] = Append(@, InSlice)]
  /\ UNCHANGED <<pool, running, slice, writer>>

\* nextJSONScratch, all elements are in use: the slice grows by one, in place or
\* in a new array that leaves behind the elements of the open objects.
OpenGrowing(g) ==
  /\ g \in running
  /\ Len(live[g]) = Len(slice[g]) /\ Len(live[g]) < MaxDepth
  /\ \E moves \in BOOLEAN :
       LET behind == [n \in DOMAIN live[g] |->
                        IF moves THEN [live[g][n] EXCEPT !.left = TRUE, !.cell = CellOf(g, n)]
                        ELSE live[g][n]]
       IN  live' = [live EXCEPT ![g] = Append(behind, InSlice)]
  /\ slice' = [slice EXCEPT ![g] = Append(@, None)]
  /\ UNCHANGED <<pool, running, writer>>

\* Bytes go to the n-th of the objects through its pointer.  (A buffer that has
\* to move to larger storage stops sharing the old one: that can only help, and
\* is left out.)
StorageAfter(g, n) ==
  IF CellOf(g, n) = None THEN FreeStorage(n) ELSE CellOf(g, n)

WriteTo(g, n, objects, others) ==
  LET f == objects[n]
      s == StorageAfter(g, n)
  IN  /\ live' = [live EXCEPT ![g] =
                    [objects EXCEPT ![n] =
                      [f EXCEPT !.wrote = TRUE, !.cell = IF f.left THEN s ELSE None]]]
      /\ slice' = IF f.left THEN slice ELSE [slice EXCEPT ![g][n] = s]
      /\ writer' = [others EXCEPT ![s] = <<g, n>>]

\* A scalar member value.
WriteMember(g) ==
  /\ live[g] # << >>
  /\ WriteTo(g, Len(live[g]), live[g], writer)
  /\ UNCHANGED <<pool, running>>

\* What the innermost object collected has no owner once it is given back.
Forgotten(g) ==
  LET s == CellOf(g, Len(live[g]))
  IN  [x \in StorageId |-> IF x = s THEN NoObject ELSE writer[x]]

\* The object's text goes to the buffer of the object around it, and its
\* element is given back.
CloseInner(g) ==
  /\ Len(live[g]) > 1
  /\ WriteTo(g, Len(live[g]) - 1, Front(live[g]), Forgotten(g))
  /\ UNCHANGED <<pool, running>>

\* The outermost object is written to the caller's buffer; after an error an
\* object is given back without being written.
Release(g) ==
  /\ live[g] # << >>
  /\ live' = [live EXCEPT ![g] = Front(@)]
  /\ writer' = Forgotten(g)
  /\ UNCHANGED <<pool, running, slice>>

\* Mutant: the call keeps the slice it has given back.
PutKeeping(g) ==
  /\ g \in running /\ live[g] = << >>
  /\ pool' = IF Cardinality(pool) < MaxPooled THEN pool \cup {slice[g]} ELSE pool
  /\ running' = running \ {g}
  /\ UNCHANGED <<slice, live, writer>>

\* The deferred function: buffers that became large lose their storage, and the
\* scratch state, with the slice as it is now, goes back to the pool.
Put(g) ==
  /\ g \in running /\ live[g] = << >>
  /\ \E large \in SUBSET DOMAIN slice[g] :
       LET cells == [n \in DOMAIN slice[g] |-> IF n \in large THEN None ELSE slice[g][n]]
       IN  pool' = IF Cardinality(pool) < MaxPooled THEN pool \cup {cells} ELSE pool
  /\ running' = running \ {g}
  /\ slice' = [slice EXCEPT ![g] = << >>]
  /\ UNCHANGED <<live, writer>>

Next ==
  \E g \in Goroutine :
    \/ Get(g) \/ Put(g)
    \/ OpenInSlice(g) \/ OpenGrowing(g)
    \/ WriteMember(g) \/ CloseInner(g) \/ Release(g)

Spec == Init /\ [][Next]_vars

-------------------------------------------------------------------------------
Cell == StorageId \cup {None}
Object == [left : BOOLEAN, cell : Cell, wrote : BOOLEAN]
Writer == (Goroutine \X (1..MaxDepth)) \cup {NoObject}

\* The types of the pool and the memory.
TypeOK ==
  /\ pool \subseteq Seq(Cell)
  /\ running \subseteq Goroutine
  /\ slice \in [Goroutine -> Seq(Cell)]
  /\ live \in [Goroutine -> Seq(Object)]
  /\ writer \in [StorageId -> Writer]

\* The cells that the n-th elements of slices may hold.
Own(n) == {c \in Cell : c = None \/ c[1] = n}

Placed(cells) ==
  Len(cells) <= MaxDepth /\ \A n \in DOMAIN cells : cells[n] \in Own(n)

\* A slice never shrinks below the objects that are open, so that a pointer is
\* never to an element that does not exist; nothing is open between calls, and
\* the pool keeps its limit.
PointersValid ==
  /\ \A cells \in pool : Placed(cells)
  /\ IsFiniteSet(pool) /\ Cardinality(pool) <= MaxPooled
  /\ \A g \in Goroutine :
       /\ Placed(slice[g])
       /\ Len(live[g]) <= Len(slice[g])
       /\ \A n \in DOMAIN live[g] : live[g][n].cell \in Own(n)
       /\ g \notin running => slice[g] = << >>

\* Calls that run at the same time share no storage, with each other or with
\* the states in the pool, and no two states of the pool share any.
CallsApart ==
  /\ \A g, h \in Goroutine : g # h => Reach(g) \cap Reach(h) = {}
  /\ \A g \in Goroutine, c \in pool : Reach(g) \cap StorageIn(c) = {}
  /\ \A c, d \in pool : c # d => StorageIn(c) \cap StorageIn(d) = {}

\* The pool and the memory are well formed, and no storage has two users.
PoolSound == TypeOK /\ PointersValid /\ CallsApart

\* What an open object has collected is still there: it has storage, and nobody
\* else has written to it, neither a deeper object after the slice moved under
\* it nor a call on another goroutine.
CollectedIntact ==
  \A g \in Goroutine : \A n \in DOMAIN live[g] :
    live[g][n].wrote => /\ CellOf(g, n) # None
                        /\ writer[CellOf(g, n)] = <<g, n>>

\* The inductive invariant.  CollectedIntact alone is not one: it takes
\* CallsApart to know that a write hits no other object's storage, and
\* PointersValid to know that a write to new storage finds some.
Inv == PoolSound /\ CollectedIntact
===============================================================================
