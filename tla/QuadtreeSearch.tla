----------------------------- MODULE QuadtreeSearch -----------------------------
(***************************************************************************)
(* The operations of Quadtree (components/math/quadtree.go): Add, Find and *)
(* Matching, Remove, KNearest and KNearestMatching, InBound and            *)
(* InBoundMatching.  A search is a walk of the tree, one visit.Visit per   *)
(* step, that leaves out the boxes its bound does not meet and narrows the *)
(* bound as it finds values.  Distances are squared and exact.             *)
(***************************************************************************)
EXTENDS Quadtree, MaxHeap

CONSTANTS
  Point,       \* the points searched from: [x, y]
  Filter,      \* what the filter functions accept: sets of values
  MaxK,        \* bound of the model: k of KNearest
  Distances,    \* the squared maximum distances of KNearest
  Window,      \* the boxes of InBound
  Unit         \* ticks in 1.0

ASSUME PointAssumption == Point \subseteq [x : Int, y : Int]
ASSUME FilterAssumption == Filter \subseteq SUBSET Item
ASSUME DistancesAssumption == Distances \subseteq Nat /\ MaxK \in Nat
ASSUME WindowAssumption ==
  Window \subseteq [left : Int, right : Int, bottom : Int, top : Int]
ASSUME UnitAssumption == Unit \in Nat \ {0}

NoLimit == -1     \* MaxFloat64
Nowhere == [left |-> 0, right |-> 0, bottom |-> 0, top |-> 0]

VARIABLES
  phase,       \* "idle", "visiting", "answered", "panic"
  query,       \* the call: [op, at, accepts, k, limit, box]
  pending,     \* the Visit calls to come: <<node, box>>
  found,       \* closest, maxHeap or pointers: [node, distance]
  reach,       \* minDistSquared or maxDistSquared
  ring,        \* radius, squared, of closestBound; NoLimit while it is query.box
  answer       \* what the call returned

call == <<phase, query, pending, found, reach, ring, answer>>

NoQuery == [op |-> "none", at |-> [x |-> 0, y |-> 0], accepts |-> {}, k |-> 0,
            limit |-> NoLimit, box |-> Nowhere]

SearchInit ==
  /\ Init
  /\ phase = "idle" /\ query = NoQuery
  /\ pending = << >> /\ found = << >> /\ answer = << >>
  /\ reach = NoLimit /\ ring = NoLimit

Away(v, p) == (X[v] - p.x) * (X[v] - p.x) + (Y[v] - p.y) * (Y[v] - p.y)
Within(d, limit) == limit = NoLimit \/ d < limit

-------------------------------------------------------------------------------
AddValue(v) ==
  /\ phase = "idle"
  /\ Add(v)
  /\ UNCHANGED call

\* ErrPointOutsideOfBounds
Refuse(v) ==
  /\ phase = "idle" /\ ~Inside(bound, X[v], Y[v])
  /\ phase' = "answered"
  /\ query' = [NoQuery EXCEPT !.op = "add"]
  /\ answer' = <<Nil>>
  /\ UNCHANGED <<bound, tree, pending, found, reach, ring>>

\* A call starts the walk at the root, with the box it takes for the root's.
Start(q, box) ==
  /\ phase' = "visiting"
  /\ query' = q
  /\ pending' = <<[node |-> Root, box |-> box]>>
  /\ reach' = q.limit
  /\ UNCHANGED <<tree, found, ring, answer>>

\* Every read of an empty tree returns nil at once.
ReadEmpty(q) ==
  /\ phase' = "answered"
  /\ query' = q
  /\ UNCHANGED <<bound, tree, pending, found, reach, ring, answer>>

Matching(p, accepts) ==
  LET q == [NoQuery EXCEPT !.op = "find", !.at = p, !.accepts = accepts, !.box = bound]
  IN  /\ phase = "idle"
      /\ IF DOMAIN tree = {} THEN ReadEmpty(q) ELSE Start(q, bound) /\ UNCHANGED bound

\* A filter, or by default the values at the same place.  Remove does not look
\* whether there is a root: on a tree that never held a value it panics.
Remove(v, accepts) ==
  LET q == [NoQuery EXCEPT !.op = "remove", !.at = [x |-> X[v], y |-> Y[v]],
                           !.accepts = accepts, !.box = bound]
  IN  /\ phase = "idle"
      /\ IF DOMAIN tree = {}
         THEN /\ phase' = "panic" /\ query' = q
              /\ UNCHANGED <<bound, tree, pending, found, reach, ring, answer>>
         ELSE Start(q, bound) /\ UNCHANGED bound

AtPlaceOf(v) == {w \in Item : X[w] = X[v] /\ Y[w] = Y[v]}

\* Mutant: a whole number is raised too.
NextWhole(c) == (c \div Unit + 1) * Unit

\* math.Ceil of a coordinate.
Ceil(c) == -((-c) \div Unit) * Unit

\* q.bound.Max.Ceil() works on the tree's own bound.  Whether the right edge is
\* read before or after that call is for the compiler to choose.
KNearest(p, k, accepts, limit) ==
  LET raised == [bound EXCEPT !.right = Ceil(@), !.top = Ceil(@)]
      q == [NoQuery EXCEPT !.op = "nearest", !.at = p, !.accepts = accepts, !.k = k,
                           !.limit = limit, !.box = bound]
  IN  /\ phase = "idle"
      /\ IF DOMAIN tree = {} THEN ReadEmpty(q)
         ELSE /\ \E right \in {bound.right, raised.right} :
                   Start(q, [raised EXCEPT !.right = right])
              /\ bound' = raised

InBound(window, accepts) ==
  LET q == [NoQuery EXCEPT !.op = "inbound", !.accepts = accepts, !.box = window]
  IN  /\ phase = "idle"
      /\ IF DOMAIN tree = {} THEN ReadEmpty(q) ELSE Start(q, bound) /\ UNCHANGED bound

-------------------------------------------------------------------------------
\* Mutants: the comparisons take boxes that touch for apart; the distance is
\* not added on the right.
OutsideOrTouching(box) ==
  IF ring = NoLimit
  THEN \/ box.left >= query.box.right \/ box.right <= query.box.left
       \/ box.bottom >= query.box.top \/ box.top <= query.box.bottom
  ELSE \E gap \in {box.left - query.at.x, query.at.x - box.right,
                   box.bottom - query.at.y, query.at.y - box.top} :
         gap > 0 /\ gap * gap > ring

OutsideRight(box) ==
  IF ring = NoLimit
  THEN \/ box.left > query.box.right \/ box.right < query.box.left
       \/ box.bottom > query.box.top \/ box.top < query.box.bottom
  ELSE \/ box.left > query.at.x
       \/ \E gap \in {query.at.x - box.right, box.bottom - query.at.y,
                      query.at.y - box.top} : gap > 0 /\ gap * gap > ring

\* The test at the top of visit.Visit.
Outside(box) ==
  IF ring = NoLimit
  THEN \/ box.left > query.box.right \/ box.right < query.box.left
       \/ box.bottom > query.box.top \/ box.top < query.box.bottom
  ELSE \E gap \in {box.left - query.at.x, query.at.x - box.right,
                   box.bottom - query.at.y, query.at.y - box.top} :
         gap > 0 /\ gap * gap > ring

\* The children there are, from the one the point is in, around.
Turn(n, box, i) ==
  IF i \in Children(tree, n)
  THEN <<[node |-> Child(n, i), box |-> Quarter(box, i)]>> ELSE << >>

Onward(n, box) ==
  LET turn(j) == Turn(n, box, (QuarterOf(box, query.at.x, query.at.y) + j) % 4)
  IN  turn(0) \o turn(1) \o turn(2) \o turn(3)

Entry(n) == [node |-> n, distance |-> Away(tree[n], query.at)]

\* A visitor looks at a value its filter accepts and takes it if it is near
\* enough, or in the box.
Takes(n) ==
  /\ n \in Filled(tree) /\ tree[n] \in query.accepts
  /\ IF query.op = "inbound" THEN Inside(query.box, X[tree[n]], Y[tree[n]])
     ELSE Within(Entry(n).distance, reach)

Skip(n) ==
  /\ ~Takes(n)
  /\ UNCHANGED <<phase, found, reach, ring>>

\* Mutant: minDistSquared stays what it was.
TakeAnyCloser(n) ==
  /\ query.op \in {"find", "remove"} /\ Takes(n)
  /\ found' = <<Entry(n)>>
  /\ ring' = Entry(n).distance
  /\ UNCHANGED <<phase, reach>>

\* findVisitor: a closer one replaces the closest.
TakeClosest(n) ==
  /\ query.op \in {"find", "remove"} /\ Takes(n)
  /\ found' = <<Entry(n)>>
  /\ reach' = Entry(n).distance
  /\ ring' = Entry(n).distance
  /\ UNCHANGED phase

\* nearestVisitor: the heap holds k values; one more throws the furthest out
\* and the rest bound the search.  With k = 0 there is no rest to look at.
TakeNear(n) ==
  LET heap == Push(found, Entry(n))
      full == Len(heap) > query.k
      kept == IF full THEN Pop(heap) ELSE heap
  IN  /\ query.op = "nearest" /\ Takes(n)
      /\ found' = kept
      /\ phase' = IF kept = << >> THEN "panic" ELSE phase
      /\ IF full /\ kept # << >>
         THEN reach' = kept[1].distance /\ ring' = kept[1].distance
         ELSE UNCHANGED <<reach, ring>>

TakeInside(n) ==
  /\ query.op = "inbound" /\ Takes(n)
  /\ found' = Append(found, Entry(n))
  /\ UNCHANGED <<phase, reach, ring>>

Prune ==
  /\ phase = "visiting" /\ pending # << >>
  /\ Outside(Head(pending).box)
  /\ pending' = Tail(pending)
  /\ UNCHANGED <<bound, tree, phase, query, found, reach, ring, answer>>

Visit ==
  /\ phase = "visiting" /\ pending # << >>
  /\ ~Outside(Head(pending).box)
  /\ LET n == Head(pending).node
     IN  /\ Skip(n) \/ TakeClosest(n) \/ TakeNear(n) \/ TakeInside(n)
         /\ pending' = Onward(n, Head(pending).box) \o Tail(pending)
  /\ UNCHANGED <<bound, tree, query, answer>>

\* The walk is over: the values are returned, KNearest's nearest first, and
\* Remove takes the closest out of the tree.
Answer ==
  LET result == IF query.op = "nearest" THEN Emptied(found) ELSE found
  IN  /\ phase = "visiting" /\ pending = << >>
      /\ phase' = "answered"
      /\ answer' = [i \in 1..Len(result) |-> tree[result[i].node]]
      /\ tree' = IF query.op = "remove" /\ found # << >>
                 THEN Without(tree, found[1].node) ELSE tree
      /\ UNCHANGED <<bound, query, pending, found, reach, ring>>

Return ==
  /\ phase = "answered"
  /\ phase' = "idle" /\ query' = NoQuery
  /\ pending' = << >> /\ found' = << >> /\ answer' = << >>
  /\ reach' = NoLimit /\ ring' = NoLimit
  /\ UNCHANGED <<bound, tree>>

Begin ==
  \/ \E v \in Item : AddValue(v) \/ Refuse(v)
  \/ \E v \in Item : \E accepts \in Filter \cup {AtPlaceOf(v)} : Remove(v, accepts)
  \/ \E p \in Point, accepts \in Filter : Matching(p, accepts)
  \/ \E p \in Point, accepts \in Filter, k \in 0..MaxK,
        limit \in Distances \cup {NoLimit} : KNearest(p, k, accepts, limit)
  \/ \E window \in Window, accepts \in Filter : InBound(window, accepts)

SearchNext == Begin \/ Prune \/ Visit \/ Answer \/ Return

SearchSpec == SearchInit /\ [][SearchNext]_<<bound, tree, call>>

-------------------------------------------------------------------------------
Candidates == {n \in Filled(tree) : tree[n] \in query.accepts}
Occurrences(v) == Cardinality({n \in Candidates : tree[n] = v})

\* Find and Matching return a value that is in the tree and accepted and none
\* that is further away than another such value; nil only if there is none.
FindsClosest ==
  phase = "answered" /\ query.op = "find" =>
    IF answer = << >> THEN Candidates = {}
    ELSE /\ \E n \in Candidates : tree[n] = answer[1]
         /\ \A n \in Candidates : Away(answer[1], query.at) <= Away(tree[n], query.at)

\* KNearest returns k values (or all, if there are fewer) nearer than the
\* maximum distance, nearest first, none of them twice, and leaves out none
\* that is nearer than the last of them.
ClosestK ==
  phase = "answered" /\ query.op = "nearest" =>
    LET eligible == {n \in Candidates : Within(Away(tree[n], query.at), query.limit)}
        d(i) == Away(answer[i], query.at)
    IN  /\ Len(answer) = IF Cardinality(eligible) < query.k THEN Cardinality(eligible)
                         ELSE query.k
        /\ \A i, j \in 1..Len(answer) : i < j => d(i) <= d(j)
        /\ \A v \in Item : Cardinality({i \in 1..Len(answer) : answer[i] = v})
                             <= Occurrences(v)
        /\ Len(answer) > 0 =>
             Cardinality({n \in eligible : Away(tree[n], query.at) < d(Len(answer))})
               < Len(answer)

\* InBound returns the accepted values in its box, each as often as it is in
\* the tree.
AllInBound ==
  phase = "answered" /\ query.op = "inbound" =>
    \A v \in Item :
      Cardinality({i \in 1..Len(answer) : answer[i] = v}) =
        IF Inside(query.box, X[v], Y[v]) THEN Occurrences(v) ELSE 0

\* Remove takes out a value its filter accepts and no other accepted value is
\* nearer to the one it was asked for; it takes out nothing only if the filter
\* accepts no value of the tree.
RemovesClosest ==
  [][query.op = "remove" /\ phase' = "answered" =>
       IF answer' = << >> THEN Candidates = {} /\ UNCHANGED tree
       ELSE /\ held' = [held EXCEPT ![answer'[1]] = @ - 1]
            /\ answer'[1] \in query.accepts
            /\ \A n \in Candidates :
                 Away(answer'[1], query.at) <= Away(tree[n], query.at)]_<<tree, call>>
===============================================================================
