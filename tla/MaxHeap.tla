--------------------------------- MODULE MaxHeap ---------------------------------
(***************************************************************************)
(* maxHeap of components/math/quadtree.go: a sequence of entries with a    *)
(* distance, the furthest first, each node over its two children.          *)
(***************************************************************************)
EXTENDS Naturals, Sequences

Swapped(h, i, j) == [h EXCEPT ![i] = h[j], ![j] = h[i]]

\* A loop moves the entry at a place of a heap, a turn at a time.
Rise(s) ==
  LET up == s.at \div 2
  IN  IF s.at = 1 \/ s.heap[s.at].distance < s.heap[up].distance THEN s
      ELSE [heap |-> Swapped(s.heap, s.at, up), at |-> up]

\* Up, until its parent is further; there are no more turns than entries.
SiftUp(h, i) ==
  LET loop[turn \in 0..Len(h)] ==
        IF turn = 0 THEN [heap |-> h, at |-> i] ELSE Rise(loop[turn - 1])
  IN  loop[Len(h)].heap

\* Mutant: the right child is not compared.
FurthestLeft(h, i) ==
  IF 2 * i <= Len(h) /\ h[i].distance < h[2 * i].distance THEN 2 * i ELSE i

\* Of a node and its children the furthest; the node itself, then the left one,
\* where distances are equal.
Furthest(h, i) ==
  LET left == IF 2 * i <= Len(h) /\ h[i].distance < h[2 * i].distance
              THEN 2 * i ELSE i
  IN  IF 2 * i + 1 <= Len(h) /\ h[left].distance < h[2 * i + 1].distance
      THEN 2 * i + 1 ELSE left

Sink(s) ==
  LET child == Furthest(s.heap, s.at)
  IN  IF child = s.at THEN s ELSE [heap |-> Swapped(s.heap, s.at, child), at |-> child]

\* Down, until neither child is further.
SiftDown(h, i) ==
  LET loop[turn \in 0..Len(h)] ==
        IF turn = 0 THEN [heap |-> h, at |-> i] ELSE Sink(loop[turn - 1])
  IN  loop[Len(h)].heap

Push(h, e) == SiftUp(Append(h, e), Len(h) + 1)

\* The last entry moves to the top.
Pop(h) ==
  LET n == Len(h)
  IN  IF n = 1 THEN << >>
      ELSE SiftDown([i \in 1..(n - 1) |-> IF i = 1 THEN h[n] ELSE h[i]], 1)

\* KNearest's repacking: the top goes to the end of the result, then the rest.
Emptied(h) ==
  LET rest[i \in 0..Len(h)] == IF i = 0 THEN h ELSE Pop(rest[i - 1])
  IN  [i \in 1..Len(h) |-> rest[Len(h) - i][1]]
===============================================================================
