--------------------------- MODULE DirectWriterProofs ---------------------------
(***************************************************************************)
(* For texts and limits of any size: whatever path a call of the direct    *)
(* writer takes, its buffers, tables and nesting are those of the open     *)
(* containers, the members of an object are pieces of its own buffer, and  *)
(* what the caller had in the output stays there.                          *)
(*                                                                         *)
(* The key is that the buffer a container writes to, and the one an object *)
(* owns, are a matter of counting the objects around it (Shaped).          *)
(*                                                                         *)
(* The second part says what is written: a reading of the text by the      *)
(* rules of TextMeaning, and JSON.  While the text is read, each open      *)
(* container has a place P in the text and the contents C its buffer had   *)
(* when what is inside it began (MeaningInv).  Its readings leave no       *)
(* choice (ArrayEnd, ObjectEnd), so where the writer is stuck every        *)
(* reading is: a text that is refused means nothing (RefusalInv).          *)
(*                                                                         *)
(* The last part is about the order of keys that the writer's member table *)
(* relies on (KeyOrder): it is the strict order MemberTables assumes, and  *)
(* it leaves a sort of valid keys no choice.                               *)
(***************************************************************************)
EXTENDS TextMeaning, KeyOrder, FiniteSetTheorems, SequenceTheorems, WellFoundedInduction, TLAPS

\* The objects among the first n frames of a stack.
ObjectsOf(s, n) == {i \in 1..n : s[i].kind # "array"}
Level(s, n) == Cardinality(ObjectsOf(s, n))

\* A container writes to the buffer of the innermost object around it, an object
\* owns the next one, and d buffers are in use.
Shaped(s, d) ==
  /\ d = Level(s, Len(s))
  /\ \A i \in 1..Len(s) :
       /\ s[i].out = Level(s, i - 1)
       /\ s[i].kind # "array" => s[i].own = Level(s, i)

\* What an object has collected lies in a buffer of length n.
Spans(f, n) ==
  /\ f.from <= n
  /\ \A m \in 1..Len(f.members) :
       f.members[m].start <= f.members[m].end /\ f.members[m].end <= n
Held(s, buffers) ==
  \A i \in 1..Len(s) : s[i].kind # "array" => Spans(s[i], Len(buffers[s[i].own]))

\* An object around an open container has a key that waits for its value.
Waiting(s) == \A i \in 1..(Len(s) - 1) : s[i].kind # "array" => s[i].key # NoKey

\* The object without braces is the outermost container.
ElidedOutside ==
  /\ \A i \in 1..Len(stack) : stack[i].kind = "elided" => i = 1
  /\ phase = "elided" => stack # << >> /\ stack[1].kind = "elided"

\* Containers are open only while a text is read or an error unwinds them, and
\* until there is a result the nesting is their number.
OpenWhileReading ==
  /\ phase \notin {"elided", "value", "syntax", "deep"} => stack = << >>
  /\ phase \notin Results => nesting = Len(stack)

\* Nothing in front of what the caller had, and nothing behind it before the
\* text is read and while it is read as the object without braces.
Output ==
  /\ dst # << >> /\ dst[1] = <<"already">>
  /\ phase \in {"start", "elided"} => dst = Already

WriterInv ==
  /\ TypeOK
  /\ Shaped(stack, depth) /\ tables = depth
  /\ Held(stack, scratch) /\ Waiting(stack)
  /\ ElidedOutside
  /\ OpenWhileReading
  /\ Output

-------------------------------------------------------------------------------
\* The fields of a frame.
LEMMA FrameFields ==
  ASSUME NEW f \in Frame
  PROVE  /\ f.kind \in {"object", "elided", "array"} /\ f.out \in Nat
         /\ f.kind = "array" => f = [kind |-> "array", out |-> f.out]
         /\ f.kind # "array" =>
              /\ f.own \in Nat /\ f.members \in Seq(Member)
              /\ f.key \in Scanned \cup {NoKey} /\ f.from \in Nat
              /\ f = [kind |-> f.kind, out |-> f.out, own |-> f.own,
                      members |-> f.members, key |-> f.key, from |-> f.from]
<1>1. CASE f \in [kind : {"array"}, out : Nat]
  BY <1>1
<1>2. CASE f \in [kind : {"object", "elided"}, out : Nat, own : Nat,
                  members : Seq(Member), key : Scanned \cup {NoKey}, from : Nat]
  BY <1>2
<1> QED
  BY <1>1, <1>2 DEF Frame

\* The number of objects, frame by frame.
LEMMA LevelStep ==
  ASSUME NEW s \in Seq(Frame), NEW n \in 0..Len(s)
  PROVE  /\ Level(s, n) \in Nat
         /\ n = 0 => Level(s, n) = 0
         /\ n > 0 => Level(s, n) = Level(s, n - 1) + (IF s[n].kind = "array" THEN 0 ELSE 1)
<1>1. \A m \in Nat : IsFiniteSet(ObjectsOf(s, m))
  <2> TAKE m \in Nat
  <2>1. IsFiniteSet(1..m)
    BY FS_Interval
  <2>2. ObjectsOf(s, m) \in SUBSET (1..m)
    BY DEF ObjectsOf
  <2> QED
    BY <2>1, <2>2, FS_Subset
<1>2. n \in Nat
  OBVIOUS
<1>3. Level(s, n) \in Nat
  BY <1>1, <1>2, FS_CardinalityType DEF Level
<1>4. ASSUME n = 0 PROVE Level(s, n) = 0
  <2>1. ObjectsOf(s, n) = {}
    BY <1>4 DEF ObjectsOf
  <2> QED
    BY <2>1, FS_EmptySet DEF Level
<1>5. ASSUME n > 0
      PROVE  Level(s, n) = Level(s, n - 1) + (IF s[n].kind = "array" THEN 0 ELSE 1)
  <2> DEFINE before == ObjectsOf(s, n - 1)
  <2>1. n - 1 \in Nat /\ IsFiniteSet(before)
    BY <1>1, <1>5
  <2>2. Cardinality(before) \in Nat /\ n \notin before
    BY <2>1, FS_CardinalityType DEF ObjectsOf
  <2>3. CASE s[n].kind = "array"
    <3>1. ObjectsOf(s, n) = before
      BY <1>2, <1>5, <2>3 DEF ObjectsOf
    <3> QED
      BY <2>2, <2>3, <3>1 DEF Level
  <2>4. CASE s[n].kind # "array"
    <3>1. ObjectsOf(s, n) = before \cup {n}
      BY <1>2, <1>5, <2>4 DEF ObjectsOf
    <3> HIDE DEF before
    <3>2. Cardinality(before \cup {n}) = Cardinality(before) + 1
      BY <2>1, <2>2, FS_AddElement
    <3> QED
      BY <2>4, <3>1, <3>2 DEF Level, before
  <2> QED
    BY <2>3, <2>4
<1> QED
  BY <1>3, <1>4, <1>5

\* Frames in front of one hold no more objects than those up to it.
LEMMA LevelMonotone ==
  ASSUME NEW s \in Seq(Frame), NEW m \in 0..Len(s), NEW n \in 0..Len(s), m <= n
  PROVE  Level(s, m) <= Level(s, n)
<1>1. m \in Nat /\ n \in Nat
  OBVIOUS
<1>2. IsFiniteSet(1..n)
  BY <1>1, FS_Interval
<1>3. ObjectsOf(s, n) \in SUBSET (1..n)
  BY DEF ObjectsOf
<1>4. IsFiniteSet(ObjectsOf(s, n))
  BY <1>2, <1>3, FS_Subset
<1>5. ObjectsOf(s, m) \in SUBSET ObjectsOf(s, n)
  BY <1>1 DEF ObjectsOf
<1> QED
  BY <1>4, <1>5, FS_Subset DEF Level

\* Only the kinds of the frames count.
LEMMA LevelOfKinds ==
  ASSUME NEW s, NEW t, NEW n \in Nat, \A i \in 1..n : s[i].kind = t[i].kind
  PROVE  Level(s, n) = Level(t, n)
<1>1. ObjectsOf(s, n) = ObjectsOf(t, n)
  BY DEF ObjectsOf
<1> QED
  BY <1>1 DEF Level

\* The empty stack uses no buffer.
LEMMA ShapeEmpty == Shaped(<< >>, 0) /\ \A d : Shaped(<< >>, d) => d = 0
<1>1. ObjectsOf(<< >>, 0) = {}
  BY DEF ObjectsOf
<1>2. Level(<< >>, 0) = 0
  BY <1>1, FS_EmptySet DEF Level
<1>3. Len(<< >>) = 0
  OBVIOUS
<1> QED
  BY <1>2, <1>3 DEF Shaped

\* A frame whose place and kind stay may change the rest.
LEMMA ShapeKept ==
  ASSUME NEW s \in Seq(Frame), NEW t \in Seq(Frame), NEW d, Shaped(s, d),
         Len(t) = Len(s),
         \A i \in 1..Len(s) : t[i].kind = s[i].kind /\ t[i].out = s[i].out
                              /\ (s[i].kind # "array" => t[i].own = s[i].own)
  PROVE  Shaped(t, d)
<1>1. \A n \in 0..Len(s) : Level(s, n) = Level(t, n)
  <2> TAKE n \in 0..Len(s)
  <2>1. n \in Nat /\ \A i \in 1..n : s[i].kind = t[i].kind
    OBVIOUS
  <2> QED
    BY <2>1, LevelOfKinds
<1>2. Len(s) \in Nat
  OBVIOUS
<1>3. Level(t, Len(t)) = d
  BY <1>1, <1>2 DEF Shaped
<1>4. ASSUME NEW i \in 1..Len(t)
      PROVE  /\ t[i].out = Level(t, i - 1)
             /\ t[i].kind # "array" => t[i].own = Level(t, i)
  <2>1. i \in 1..Len(s) /\ i \in 0..Len(s) /\ i - 1 \in 0..Len(s)
    BY <1>2
  <2>2. s[i].out = Level(s, i - 1) /\ (s[i].kind # "array" => s[i].own = Level(s, i))
    BY <2>1 DEF Shaped
  <2> QED
    BY <1>1, <2>1, <2>2
<1> QED
  BY <1>3, <1>4 DEF Shaped

\* Opening a container.
LEMMA ShapePushed ==
  ASSUME NEW s \in Seq(Frame), NEW d, Shaped(s, d), NEW f \in Frame, f.out = d,
         f.kind # "array" => f.own = d + 1
  PROVE  /\ Append(s, f) \in Seq(Frame)
         /\ Shaped(Append(s, f), IF f.kind = "array" THEN d ELSE d + 1)
<1> DEFINE t == Append(s, f)
           l == Len(s)
           e == IF f.kind = "array" THEN d ELSE d + 1
<1>1. l \in Nat /\ t \in Seq(Frame) /\ Len(t) = l + 1 /\ t[l + 1] = f
      /\ \A i \in 1..l : t[i] = s[i]
  OBVIOUS
<1> HIDE DEF t
<1>2. \A n \in 0..l : Level(s, n) = Level(t, n)
  <2> TAKE n \in 0..l
  <2>1. n \in Nat /\ \A i \in 1..n : s[i].kind = t[i].kind
    BY <1>1
  <2> QED
    BY <2>1, LevelOfKinds
<1>3. Level(t, l) = d /\ d \in Nat
  <2>1. l \in 0..Len(s)
    BY <1>1
  <2>2. Level(s, l) \in Nat
    BY <2>1, LevelStep
  <2> QED
    BY <1>1, <1>2, <2>2 DEF Shaped
<1>4. Level(t, l + 1) = e
  <2>1. l + 1 \in 0..Len(t) /\ l + 1 > 0 /\ l + 1 - 1 = l
    BY <1>1
  <2>2. Level(t, l + 1) = Level(t, l + 1 - 1) + (IF t[l + 1].kind = "array" THEN 0 ELSE 1)
    BY <1>1, <2>1, LevelStep
  <2> QED
    BY <1>1, <1>3, <2>1, <2>2
<1>5. ASSUME NEW i \in 1..Len(t)
      PROVE  /\ t[i].out = Level(t, i - 1)
             /\ t[i].kind # "array" => t[i].own = Level(t, i)
  <2>1. CASE i = l + 1
    <3>1. i - 1 = l
      BY <1>1, <2>1
    <3> QED
      BY <1>1, <1>3, <1>4, <2>1, <3>1
  <2>2. CASE i # l + 1
    <3>1. i \in 1..l /\ i \in 0..l /\ i - 1 \in 0..l
      BY <1>1, <2>2
    <3>2. s[i].out = Level(s, i - 1) /\ (s[i].kind # "array" => s[i].own = Level(s, i))
      BY <3>1 DEF Shaped
    <3> QED
      BY <1>1, <1>2, <3>1, <3>2
  <2> QED
    BY <2>1, <2>2
<1>6. Shaped(t, e)
  BY <1>1, <1>4, <1>5 DEF Shaped
<1> QED
  BY <1>1, <1>6 DEF t

\* Leaving a container.
LEMMA ShapePopped ==
  ASSUME NEW s \in Seq(Frame), NEW d, Shaped(s, d), s # << >>
  PROVE  LET t == SubSeq(s, 1, Len(s) - 1)
             top == s[Len(s)]
             e == IF top.kind = "array" THEN d ELSE d - 1
         IN  /\ t \in Seq(Frame) /\ Len(t) = Len(s) - 1
             /\ \A i \in 1..(Len(s) - 1) : t[i] = s[i]
             /\ d \in Nat /\ e \in Nat
             /\ top \in Frame /\ top.out = e
             /\ top.kind # "array" => top.own = d
             /\ Shaped(t, e)
<1> DEFINE t == SubSeq(s, 1, Len(s) - 1)
           l == Len(s)
           top == s[Len(s)]
           e == IF top.kind = "array" THEN d ELSE d - 1
<1>1. l \in Nat \ {0}
  BY EmptySeq
<1>2. t \in Seq(Frame) /\ Len(t) = l - 1 /\ \A i \in 1..(l - 1) : t[i] = s[i]
  <2>1. \A i \in 1..(l - 1) : s[i] \in Frame
    BY <1>1
  <2>2. 1 \in Int /\ l - 1 \in Int
    BY <1>1
  <2>3. /\ t \in Seq(Frame) /\ Len(t) = IF 1 <= l - 1 THEN l - 1 - 1 + 1 ELSE 0
        /\ \A i \in 1..(l - 1 - 1 + 1) : t[i] = s[1 + i - 1]
    BY <2>1, <2>2, SubSeqProperties
  <2> HIDE DEF t, l
  <2>4. l - 1 - 1 + 1 = l - 1 /\ (IF 1 <= l - 1 THEN l - 1 - 1 + 1 ELSE 0) = l - 1
        /\ \A i \in 1..(l - 1) : 1 + i - 1 = i
    BY <1>1
  <2> QED
    BY <2>3, <2>4
<1> HIDE DEF t
<1>3. top \in Frame
  BY <1>1
<1>4. \A n \in 0..(l - 1) : Level(s, n) = Level(t, n)
  <2> TAKE n \in 0..(l - 1)
  <2>1. n \in Nat /\ \A i \in 1..n : s[i].kind = t[i].kind
    BY <1>1, <1>2
  <2> QED
    BY <2>1, LevelOfKinds
<1>5. l \in 0..Len(s) /\ l > 0 /\ l - 1 \in 0..Len(s) /\ l \in 1..Len(s) /\ l - 1 \in 0..(l - 1)
  BY <1>1
<1>6. Level(s, l - 1) \in Nat /\ Level(s, l) = d
      /\ Level(s, l) = Level(s, l - 1) + (IF top.kind = "array" THEN 0 ELSE 1)
  BY <1>5, LevelStep DEF Shaped
<1>7. d \in Nat /\ e \in Nat /\ Level(s, l - 1) = e
  BY <1>6
<1>8. top.out = e /\ (top.kind # "array" => top.own = d)
  BY <1>5, <1>6, <1>7 DEF Shaped
<1>9. Level(t, Len(t)) = e
  BY <1>2, <1>4, <1>5, <1>7
<1>10. ASSUME NEW i \in 1..Len(t)
       PROVE  /\ t[i].out = Level(t, i - 1)
              /\ t[i].kind # "array" => t[i].own = Level(t, i)
  <2>1. i \in 1..Len(s) /\ i \in 1..(l - 1) /\ i \in 0..(l - 1) /\ i - 1 \in 0..(l - 1)
    BY <1>1, <1>2
  <2>2. s[i].out = Level(s, i - 1) /\ (s[i].kind # "array" => s[i].own = Level(s, i))
    BY <2>1 DEF Shaped
  <2> QED
    BY <1>2, <1>4, <2>1, <2>2
<1>11. Shaped(t, e)
  BY <1>9, <1>10 DEF Shaped
<1> HIDE DEF e, top
<1>12. /\ t \in Seq(Frame) /\ Len(t) = Len(s) - 1
       /\ \A i \in 1..(Len(s) - 1) : t[i] = s[i]
       /\ d \in Nat /\ e \in Nat
       /\ top \in Frame /\ top.out = e
       /\ top.kind # "array" => top.own = d
       /\ Shaped(t, e)
  BY <1>2, <1>3, <1>7, <1>8, <1>11
<1> QED
  BY <1>12 DEF t, e, top

-------------------------------------------------------------------------------
\* A set of numbers that is not empty has a least one.
LEMMA Least ==
  ASSUME NEW T, T \subseteq Nat, T # {}
  PROVE  \E m \in T : \A k \in T : m <= k
<1>1. IsWellFoundedOn(OpToRel(<, Nat), Nat)
  BY NatLessThanWellFounded
<1>2. PICK m \in T : \A k \in T : ~(<<k, m>> \in OpToRel(<, Nat))
  BY <1>1, WFMin
<1>3. ASSUME NEW k \in T, k < m PROVE FALSE
  <2>1. <<k, m>> \in OpToRel(<, Nat)
    BY <1>3 DEF OpToRel
  <2> QED
    BY <1>2, <2>1
<1>4. \A k \in T : m <= k
  <2> TAKE k \in T
  <2>1. k \in Nat /\ m \in Nat /\ ~(k < m)
    BY <1>3
  <2> QED
    BY <2>1
<1> QED
  BY <1>4

\* Skipping commas stops at the first lexeme that is none, or at the end.
LEMMA SkipPasses ==
  ASSUME NEW s, Len(s) \in Nat, NEW i \in Nat, i <= Len(s) + 1
  PROVE  LET j == SkipCommas(s, i)
         IN  /\ j \in i..(Len(s) + 1) /\ \A l \in i..(j - 1) : s[l] = ","
             /\ j <= Len(s) => s[j] # ","
<1> DEFINE n == Len(s)
           stops == {j \in i..(n + 1) : j <= n => s[j] # ","}
           Found(j) == /\ \A l \in i..(j - 1) : s[l] = ","
                       /\ j <= n => s[j] # ","
<1>1. n \in Nat /\ i \in Nat /\ i <= n + 1
  OBVIOUS
<1> HIDE DEF n
<1>2. stops \subseteq Nat /\ n + 1 \in stops
  <2>1. stops \subseteq i..(n + 1)
    OBVIOUS
  <2>2. \A j \in i..(n + 1) : j \in Nat
    BY <1>1
  <2>3. n + 1 \in i..(n + 1) /\ ~(n + 1 <= n)
    BY <1>1
  <2> QED
    BY <2>1, <2>2, <2>3
<1>3. PICK j \in stops : \A k \in stops : j <= k
  <2> HIDE DEF stops
  <2> QED
    BY <1>2, Least
<1>4. j \in i..(n + 1)
  OBVIOUS
<1>5. j <= n => s[j] # ","
  OBVIOUS
<1> HIDE DEF stops
<1>6. j \in Nat /\ j <= n + 1
  BY <1>1, <1>4
<1>7. ASSUME NEW l \in i..(j - 1) PROVE s[l] = ","
  <2>1. l \in Nat /\ i <= l /\ l <= j - 1
    BY <1>1, <1>6
  <2>2. l \in i..(n + 1) /\ ~(j <= l)
    BY <1>1, <1>6, <2>1
  <2>3. l \notin stops
    BY <1>3, <2>2
  <2> QED
    BY <2>2, <2>3 DEF stops
<1>8. Found(j)
  BY <1>5, <1>7
<1> HIDE DEF Found
<1> DEFINE c == CHOOSE k \in i..(n + 1) : Found(k)
<1>9. c \in i..(n + 1) /\ Found(c)
  BY <1>4, <1>8
<1>10. c = SkipCommas(s, i)
  BY DEF c, Found, n, SkipCommas
<1> HIDE DEF c
<1> QED
  BY <1>9, <1>10 DEF Found, n

\* So it stays in the text.
LEMMA SkipInText ==
  ASSUME NEW s, Len(s) \in Nat, NEW i \in Nat, i <= Len(s) + 1
  PROVE  SkipCommas(s, i) \in i..(Len(s) + 1)
  BY SkipPasses

\* From a position of the text it stays in the text.
LEMMA SkipFrom ==
  ASSUME NEW s, Len(s) \in Nat, NEW i \in 1..(Len(s) + 1)
  PROVE  SkipCommas(s, i) \in 1..(Len(s) + 1)
<1> DEFINE n == Len(s)
           j == SkipCommas(s, i)
<1>1. n \in Nat /\ i \in Nat /\ 1 <= i /\ i <= n + 1
  OBVIOUS
<1>2. j \in i..(n + 1)
  BY <1>1, SkipInText
<1> HIDE DEF n, j
<1>3. j \in 1..(n + 1)
  BY <1>1, <1>2
<1> QED
  BY <1>3 DEF n, j

\* Numbers in order.
LEMMA Between == \A a, b, c \in Nat : a <= b /\ b <= c => a <= c
  OBVIOUS

\* Positions behind one are positions.
LEMMA Behind == \A n \in Nat : \A f \in 1..n : \A i \in (f + 1)..n : i \in 1..n
  OBVIOUS

\* A sum is no smaller than its terms.
LEMMA SumNoLess == \A a, b \in Nat : a + b \in Nat /\ a <= a + b
  OBVIOUS

\* A sum grows with its second part.
LEMMA SumBetween ==
  \A a, b, c \in Nat : b <= c => a + b \in Nat /\ a <= a + b /\ a + b <= a + c
  OBVIOUS

\* A position in a text has a next one.
LEMMA OneFurther == \A p, n \in Nat : p >= 1 /\ p <= n => p + 1 \in 1..(n + 1)
  OBVIOUS

\* An update of two fields of an object's frame.
LEMMA FrameUpdate ==
  ASSUME NEW a, NEW b, NEW c, NEW m, NEW k, NEW f, NEW m2, NEW k2
  PROVE  [ [kind |-> a, out |-> b, own |-> c, members |-> m, key |-> k, from |-> f]
             EXCEPT !.key = k2, !.members = m2 ]
         = [kind |-> a, out |-> b, own |-> c, members |-> m2, key |-> k2, from |-> f]
<1> DEFINE r == [kind |-> a, out |-> b, own |-> c, members |-> m, key |-> k, from |-> f]
           r1 == [r EXCEPT !.key = k2]
<1>1. r1 = [kind |-> a, out |-> b, own |-> c, members |-> m, key |-> k2, from |-> f]
  OBVIOUS
<1> HIDE DEF r
<1>2. [r EXCEPT !.key = k2, !.members = m2] = [r1 EXCEPT !.members = m2]
  OBVIOUS
<1> HIDE DEF r1
<1>3. [r1 EXCEPT !.members = m2] =
      [kind |-> a, out |-> b, own |-> c, members |-> m2, key |-> k2, from |-> f]
  BY <1>1
<1> QED
  BY <1>2, <1>3 DEF r

\* What FlattenSeq joins, text by text: the first i texts make runs[i].
Runs(u, parts, T) ==
  /\ u \in [0..Len(parts) -> Seq(T)]
  /\ u[0] = << >>
  /\ \A i \in 1..Len(parts) : u[i] = u[i - 1] \o parts[i]

\* For any texts there are such runs, and the last one is what FlattenSeq joins.
LEMMA FlattenRuns ==
  ASSUME NEW T, NEW parts \in Seq(Seq(T))
  PROVE  \E u : Runs(u, parts, T) /\ FlattenSeq(parts) = u[Len(parts)]
<1> DEFINE n == Len(parts)
           Upto(f, m) == f = [i \in 1..m |-> IF i = 1 THEN parts[i] ELSE f[i - 1] \o parts[i]]
           bad == {m \in Nat : ~ \E f : Upto(f, m)}
<1>1. n \in Nat /\ \A i \in 1..n : parts[i] \in Seq(T)
  OBVIOUS
<1>2. CASE n = 0
  <2>1. parts = << >> /\ << >> \in Seq(T)
    BY <1>2, EmptySeq
  <2>2. FlattenSeq(parts) = << >>
    BY <1>2, <2>1 DEF FlattenSeq
  <2> DEFINE u == [i \in 0..n |-> << >>]
  <2>3. Runs(u, parts, T) /\ u[n] = << >>
    BY <1>2, <2>1 DEF Runs
  <2> HIDE DEF u
  <2> QED
    BY <2>2, <2>3
<1>3. CASE n # 0
  <2>1. bad = {}
    <3> SUFFICES ASSUME bad # {} PROVE FALSE
      OBVIOUS
    <3>1. PICK m \in bad : \A k \in bad : m <= k
      <4>1. bad \subseteq Nat
        OBVIOUS
      <4> HIDE DEF bad
      <4> QED
        BY <4>1, Least
    <3>2. m \in Nat /\ ~ \E f : Upto(f, m)
      OBVIOUS
    <3>3. CASE m = 0
      <4> DEFINE f == [i \in 1..0 |-> << >>]
      <4>1. Upto(f, 0)
        OBVIOUS
      <4> HIDE DEF f, Upto
      <4> QED
        BY <3>2, <3>3, <4>1
    <3>4. CASE m # 0
      <4>1. m - 1 \in Nat /\ ~(m <= m - 1)
        BY <3>2, <3>4
      <4>2. m - 1 \notin bad
        <5> HIDE DEF bad
        <5> QED
          BY <3>1, <4>1
      <4>3. PICK g : Upto(g, m - 1)
        BY <4>1, <4>2
      <4> DEFINE last == IF m = 1 THEN parts[1] ELSE g[m - 1] \o parts[m]
                 f == [i \in 1..m |-> IF i = m THEN last ELSE g[i]]
      <4>4. ASSUME NEW i \in 1..m
            PROVE  f[i] = IF i = 1 THEN parts[i] ELSE f[i - 1] \o parts[i]
        <5>1. i \in Nat /\ 1 <= i /\ i <= m
          BY <3>2
        <5>2. CASE i = m
          <6>1. f[i] = last
            BY <5>2
          <6>2. i # 1 => i - 1 \in 1..m /\ i - 1 # m
            BY <3>2, <5>1
          <6>3. i # 1 => f[i - 1] = g[m - 1]
            BY <5>2, <6>2
          <6> HIDE DEF f
          <6> QED
            BY <5>2, <6>1, <6>3
        <5>3. CASE i # m
          <6>1. i \in 1..(m - 1) /\ (i # 1 => i - 1 \in 1..m /\ i - 1 # m)
            BY <3>2, <5>1, <5>3
          <6>2. g[i] = IF i = 1 THEN parts[i] ELSE g[i - 1] \o parts[i]
            BY <4>3, <6>1
          <6>3. f[i] = g[i] /\ (i # 1 => f[i - 1] = g[i - 1])
            BY <5>3, <6>1
          <6> HIDE DEF f
          <6> QED
            BY <6>2, <6>3
        <5> QED
          BY <5>2, <5>3
      <4>5. Upto(f, m)
        <5>1. f = [i \in 1..m |-> f[i]]
          OBVIOUS
        <5> HIDE DEF f
        <5>2. [i \in 1..m |-> f[i]] =
              [i \in 1..m |-> IF i = 1 THEN parts[i] ELSE f[i - 1] \o parts[i]]
          BY <4>4
        <5> QED
          BY <5>1, <5>2
      <4> HIDE DEF f, Upto
      <4> QED
        BY <3>2, <4>5
    <3> QED
      BY <3>3, <3>4
  <2> DEFINE flat == CHOOSE f : Upto(f, n)
  <2>2. Upto(flat, n)
    <3>1. \E f : Upto(f, n)
      BY <1>1, <2>1
    <3> HIDE DEF Upto
    <3> QED
      BY <3>1
  <2>3. FlattenSeq(parts) = flat[n]
    BY <1>3 DEF FlattenSeq
  <2>4. \A i \in 1..n : flat[i] = IF i = 1 THEN parts[i] ELSE flat[i - 1] \o parts[i]
    BY <2>2
  <2> HIDE DEF flat
  <2> DEFINE off == {m \in Nat : m \in 1..n /\ flat[m] \notin Seq(T)}
  <2>5. off = {}
    <3> SUFFICES ASSUME off # {} PROVE FALSE
      OBVIOUS
    <3>1. PICK m \in off : \A k \in off : m <= k
      <4>1. off \subseteq Nat
        OBVIOUS
      <4> HIDE DEF off
      <4> QED
        BY <4>1, Least
    <3>2. m \in Nat /\ m \in 1..n /\ flat[m] \notin Seq(T)
      OBVIOUS
    <3>3. flat[m] = IF m = 1 THEN parts[m] ELSE flat[m - 1] \o parts[m]
      BY <2>4, <3>2
    <3>4. m # 1
      BY <1>1, <3>2, <3>3
    <3>5. m - 1 \in 1..n /\ m - 1 \in Nat /\ ~(m <= m - 1)
      <4> HIDE DEF n
      <4> QED
        BY <1>1, <3>2, <3>4
    <3>6. m - 1 \notin off
      <4> HIDE DEF off
      <4> QED
        BY <3>1, <3>5
    <3>7. flat[m - 1] \in Seq(T)
      BY <3>5, <3>6
    <3> QED
      BY <1>1, <3>2, <3>3, <3>4, <3>7, ConcatProperties
  <2>6. \A i \in 1..n : flat[i] \in Seq(T)
    <3> TAKE i \in 1..n
    <3>1. i \in Nat
      BY <1>1
    <3>2. i \notin off
      <4> HIDE DEF off
      <4> QED
        BY <2>5
    <3> QED
      BY <3>1, <3>2
  <2> HIDE DEF off
  <2> DEFINE u == [i \in 0..n |-> IF i = 0 THEN << >> ELSE flat[i]]
  <2>7. << >> \in Seq(T)
    BY EmptySeq
  <2>8. \A i \in 0..n : i # 0 => i \in 1..n
    BY <1>1
  <2>9. u \in [0..n -> Seq(T)] /\ u[0] = << >>
    BY <1>1, <2>6, <2>7, <2>8
  <2>10. ASSUME NEW i \in 1..n PROVE u[i] = u[i - 1] \o parts[i]
    <3>1. i \in 0..n /\ i # 0 /\ i - 1 \in 0..n
      BY <1>1
    <3>2. u[i] = flat[i]
      BY <3>1
    <3>3. CASE i = 1
      <4>1. u[i - 1] = << >> /\ flat[i] = parts[i]
        BY <2>4, <3>1, <3>3
      <4>2. << >> \o parts[i] = parts[i]
        BY <1>1, ConcatEmptySeq
      <4> QED
        BY <3>2, <4>1, <4>2
    <3>4. CASE i # 1
      <4>1. i - 1 # 0
        BY <3>1, <3>4
      <4>2. u[i - 1] = flat[i - 1]
        BY <3>1, <4>1
      <4> QED
        BY <2>4, <3>2, <3>4, <4>2
    <3> QED
      BY <3>3, <3>4
  <2>11. u[n] = flat[n]
    BY <1>1, <1>3
  <2> HIDE DEF u
  <2> QED
    BY <2>3, <2>9, <2>10, <2>11 DEF Runs
<1> QED
  BY <1>2, <1>3

\* Texts that follow each other are a text.
LEMMA FlattenType ==
  ASSUME NEW T, NEW parts \in Seq(Seq(T))
  PROVE  FlattenSeq(parts) \in Seq(T)
<1>1. PICK u : Runs(u, parts, T) /\ FlattenSeq(parts) = u[Len(parts)]
  BY FlattenRuns
<1>2. Len(parts) \in 0..Len(parts)
  OBVIOUS
<1> QED
  BY <1>1, <1>2 DEF Runs

-------------------------------------------------------------------------------
\* Punctuation and words are tokens.
LEMMA Tokens ==
  /\ \A c \in Open \cup Close \cup {",", ":", "already"} : Punct(c) \in Seq(Token)
  /\ \A w \in Scanned : << <<"word", w>> >> \in Seq(Token)
  /\ << >> \in Seq(Token)
<1>1. \A c \in Open \cup Close \cup {",", ":", "already"} : <<c>> \in Token
  BY DEF Token, Punctuation
<1>2. \A w \in Scanned : <<"word", w>> \in Token
  BY DEF Token
<1>3. \A t \in Token : <<t>> \in Seq(Token)
  OBVIOUS
<1>4. \A c \in Open \cup Close \cup {",", ":", "already"} : Punct(c) \in Seq(Token)
  BY <1>1, <1>3 DEF Punct
<1>5. \A w \in Scanned : << <<"word", w>> >> \in Seq(Token)
  BY <1>2, <1>3
<1>6. << >> \in Seq(Token)
  BY EmptySeq
<1> QED
  BY <1>4, <1>5, <1>6, Zenon

\* A comma makes a text longer.
LEMMA CommaBehind ==
  ASSUME NEW t \in Seq(Token)
  PROVE  t \o Punct(",") \in Seq(Token) /\ Len(t \o Punct(",")) \in Nat
         /\ Len(t) \in Nat /\ Len(t) <= Len(t \o Punct(","))
<1> DEFINE c == Punct(",")
<1>1. c \in Seq(Token)
  BY Tokens
<1> HIDE DEF c
<1>2. t \o c \in Seq(Token) /\ Len(t \o c) = Len(t) + Len(c)
      /\ Len(t) \in Nat /\ Len(c) \in Nat
  BY <1>1, ConcatProperties
<1>3. t \o c \in Seq(Token) /\ Len(t \o c) \in Nat
      /\ Len(t) \in Nat /\ Len(t) <= Len(t \o c)
  BY <1>2, SumNoLess, Zenon
<1> QED
  BY <1>3 DEF c

\* The text of an object is a text, if its members lie in its buffer.
LEMMA ObjectTextType ==
  ASSUME NEW members \in Seq(Member), NEW bytes \in Seq(Token),
         \A m \in 1..Len(members) :
           members[m].start <= members[m].end /\ members[m].end <= Len(bytes)
  PROVE  ObjectText(members, bytes) \in Seq(Token)
<1> DEFINE comma(i) == IF i > 1 THEN Punct(",") ELSE << >>
           text(i) == comma(i) \o MemberText(members[i], bytes)
           texts == [i \in DOMAIN members |-> text(i)]
<1>1. DOMAIN members = 1..Len(members) /\ Len(members) \in Nat
  OBVIOUS
<1>2. ASSUME NEW i \in 1..Len(members) PROVE text(i) \in Seq(Token)
  <2> DEFINE m == members[i]
             held == SubSeq(bytes, m.start + 1, m.end)
  <2>1. m \in Member
    OBVIOUS
  <2>2. m.key \in Scanned /\ m.start \in Nat /\ m.end \in Nat
    BY <2>1 DEF Member
  <2>3. m.end <= Len(bytes)
    OBVIOUS
  <2>4. held \in Seq(Token)
    <3> HIDE DEF m
    <3>1. \A j \in (m.start + 1)..m.end : j \in 1..Len(bytes)
      BY <2>2, <2>3
    <3>2. \A j \in (m.start + 1)..m.end : bytes[j] \in Token
      BY <3>1, ElementOfSeq
    <3>3. m.start + 1 \in Int /\ m.end \in Int
      BY <2>2
    <3> QED
      BY <3>2, <3>3, SubSeqProperties
  <2> HIDE DEF held
  <2>5. << <<"word", m.key>> >> \in Seq(Token) /\ Punct(":") \in Seq(Token)
        /\ comma(i) \in Seq(Token)
    BY <2>2, Tokens
  <2> HIDE DEF m, comma
  <2>6. << <<"word", m.key>> >> \o Punct(":") \in Seq(Token)
    BY <2>5, ConcatProperties
  <2>7. << <<"word", m.key>> >> \o Punct(":") \o held \in Seq(Token)
    BY <2>4, <2>6, ConcatProperties
  <2>8. comma(i) \o (<< <<"word", m.key>> >> \o Punct(":") \o held) \in Seq(Token)
    BY <2>5, <2>7, ConcatProperties
  <2> QED
    BY <2>8 DEF m, held, MemberText
<1>3. texts \in Seq(Seq(Token))
  <2> HIDE DEF text
  <2>1. texts \in [1..Len(members) -> Seq(Token)]
    BY <1>1, <1>2
  <2> QED
    BY <1>1, <2>1
<1>4. FlattenSeq(texts) \in Seq(Token)
  <2> HIDE DEF texts
  <2> QED
    BY <1>3, FlattenType
<1>5. Punct("{") \in Seq(Token) /\ Punct("}") \in Seq(Token)
  BY Tokens DEF Open, Close
<1>6. Punct("{") \o FlattenSeq(texts) \in Seq(Token)
  <2> HIDE DEF texts
  <2> QED
    BY <1>4, <1>5, ConcatProperties
<1>7. Punct("{") \o FlattenSeq(texts) \o Punct("}") \in Seq(Token)
  <2> HIDE DEF texts
  <2> QED
    BY <1>5, <1>6, ConcatProperties
<1> QED
  BY <1>7 DEF ObjectText

\* Writing to a buffer makes it longer and leaves the others alone.
LEMMA Written ==
  ASSUME dst \in Seq(Token), dst # << >>, scratch \in Seq(Seq(Token)),
         NEW b \in 0..Len(scratch), NEW text \in Seq(Token), Write(b, text)
  PROVE  /\ dst' \in Seq(Token) /\ dst' # << >> /\ dst'[1] = dst[1]
         /\ b # 0 => dst' = dst
         /\ scratch' \in Seq(Seq(Token)) /\ Len(scratch') = Len(scratch)
         /\ \A i \in 1..Len(scratch) :
              /\ Len(scratch[i]) \in Nat /\ Len(scratch'[i]) \in Nat
              /\ Len(scratch[i]) <= Len(scratch'[i])
         /\ b # 0 => Len(scratch'[b]) = Len(scratch[b]) + Len(text)
<1>1. Len(text) \in Nat /\ \A i \in 1..Len(scratch) :
        scratch[i] \in Seq(Token) /\ Len(scratch[i]) \in Nat
  OBVIOUS
<1>2. CASE b = 0
  <2>1. dst' = dst \o text /\ scratch' = scratch
    BY <1>2 DEF Write
  <2>2. /\ dst \o text \in Seq(Token)
        /\ Len(dst \o text) = Len(dst) + Len(text)
        /\ \A i \in 1..(Len(dst) + Len(text)) :
             (dst \o text)[i] = IF i <= Len(dst) THEN dst[i] ELSE text[i - Len(dst)]
    BY ConcatProperties
  <2>3. Len(dst) \in Nat \ {0}
    BY EmptySeq
  <2>4. 1 \in 1..(Len(dst) + Len(text)) /\ 1 <= Len(dst)
    BY <1>1, <2>3
  <2>5. (dst \o text)[1] = dst[1] /\ dst \o text # << >>
    BY <2>2, <2>4, EmptySeq
  <2> QED
    BY <1>1, <1>2, <2>1, <2>2, <2>5
<1>3. CASE b # 0
  <2> DEFINE longer == scratch[b] \o text
  <2>1. dst' = dst /\ scratch' = [scratch EXCEPT ![b] = longer]
    BY <1>3 DEF Write
  <2>2. b \in 1..Len(scratch)
    BY <1>3
  <2>3. longer \in Seq(Token) /\ Len(longer) = Len(scratch[b]) + Len(text)
    BY <1>1, <2>2, ConcatProperties
  <2> HIDE DEF longer
  <2>4. /\ scratch' \in Seq(Seq(Token)) /\ Len(scratch') = Len(scratch)
        /\ \A i \in 1..Len(scratch) : scratch'[i] = IF i = b THEN longer ELSE scratch[i]
    BY <2>1, <2>2, <2>3, ExceptSeq
  <2>5. ASSUME NEW i \in 1..Len(scratch)
        PROVE  /\ Len(scratch[i]) \in Nat /\ Len(scratch'[i]) \in Nat
               /\ Len(scratch[i]) <= Len(scratch'[i])
    <3>1. CASE i = b
      BY <1>1, <2>3, <2>4, <3>1
    <3>2. CASE i # b
      BY <1>1, <2>4, <3>2
    <3> QED
      BY <3>1, <3>2
  <2>6. Len(scratch'[b]) = Len(scratch[b]) + Len(text)
    BY <2>2, <2>3, <2>4
  <2> QED
    BY <1>3, <2>1, <2>4, <2>5, <2>6
<1> QED
  BY <1>2, <1>3

\* The buffers that objects own are among those in use.
LEMMA OwnedInUse ==
  ASSUME NEW s \in Seq(Frame), NEW d, Shaped(s, d),
         NEW i \in 1..Len(s), s[i].kind # "array"
  PROVE  d \in Nat /\ s[i].own \in 1..d
<1>1. Len(s) \in Nat /\ i \in Nat /\ i > 0 /\ i <= Len(s)
  OBVIOUS
<1>2. i \in 0..Len(s) /\ i - 1 \in 0..Len(s) /\ Len(s) \in 0..Len(s)
  BY <1>1
<1>3. Level(s, i) \in Nat /\ Level(s, i - 1) \in Nat /\ Level(s, Len(s)) \in Nat
      /\ Level(s, i) = Level(s, i - 1) + 1
  BY <1>1, <1>2, LevelStep
<1>4. Level(s, i) <= Level(s, Len(s))
  BY <1>1, <1>2, LevelMonotone
<1>5. d = Level(s, Len(s)) /\ s[i].own = Level(s, i)
  BY DEF Shaped
<1> QED
  BY <1>3, <1>4, <1>5

\* Longer buffers hold what the shorter ones did.
LEMMA HeldByLonger ==
  ASSUME NEW s \in Seq(Frame), NEW d, Shaped(s, d), NEW buffers, NEW longer,
         Held(s, buffers),
         \A b \in 1..d : /\ Len(buffers[b]) \in Nat /\ Len(longer[b]) \in Nat
                         /\ Len(buffers[b]) <= Len(longer[b])
  PROVE  Held(s, longer)
<1> SUFFICES ASSUME NEW i \in 1..Len(s), s[i].kind # "array"
             PROVE  Spans(s[i], Len(longer[s[i].own]))
  BY DEF Held
<1> DEFINE f == s[i]
           short == Len(buffers[f.own])
           long == Len(longer[f.own])
<1>1. f \in Frame /\ f.own \in 1..d
  BY OwnedInUse
<1>2. short \in Nat /\ long \in Nat /\ short <= long
  BY <1>1
<1>3. f.from \in Nat /\ f.members \in Seq(Member)
  BY <1>1, FrameFields
<1>4. \A m \in 1..Len(f.members) : f.members[m].end \in Nat
  <2> HIDE DEF f
  <2>1. \A m \in 1..Len(f.members) : f.members[m] \in Member
    BY <1>3
  <2> QED
    BY <2>1 DEF Member
<1>5. Spans(f, short)
  BY DEF Held
<1> HIDE DEF f, short, long
<1>6. Spans(f, long)
  <2>1. f.from <= long
    BY <1>2, <1>3, <1>5 DEF Spans
  <2>2. ASSUME NEW m \in 1..Len(f.members)
        PROVE  f.members[m].start <= f.members[m].end /\ f.members[m].end <= long
    BY <1>2, <1>4, <1>5 DEF Spans
  <2> QED
    BY <2>1, <2>2 DEF Spans
<1> QED
  BY <1>6 DEF f, long

\* Setting a member keeps the members within what is written.
LEMMA SetMemberSpans ==
  ASSUME NEW members \in Seq(Member), NEW k \in Scanned,
         NEW from \in Nat, NEW end \in Nat, from <= end,
         \A m \in 1..Len(members) :
           members[m].start <= members[m].end /\ members[m].end <= end
  PROVE  LET set == SetMember(members, k, from, end)
         IN  /\ set \in Seq(Member)
             /\ \A m \in 1..Len(set) : set[m].start <= set[m].end /\ set[m].end <= end
<1> DEFINE Within == {m \in Member : m.start <= m.end /\ m.end <= end}
           same == {i \in DOMAIN members : members[i].key = k}
           first == CHOOSE i \in same : TRUE
           others == IF same = {} THEN members ELSE RemoveAt(members, first)
           new == [key |-> k, start |-> from, end |-> end]
           set == SetMember(members, k, from, end)
<1>1. members \in Seq(Within) /\ DOMAIN members = 1..Len(members) /\ Len(members) \in Nat
  <2>1. DOMAIN members = 1..Len(members) /\ Len(members) \in Nat
        /\ members \in [1..Len(members) -> Member]
    BY LenProperties
  <2>2. \A m \in 1..Len(members) : members[m] \in Within
    BY <2>1
  <2> HIDE DEF Within
  <2>3. members \in [1..Len(members) -> Within]
    BY <2>1, <2>2
  <2> QED
    BY <2>1, <2>3
<1>2. new \in Within
  BY DEF Member
<1> HIDE DEF Within, new
<1>3. others \in Seq(Within)
  <2>1. CASE same = {}
    BY <1>1, <2>1
  <2>2. CASE same # {}
    <3>1. first \in 1..Len(members)
      BY <1>1, <2>2
    <3> HIDE DEF first, same
    <3>2. 1 \in Int /\ first - 1 \in Int /\ first + 1 \in Int /\ Len(members) \in Int
          /\ \A i \in 1..(first - 1) : i \in 1..Len(members)
          /\ \A j \in (first + 1)..Len(members) : j \in 1..Len(members)
      BY <1>1, <3>1
    <3>3. \A i \in 1..Len(members) : members[i] \in Within
      BY <1>1, ElementOfSeq
    <3>4. \A i \in 1..(first - 1) : members[i] \in Within
      BY <3>2, <3>3, Zenon
    <3>5. \A i \in (first + 1)..Len(members) : members[i] \in Within
      <4> TAKE i \in (first + 1)..Len(members)
      <4>1. i \in 1..Len(members)
        BY <1>1, <3>1, Behind, Zenon
      <4> QED
        BY <3>3, <4>1, Zenon
    <3>6. SubSeq(members, 1, first - 1) \in Seq(Within)
      BY <3>2, <3>4, SubSeqProperties
    <3>7. SubSeq(members, first + 1, Len(members)) \in Seq(Within)
      BY <3>2, <3>5, SubSeqProperties
    <3>8. RemoveAt(members, first) \in Seq(Within)
      BY <3>6, <3>7, ConcatProperties DEF RemoveAt
    <3> QED
      BY <2>2, <3>8
  <2> QED
    BY <2>1, <2>2
<1>4. set = Append(others, new)
  BY DEF SetMember, new
<1> HIDE DEF others, set
<1>5. set \in Seq(Within)
  BY <1>2, <1>3, <1>4, AppendProperties
<1>6. Within \subseteq Member
  BY DEF Within
<1>7. set \in Seq(Member)
  BY <1>5, <1>6, SeqMonotonic
<1>8. \A m \in 1..Len(set) : set[m] \in Within
  BY <1>5, ElementOfSeq
<1>9. \A m \in 1..Len(set) : set[m].start <= set[m].end /\ set[m].end <= end
  BY <1>8 DEF Within
<1> QED
  BY <1>7, <1>9 DEF set

\* A delivered value keeps the containers around it as they should be.
LEMMA Delivered ==
  ASSUME src \in Seq(Lexeme), dst \in Seq(Token), dst # << >>,
         scratch \in Seq(Seq(Token)),
         NEW frames \in Seq(Frame), NEW d \in 0..Len(scratch), Shaped(frames, d),
         Held(frames, scratch), Waiting(frames),
         frames # << >> /\ frames[Len(frames)].kind # "array" =>
           frames[Len(frames)].key # NoKey,
         NEW text \in Seq(Token), NEW next \in 1..(Len(src) + 1),
         Deliver(frames, d, text, next)
  PROVE  /\ pos' \in 1..(Len(src) + 1)
         /\ phase' = IF frames = << >> THEN "end" ELSE phase
         /\ dst' \in Seq(Token) /\ dst' # << >> /\ dst'[1] = dst[1]
         /\ d # 0 => dst' = dst
         /\ scratch' \in Seq(Seq(Token)) /\ Len(scratch') = Len(scratch)
         /\ stack' \in Seq(Frame) /\ Len(stack') = Len(frames)
         /\ \A i \in 1..Len(frames) : stack'[i].kind = frames[i].kind
         /\ Shaped(stack', d) /\ Held(stack', scratch') /\ Waiting(stack')
<1> DEFINE n == Len(frames)
           top == frames[n]
           after == IF n = 0 THEN next ELSE SkipCommas(src, next)
           array == n > 0 /\ top.kind = "array"
           goesOn == array /\ after <= Len(src) /\ src[after] # "]"
           end == Len(Bytes(d)) + Len(text)
           members == SetMember(top.members, top.key, top.from, end)
           taken == [top EXCEPT !.key = NoKey,
                       !.members = SetMember(@, top.key, top.from, end)]
           written == IF goesOn THEN text \o Punct(",") ELSE text
<1>1. n \in Nat /\ Len(src) \in Nat /\ (n = 0 <=> frames = << >>) /\ d \in Nat
      /\ Len(text) \in Nat
  BY EmptySeq
<1>2. /\ Write(d, written)
      /\ pos' = after
      /\ stack' = IF n = 0 \/ array THEN frames ELSE [frames EXCEPT ![n] = taken]
      /\ phase' = IF n = 0 THEN "end" ELSE phase
  BY DEF Deliver
<1>3. pos' \in 1..(Len(src) + 1)
  <2>1. SkipCommas(src, next) \in 1..(Len(src) + 1)
    BY <1>1, SkipFrom
  <2> QED
    BY <1>2, <2>1, Zenon
<1>4. written \in Seq(Token) /\ Len(written) \in Nat /\ Len(text) <= Len(written)
  <2> HIDE DEF goesOn
  <2>1. CASE goesOn
    BY <2>1, CommaBehind
  <2>2. CASE ~goesOn
    <3>1. written = text
      BY <2>2
    <3>2. Len(text) <= Len(text)
      BY <1>1
    <3> QED
      BY <1>1, <3>1, <3>2
  <2> QED
    BY <2>1, <2>2
<1> HIDE DEF written
<1>5. /\ dst' \in Seq(Token) /\ dst' # << >> /\ dst'[1] = dst[1]
      /\ d # 0 => dst' = dst
      /\ scratch' \in Seq(Seq(Token)) /\ Len(scratch') = Len(scratch)
      /\ \A i \in 1..Len(scratch) :
           /\ Len(scratch[i]) \in Nat /\ Len(scratch'[i]) \in Nat
           /\ Len(scratch[i]) <= Len(scratch'[i])
      /\ d # 0 => Len(scratch'[d]) = Len(scratch[d]) + Len(written)
  BY <1>2, <1>4, Written
<1>6. Held(frames, scratch')
  <2>1. \A b \in 1..d : b \in 1..Len(scratch)
    BY <1>1
  <2> QED
    BY <1>5, <2>1, HeldByLonger
<1>7. CASE n = 0 \/ array
  <2>1. stack' = frames
    BY <1>2, <1>7
  <2> QED
    BY <1>1, <1>2, <1>3, <1>5, <1>6, <2>1
<1>8. CASE ~(n = 0 \/ array)
  <2>1. n > 0 /\ top.kind # "array" /\ n \in 1..Len(frames)
    BY <1>1, <1>8
  <2>2. /\ top.kind \in {"object", "elided"} /\ top.out \in Nat
        /\ top.own \in Nat /\ top.members \in Seq(Member)
        /\ top.key \in Scanned \cup {NoKey} /\ top.from \in Nat
        /\ top = [kind |-> top.kind, out |-> top.out, own |-> top.own,
                  members |-> top.members, key |-> top.key, from |-> top.from]
    BY <2>1, FrameFields
  <2>3. top.key \in Scanned
    BY <1>1, <2>1, <2>2
  <2>4. top.own = d /\ d # 0 /\ d \in 1..Len(scratch)
    <3>1. n \in 0..Len(frames)
      BY <1>1
    <3>2. top.own = Level(frames, n) /\ d = Level(frames, n)
      BY <2>1 DEF Shaped
    <3>3. top.own \in 1..d
      BY <2>1, OwnedInUse
    <3> QED
      BY <1>1, <3>2, <3>3
  <2>5. end = Len(scratch[d]) + Len(text) /\ end \in Nat
        /\ Len(scratch[d]) \in Nat /\ Len(scratch[d]) <= end
        /\ end <= Len(scratch'[d])
    <3>1. Len(scratch[d]) \in Nat
      BY <1>5, <2>4
    <3>2. end = Len(scratch[d]) + Len(text)
      BY <2>4 DEF Bytes
    <3>3. Len(scratch'[d]) = Len(scratch[d]) + Len(written)
      BY <1>5, <2>4
    <3>4. Len(scratch[d]) + Len(text) \in Nat
          /\ Len(scratch[d]) <= Len(scratch[d]) + Len(text)
          /\ Len(scratch[d]) + Len(text) <= Len(scratch[d]) + Len(written)
      BY <1>1, <1>4, <3>1, SumBetween, Zenon
    <3> HIDE DEF end
    <3> QED
      BY <3>1, <3>2, <3>3, <3>4, Zenon
  <2>6. Spans(top, Len(scratch[d]))
    BY <2>1, <2>4 DEF Held
  <2>7. top.from <= end /\ \A m \in 1..Len(top.members) :
          top.members[m].start <= top.members[m].end /\ top.members[m].end <= end
    <3>1. \A m \in 1..Len(top.members) : top.members[m] \in Member
      BY <2>2, ElementOfSeq
    <3>2. \A m \in 1..Len(top.members) : top.members[m].end \in Nat
      BY <3>1 DEF Member
    <3> HIDE DEF top, end
    <3>3. top.from <= Len(scratch[d])
          /\ \A m \in 1..Len(top.members) :
               top.members[m].start <= top.members[m].end
               /\ top.members[m].end <= Len(scratch[d])
      BY <2>6, Zenon DEF Spans
    <3> QED
      BY <2>2, <2>5, <3>2, <3>3, Between, Zenon
  <2>8. members \in Seq(Member) /\ \A m \in 1..Len(members) :
          members[m].start <= members[m].end /\ members[m].end <= end
    <3> HIDE DEF top, end
    <3> QED
      BY <2>2, <2>3, <2>5, <2>7, SetMemberSpans
  <2>9. taken = [kind |-> top.kind, out |-> top.out, own |-> top.own,
                 members |-> members, key |-> NoKey, from |-> top.from]
    <3>1. taken = [top EXCEPT !.key = NoKey, !.members = members]
      BY Zenon
    <3> HIDE DEF taken, members, top, end
    <3> QED
      BY <2>2, <3>1, FrameUpdate
  <2> HIDE DEF members, top, end, taken
  <2>10. taken \in Frame
    BY <2>2, <2>8, <2>9 DEF Frame
  <2>11. /\ stack' \in Seq(Frame) /\ Len(stack') = n
         /\ \A i \in 1..n : stack'[i] = IF i = n THEN taken ELSE frames[i]
    BY <1>2, <1>8, <2>1, <2>10, ExceptSeq
  <2>12. \A i \in 1..n : stack'[i].kind = frames[i].kind /\ stack'[i].out = frames[i].out
                         /\ (frames[i].kind # "array" => stack'[i].own = frames[i].own)
    BY <2>9, <2>11 DEF top
  <2>13. Shaped(stack', d)
    BY <2>11, <2>12, ShapeKept
  <2>14. Spans(taken, Len(scratch'[d]))
    <3>1. Len(scratch'[d]) \in Nat
      BY <1>5, <2>4
    <3>2. \A m \in 1..Len(members) : members[m] \in Member
      BY <2>8, ElementOfSeq
    <3>3. \A m \in 1..Len(members) : members[m].end \in Nat
      BY <3>2 DEF Member
    <3>4. taken.from = top.from /\ taken.members = members
      BY <2>9
    <3>5. top.from <= Len(scratch'[d])
      BY <2>2, <2>5, <2>7, <3>1, Between, Zenon
    <3>6. \A m \in 1..Len(members) : members[m].end <= Len(scratch'[d])
      BY <2>5, <2>8, <3>1, <3>3, Between, Zenon
    <3> QED
      BY <2>8, <3>4, <3>5, <3>6, Zenon DEF Spans
  <2>15. Held(stack', scratch')
    <3> SUFFICES ASSUME NEW i \in 1..Len(stack'), stack'[i].kind # "array"
                 PROVE  Spans(stack'[i], Len(scratch'[stack'[i].own]))
      BY DEF Held
    <3>1. CASE i = n
      <4>1. stack'[i] = taken /\ taken.own = d
        BY <2>4, <2>9, <2>11, <3>1
      <4> QED
        BY <2>14, <4>1
    <3>2. CASE i # n
      <4>1. stack'[i] = frames[i] /\ i \in 1..Len(frames)
        BY <2>11, <3>2
      <4> QED
        BY <1>6, <4>1 DEF Held
    <3> QED
      BY <3>1, <3>2
  <2>16. Waiting(stack')
    <3>1. \A i \in 1..(n - 1) : stack'[i] = frames[i]
      BY <1>1, <2>11
    <3> QED
      BY <2>11, <3>1 DEF Waiting
  <2> QED
    BY <1>1, <1>2, <1>3, <1>5, <2>11, <2>12, <2>13, <2>15, <2>16
<1> QED
  BY <1>7, <1>8

-------------------------------------------------------------------------------
\* The parts of the invariant, one by one.
LEMMA Parts ==
  ASSUME WriterInv
  PROVE  /\ src \in Seq(Lexeme) /\ Len(src) \in Nat /\ limit \in Nat
         /\ pos \in 1..(Len(src) + 1) /\ pos \in Nat
         /\ stack \in Seq(Frame) /\ Len(stack) \in Nat
         /\ dst \in Seq(Token) /\ dst # << >> /\ dst[1] = <<"already">>
         /\ phase \in {"start", "elided"} => dst = Already
         /\ scratch \in Seq(Seq(Token)) /\ Len(scratch) \in Nat
         /\ nesting \in Nat /\ depth \in Nat /\ depth \in 0..Len(scratch) /\ tables = depth
         /\ Shaped(stack, depth) /\ Held(stack, scratch) /\ Waiting(stack)
  BY DEF WriterInv, TypeOK, Output

\* An object at the bottom of the stack has a buffer.
LEMMA BottomUses ==
  ASSUME NEW s \in Seq(Frame), NEW d, Shaped(s, d), s # << >>, s[1].kind # "array"
  PROVE  d # 0
<1>1. Len(s) \in Nat \ {0}
  BY EmptySeq
<1>2. 1 \in 1..Len(s)
  BY <1>1
<1>3. d \in Nat /\ s[1].own \in 1..d
  BY <1>2, OwnedInUse
<1> QED
  BY <1>3

\* A value goes to the innermost buffer in use.
LEMMA TargetInnermost ==
  ASSUME WriterInv
  PROVE  Target = depth
<1>1. CASE stack = << >>
  <2>1. depth = 0
    BY <1>1, Parts, ShapeEmpty
  <2> QED
    BY <1>1, <2>1 DEF Target
<1>2. CASE stack # << >>
  <2>1. /\ Top.out = (IF Top.kind = "array" THEN depth ELSE depth - 1)
        /\ Top.kind # "array" => Top.own = depth
    BY <1>2, Parts, ShapePopped DEF Top
  <2> QED
    BY <1>2, <2>1 DEF Target, InObject
<1> QED
  BY <1>1, <1>2

\* Without its innermost container the stack is still as it should be.
Popped(t, e) ==
  /\ t \in Seq(Frame) /\ Len(t) \in Nat /\ Len(t) = Len(stack) - 1
  /\ \A i \in 1..Len(t) : t[i] = stack[i]
  /\ e \in Nat /\ e \in 0..Len(scratch)
  /\ Shaped(t, e) /\ Held(t, scratch) /\ Waiting(t)
  /\ t # << >> /\ t[Len(t)].kind # "array" => t[Len(t)].key # NoKey
  /\ \A i \in 1..Len(t) : t[i].kind = "elided" => i = 1
  /\ phase = "elided" /\ Top.kind # "elided" => t # << >> /\ t[1].kind = "elided"

\* The innermost container, and what is around it.
LEMMA OuterKept ==
  ASSUME WriterInv, stack # << >>
  PROVE  LET e == IF Top.kind = "array" THEN depth ELSE depth - 1
         IN  /\ Popped(Outer, e)
             /\ Top \in Frame /\ Top.out = e
             /\ Top.kind # "array" => Top.own = depth /\ depth \in 1..Len(scratch)
<1> DEFINE t == Outer
           n == Len(stack)
           e == IF Top.kind = "array" THEN depth ELSE depth - 1
<1>1. n \in Nat /\ n # 0 /\ depth \in Nat /\ depth \in 0..Len(scratch) /\ Len(scratch) \in Nat
  BY Parts, EmptySeq
<1>2. /\ t \in Seq(Frame) /\ Len(t) = n - 1
      /\ \A i \in 1..(n - 1) : t[i] = stack[i]
      /\ e \in Nat
      /\ Top \in Frame /\ Top.out = e
      /\ Top.kind # "array" => Top.own = depth
      /\ Shaped(t, e)
  BY Parts, ShapePopped DEF Top, Outer
<1> HIDE DEF t, n
<1>3. Len(t) \in Nat /\ n - 1 \in Nat /\ e \in 0..Len(scratch)
  BY <1>1, <1>2
<1>4. \A i \in 1..Len(t) : t[i] = stack[i] /\ i \in 1..n
  BY <1>1, <1>2
<1>5. Held(t, scratch)
  BY <1>4, Parts DEF Held, n
<1>6. Waiting(t)
  <2>1. \A i \in 1..(Len(t) - 1) : i \in 1..Len(t) /\ i \in 1..(n - 1)
    BY <1>1, <1>2, <1>3
  <2> QED
    BY <1>4, <2>1, Parts DEF Waiting, n
<1>7. ASSUME t # << >>, t[Len(t)].kind # "array"
      PROVE  t[Len(t)].key # NoKey
  <2>1. Len(t) # 0
    BY <1>2, <1>7, EmptySeq
  <2>2. Len(t) \in 1..(n - 1) /\ Len(t) \in 1..Len(t)
    BY <1>1, <1>2, <1>3, <2>1
  <2>3. t[Len(t)] = stack[Len(t)]
    BY <1>4, <2>2
  <2> QED
    BY <1>7, <2>2, <2>3, Parts DEF Waiting, n
<1>8. \A i \in 1..n : stack[i].kind = "elided" => i = 1
  BY DEF WriterInv, ElidedOutside, n
<1>9. \A i \in 1..Len(t) : t[i].kind = "elided" => i = 1
  BY <1>4, <1>8
<1>10. ASSUME phase = "elided", Top.kind # "elided"
       PROVE  t # << >> /\ t[1].kind = "elided"
  <2>1. stack[1].kind = "elided"
    BY <1>10 DEF WriterInv, ElidedOutside
  <2>2. n # 1
    BY <1>10, <2>1 DEF Top, n
  <2>3. Len(t) # 0 /\ 1 \in 1..Len(t)
    BY <1>1, <1>2, <2>2
  <2>4. t # << >>
    BY <2>3, EmptySeq
  <2> QED
    BY <1>4, <2>1, <2>3, <2>4
<1>11. Popped(t, e)
  BY <1>2, <1>3, <1>4, <1>5, <1>6, <1>7, <1>9, <1>10 DEF Popped, n
<1>12. Top.kind # "array" => depth \in 1..Len(scratch)
  BY <1>1, <1>2
<1> QED
  BY <1>2, <1>11, <1>12 DEF t

\* A step that fails to read changes the phase and nothing else.
LEMMA FailStep ==
  ASSUME WriterInv, Reading, NEW err \in {"syntax", "deep"}, Fail(err)
  PROVE  WriterInv'
<1>1. phase' = err /\ phase \in {"value", "elided"}
  BY DEF Fail, Reading
<1>2. /\ src' = src /\ limit' = limit /\ pos' = pos /\ stack' = stack
      /\ nesting' = nesting /\ dst' = dst /\ scratch' = scratch /\ depth' = depth
      /\ tables' = tables
  BY DEF Fail
<1>3. TypeOK'
  BY <1>1, <1>2 DEF WriterInv, TypeOK
<1>4. Shaped(stack', depth') /\ tables' = depth' /\ Held(stack', scratch') /\ Waiting(stack')
  BY <1>2 DEF WriterInv
<1>5. ElidedOutside' /\ OpenWhileReading'
  BY <1>1, <1>2 DEF WriterInv, ElidedOutside, OpenWhileReading, Results
<1>6. Output'
  BY <1>1, <1>2 DEF WriterInv, Output
<1> QED
  BY <1>3, <1>4, <1>5, <1>6 DEF WriterInv

\* A value that is written and taken in by what is around it.
LEMMA DeliverStep ==
  ASSUME WriterInv, Reading,
         NEW frames \in Seq(Frame), NEW d \in 0..Len(scratch), Shaped(frames, d),
         Held(frames, scratch), Waiting(frames),
         frames # << >> /\ frames[Len(frames)].kind # "array" =>
           frames[Len(frames)].key # NoKey,
         \A i \in 1..Len(frames) : frames[i].kind = "elided" => i = 1,
         phase = "elided" => frames # << >> /\ frames[1].kind = "elided",
         NEW text \in Seq(Token), NEW next \in 1..(Len(src) + 1),
         Deliver(frames, d, text, next),
         src' = src, limit' = limit,
         depth' = d, tables' = d, nesting' = Len(frames)
  PROVE  WriterInv'
<1>1. /\ pos' \in 1..(Len(src) + 1)
      /\ phase' = IF frames = << >> THEN "end" ELSE phase
      /\ dst' \in Seq(Token) /\ dst' # << >> /\ dst'[1] = dst[1]
      /\ d # 0 => dst' = dst
      /\ scratch' \in Seq(Seq(Token)) /\ Len(scratch') = Len(scratch)
      /\ stack' \in Seq(Frame) /\ Len(stack') = Len(frames)
      /\ \A i \in 1..Len(frames) : stack'[i].kind = frames[i].kind
      /\ Shaped(stack', d) /\ Held(stack', scratch') /\ Waiting(stack')
  BY Parts, Delivered
<1>2. phase \in {"value", "elided"}
  BY DEF Reading
<1>3. d \in Nat /\ Len(frames) \in Nat /\ (frames = << >> <=> Len(frames) = 0)
      /\ (stack' = << >> <=> Len(stack') = 0)
  BY <1>1, EmptySeq
<1>4. TypeOK'
  BY <1>1, <1>2, <1>3, Parts DEF TypeOK
<1>5. ElidedOutside'
  <2>1. \A i \in 1..Len(stack') : stack'[i].kind = "elided" => i = 1
    BY <1>1
  <2>2. ASSUME phase' = "elided" PROVE stack' # << >> /\ stack'[1].kind = "elided"
    <3>1. phase = "elided"
      BY <1>1, <2>2
    <3>2. frames # << >> /\ frames[1].kind = "elided" /\ 1 \in 1..Len(frames)
      BY <1>3, <3>1
    <3> QED
      BY <1>1, <1>3, <3>2
  <2> QED
    BY <2>1, <2>2 DEF ElidedOutside
<1>6. OpenWhileReading'
  BY <1>1, <1>2, <1>3 DEF OpenWhileReading, Results
<1>7. Output'
  <2>1. ASSUME phase' = "elided" PROVE dst' = Already
    <3>1. phase = "elided"
      BY <1>1, <2>1
    <3>2. d # 0
      BY <3>1, BottomUses
    <3> QED
      BY <1>1, <3>1, <3>2, Parts
  <2> QED
    BY <1>1, <1>2, <2>1, Parts DEF Output
<1> QED
  BY <1>1, <1>4, <1>5, <1>6, <1>7 DEF WriterInv

\* A scalar.
LEMMA WriteWordStep == WriterInv /\ WriteWord => WriterInv'
<1> SUFFICES ASSUME WriterInv, WriteWord PROVE WriterInv'
  OBVIOUS
<1> DEFINE text == << <<"word", src[pos]>> >>
<1>1. /\ Reading /\ ValueDue /\ pos <= Len(src) /\ src[pos] \in Scanned
      /\ Deliver(stack, Target, text, pos + 1)
      /\ src' = src /\ limit' = limit /\ nesting' = nesting /\ depth' = depth
      /\ tables' = tables
  BY DEF WriteWord, IsWord
<1>2. text \in Seq(Token)
  BY <1>1, Tokens
<1> HIDE DEF text
<1>3. pos + 1 \in 1..(Len(src) + 1)
  BY <1>1, Parts
<1>4. Deliver(stack, depth, text, pos + 1)
  BY <1>1, TargetInnermost
<1>5. stack # << >> /\ stack[Len(stack)].kind # "array" => stack[Len(stack)].key # NoKey
  BY <1>1 DEF ValueDue, InArray, InObject, Top
<1>6. /\ \A i \in 1..Len(stack) : stack[i].kind = "elided" => i = 1
      /\ phase = "elided" => stack # << >> /\ stack[1].kind = "elided"
  BY DEF WriterInv, ElidedOutside
<1>7. nesting = Len(stack)
  BY <1>1 DEF WriterInv, OpenWhileReading, Reading, Results
<1>8. /\ stack \in Seq(Frame) /\ depth \in 0..Len(scratch) /\ Shaped(stack, depth)
      /\ Held(stack, scratch) /\ Waiting(stack) /\ tables = depth
  BY Parts
<1> QED
  BY <1>1, <1>2, <1>3, <1>4, <1>5, <1>6, <1>7, <1>8, DeliverStep

\* The end of an array.
LEMMA CloseArrayStep == WriterInv /\ CloseArray => WriterInv'
<1> SUFFICES ASSUME WriterInv, CloseArray PROVE WriterInv'
  OBVIOUS
<1>1. /\ Reading /\ stack # << >> /\ Top.kind = "array" /\ pos <= Len(src)
      /\ Deliver(Outer, Top.out, Punct("]"), pos + 1)
      /\ src' = src /\ limit' = limit /\ nesting' = nesting - 1 /\ depth' = depth
      /\ tables' = tables
  BY DEF CloseArray, InArray, Starts
<1>2. Popped(Outer, depth) /\ Top.out = depth
  BY <1>1, OuterKept
<1>3. Punct("]") \in Seq(Token)
  BY Tokens DEF Close
<1>4. pos + 1 \in 1..(Len(src) + 1)
  BY <1>1, Parts
<1>5. nesting' = Len(Outer)
  <2>1. nesting = Len(stack)
    BY <1>1 DEF WriterInv, OpenWhileReading, Reading, Results
  <2> QED
    BY <1>1, <1>2, <2>1 DEF Popped
<1>6. phase = "elided" => Outer # << >> /\ Outer[1].kind = "elided"
  BY <1>1, <1>2 DEF Popped
<1>7. Deliver(Outer, depth, Punct("]"), pos + 1) /\ tables' = depth
  BY <1>1, <1>2, Parts
<1> QED
  BY <1>1, <1>2, <1>3, <1>4, <1>5, <1>6, <1>7, DeliverStep DEF Popped

\* The text of the innermost object.
LEMMA TopText ==
  ASSUME WriterInv, stack # << >>, Top.kind # "array"
  PROVE  ObjectText(Top.members, scratch[Top.own]) \in Seq(Token)
<1>1. Top \in Frame /\ Top.own \in 1..Len(scratch)
  BY OuterKept
<1>2. scratch[Top.own] \in Seq(Token) /\ Top.members \in Seq(Member)
  BY <1>1, Parts, FrameFields
<1>3. Spans(Top, Len(scratch[Top.own]))
  <2>1. Len(stack) \in 1..Len(stack)
    BY Parts, EmptySeq
  <2> QED
    BY <2>1, Parts DEF Held, Top
<1> QED
  BY <1>2, <1>3, ObjectTextType DEF Spans

\* The end of an object.
LEMMA CloseObjectStep == WriterInv /\ CloseObject => WriterInv'
<1> SUFFICES ASSUME WriterInv, CloseObject PROVE WriterInv'
  OBVIOUS
<1> DEFINE text == ObjectText(Top.members, scratch[Top.own])
           e == depth - 1
<1>1. /\ Reading /\ stack # << >> /\ Top.kind = "object" /\ pos <= Len(src)
      /\ Deliver(Outer, Top.out, text, pos + 1)
      /\ src' = src /\ limit' = limit /\ nesting' = nesting - 1 /\ depth' = e
      /\ tables' = tables - 1
  BY DEF CloseObject, InObject, Starts
<1>2. text \in Seq(Token)
  BY <1>1, TopText
<1>3. Popped(Outer, e) /\ Top.out = e
  <2>1. Top.kind # "array"
    BY <1>1
  <2> QED
    BY <1>1, <2>1, OuterKept
<1>4. pos + 1 \in 1..(Len(src) + 1)
  <2>1. pos \in Nat /\ Len(src) \in Nat /\ pos <= Len(src)
    BY <1>1, Parts
  <2> QED
    BY <2>1
<1>5. nesting' = Len(Outer)
  <2>1. nesting = Len(stack)
    BY <1>1 DEF WriterInv, OpenWhileReading, Reading, Results
  <2> QED
    BY <1>1, <1>3, <2>1 DEF Popped
<1>6. phase = "elided" => Outer # << >> /\ Outer[1].kind = "elided"
  BY <1>1, <1>3 DEF Popped
<1>7. tables' = e
  BY <1>1, Parts
<1> HIDE DEF text, e
<1>8. Deliver(Outer, e, text, pos + 1)
  BY <1>1, <1>3
<1> QED
  BY <1>1, <1>2, <1>3, <1>4, <1>5, <1>6, <1>7, <1>8, DeliverStep DEF Popped

\* The next buffer is empty, and those in use are left alone.
LEMMA NextBuffer ==
  ASSUME scratch \in Seq(Seq(Token)), depth \in Nat, depth \in 0..Len(scratch)
  PROVE  /\ NextScratch \in Seq(Seq(Token))
         /\ depth + 1 \in 1..Len(NextScratch)
         /\ NextScratch[depth + 1] = << >>
         /\ \A b \in 1..depth : NextScratch[b] = scratch[b]
<1> DEFINE n == Len(scratch)
<1>1. n \in Nat /\ << >> \in Seq(Token) /\ depth <= n
  BY EmptySeq
<1>2. CASE depth = n
  <2>1. NextScratch = Append(scratch, << >>)
    BY <1>2 DEF NextScratch
  <2>2. /\ Append(scratch, << >>) \in Seq(Seq(Token))
        /\ Len(Append(scratch, << >>)) = n + 1
        /\ Append(scratch, << >>)[n + 1] = << >>
        /\ \A b \in 1..n : Append(scratch, << >>)[b] = scratch[b]
    BY <1>1
  <2> QED
    BY <1>1, <1>2, <2>1, <2>2
<1>3. CASE depth # n
  <2>1. NextScratch = [scratch EXCEPT ![depth + 1] = << >>]
    BY <1>3 DEF NextScratch
  <2>2. depth + 1 \in 1..n /\ \A b \in 1..depth : b \in 1..n /\ b # depth + 1
    <3> HIDE DEF n
    <3> QED
      BY <1>1, <1>3
  <2>3. /\ NextScratch \in Seq(Seq(Token)) /\ Len(NextScratch) = n
        /\ \A b \in 1..n : NextScratch[b] = IF b = depth + 1 THEN << >> ELSE scratch[b]
    BY <1>1, <2>1, <2>2, ExceptSeq
  <2> QED
    BY <2>2, <2>3
<1> QED
  BY <1>2, <1>3

\* Opening a container over buffers that hold at least what they held.
LEMMA Pushed ==
  ASSUME WriterInv, NEW f \in Frame, f.out = depth,
         NEW buffers,
         \A b \in 1..depth : /\ Len(buffers[b]) \in Nat
                             /\ Len(scratch[b]) <= Len(buffers[b]),
         f.kind # "array" =>
           f.own = depth + 1 /\ Spans(f, Len(buffers[depth + 1])),
         stack # << >> /\ Top.kind # "array" => Top.key # NoKey
  PROVE  LET t == Append(stack, f)
         IN  /\ t \in Seq(Frame) /\ Len(t) = Len(stack) + 1
             /\ t[Len(stack) + 1] = f /\ \A i \in 1..Len(stack) : t[i] = stack[i]
             /\ Shaped(t, IF f.kind = "array" THEN depth ELSE depth + 1)
             /\ Held(t, buffers) /\ Waiting(t)
<1> DEFINE t == Append(stack, f)
           n == Len(stack)
<1>1. n \in Nat /\ stack \in Seq(Frame) /\ depth \in 0..Len(scratch)
  BY Parts
<1>2. t \in Seq(Frame) /\ Len(t) = n + 1 /\ t[n + 1] = f /\ \A i \in 1..n : t[i] = stack[i]
  BY <1>1
<1>3. Shaped(t, IF f.kind = "array" THEN depth ELSE depth + 1)
  BY <1>1, ShapePushed, Parts
<1>4. Held(stack, buffers)
  <2>1. ASSUME NEW b \in 1..depth PROVE Len(scratch[b]) \in Nat
    <3>1. b \in 1..Len(scratch)
      BY Parts
    <3>2. scratch[b] \in Seq(Token)
      BY <3>1, Parts, ElementOfSeq
    <3> QED
      BY <3>2
  <2> QED
    BY <2>1, Parts, HeldByLonger
<1> HIDE DEF t
<1>5. Held(t, buffers)
  <2> SUFFICES ASSUME NEW i \in 1..Len(t), t[i].kind # "array"
               PROVE  Spans(t[i], Len(buffers[t[i].own]))
    BY DEF Held
  <2>1. CASE i = n + 1
    <3>1. t[i] = f
      BY <1>2, <2>1
    <3> QED
      BY <3>1
  <2>2. CASE i # n + 1
    <3>1. i \in 1..n
      BY <1>1, <1>2, <2>2
    <3> QED
      BY <1>2, <1>4, <3>1 DEF Held
  <2> QED
    BY <2>1, <2>2
<1>6. Waiting(t)
  <2> SUFFICES ASSUME NEW i \in 1..(Len(t) - 1), t[i].kind # "array"
               PROVE  t[i].key # NoKey
    BY DEF Waiting
  <2>1. i \in 1..n /\ t[i] = stack[i] /\ i \in Nat /\ i <= n /\ n # 0
    BY <1>1, <1>2
  <2>2. CASE i = n
    <3>1. stack # << >>
      BY <2>1
    <3> QED
      BY <2>1, <2>2, <3>1 DEF Top
  <2>3. CASE i # n
    <3>1. i \in 1..(n - 1)
      <4> HIDE DEF n
      <4> QED
        BY <1>1, <2>1, <2>3
    <3> QED
      BY <2>1, <3>1, Parts DEF Waiting
  <2> QED
    BY <2>2, <2>3
<1> QED
  BY <1>2, <1>3, <1>5, <1>6 DEF t

\* A value is due in an array, or in an object whose key waits.
LEMMA DueWaits ==
  ASSUME ValueDue, stack # << >>, Top.kind # "array"
  PROVE  Top.key # NoKey
  BY DEF ValueDue, InArray, InObject

\* An opening bracket pushes a container, whose kind is not the one of the text
\* without braces.
LEMMA OpenStep ==
  ASSUME WriterInv, Reading, ValueDue, NEW f \in Frame, f.out = depth,
         f.kind # "elided",
         stack' = Append(stack, f), nesting' = nesting + 1, phase' = phase,
         src' = src, limit' = limit, pos <= Len(src), pos' = pos + 1,
         depth' = (IF f.kind = "array" THEN depth ELSE depth + 1), tables' = depth',
         scratch' \in Seq(Seq(Token)), depth' \in 0..Len(scratch'),
         \A b \in 1..depth : Len(scratch[b]) <= Len(scratch'[b]),
         f.kind # "array" => f.own = depth + 1 /\ Spans(f, Len(scratch'[depth + 1])),
         dst' \in Seq(Token), dst' # << >>, dst'[1] = dst[1], depth # 0 => dst' = dst
  PROVE  WriterInv'
<1>1. \A b \in 1..depth : Len(scratch'[b]) \in Nat
  <2> TAKE b \in 1..depth
  <2>1. Len(scratch') \in Nat /\ depth \in Nat
    BY Parts
  <2>2. b \in 1..Len(scratch')
    BY <2>1
  <2>3. scratch'[b] \in Seq(Token)
    BY <2>2, ElementOfSeq
  <2> QED
    BY <2>3
<1>2. /\ stack' \in Seq(Frame) /\ Len(stack') = Len(stack) + 1
      /\ stack'[Len(stack) + 1] = f /\ \A i \in 1..Len(stack) : stack'[i] = stack[i]
      /\ Shaped(stack', depth') /\ Held(stack', scratch') /\ Waiting(stack')
  BY <1>1, Pushed, DueWaits
<1>3. phase \in {"value", "elided"}
  BY DEF Reading
<1>4. Len(stack) \in Nat
  BY Parts
<1>5. TypeOK'
  <2>1. pos' \in 1..(Len(src') + 1) /\ nesting' \in Nat
    <3>1. pos \in Nat /\ pos >= 1 /\ Len(src) \in Nat /\ nesting \in Nat
      BY Parts
    <3>2. pos + 1 \in 1..(Len(src) + 1)
      BY <3>1, OneFurther, Zenon
    <3>3. nesting + 1 \in Nat
      BY <3>1
    <3> QED
      BY <3>2, <3>3, Zenon
  <2>2. Len(scratch') \in Nat
    OBVIOUS
  <2>3. depth' \in 0..Len(scratch') /\ tables' \in Nat
    BY <2>2
  <2>4. src' \in Seq(Lexeme) /\ limit' \in Nat
    BY Parts
  <2>5. phase' \in {"start", "elided", "value", "end", "syntax", "deep"} \cup Results
    BY <1>3
  <2> QED
    BY <1>2, <2>1, <2>3, <2>4, <2>5 DEF TypeOK
<1>6. ElidedOutside'
  <2>1. ASSUME NEW i \in 1..Len(stack'), stack'[i].kind = "elided" PROVE i = 1
    <3>1. i # Len(stack) + 1
      BY <1>2, <2>1
    <3>2. i \in 1..Len(stack)
      BY <1>2, <1>4, <3>1
    <3> QED
      BY <1>2, <2>1, <3>2 DEF WriterInv, ElidedOutside
  <2>2. ASSUME phase' = "elided" PROVE stack' # << >> /\ stack'[1].kind = "elided"
    <3>1. stack # << >> /\ stack[1].kind = "elided"
      BY <2>2 DEF WriterInv, ElidedOutside
    <3>2. 1 \in 1..Len(stack)
      BY <1>4, <3>1, Parts, EmptySeq
    <3>3. stack' # << >>
      <4>1. Len(stack') # 0
        BY <1>2, <1>4
      <4>2. Len(<< >>) = 0
        OBVIOUS
      <4> QED
        BY <4>1, <4>2, Zenon
    <3> QED
      BY <1>2, <3>1, <3>2, <3>3
  <2> QED
    BY <2>1, <2>2 DEF ElidedOutside
<1>7. OpenWhileReading'
  BY <1>2, <1>3 DEF WriterInv, OpenWhileReading, Results
<1>8. Output'
  <2>1. ASSUME phase' = "elided" PROVE dst' = Already
    <3>1. stack # << >> /\ stack[1].kind = "elided"
      BY <2>1 DEF WriterInv, ElidedOutside
    <3>2. depth # 0
      BY <3>1, Parts, BottomUses
    <3> QED
      BY <2>1, <3>2, Parts
  <2> QED
    BY <1>3, <2>1, Parts DEF Output
<1> QED
  BY <1>2, <1>5, <1>6, <1>7, <1>8 DEF WriterInv

\* An object opens.
LEMMA OpenObjectStep == WriterInv /\ OpenObject => WriterInv'
<1> SUFFICES ASSUME WriterInv, OpenObject PROVE WriterInv'
  OBVIOUS
<1> DEFINE f == ObjectFrame("object", Target)
<1>1. /\ Reading /\ ValueDue /\ pos <= Len(src) /\ pos' = pos + 1
      /\ scratch' = NextScratch /\ depth' = depth + 1 /\ tables' = tables + 1
      /\ nesting' = nesting + 1 /\ stack' = Append(stack, f)
      /\ src' = src /\ limit' = limit /\ dst' = dst /\ phase' = phase
  BY DEF OpenObject, Starts
<1>2. f = [kind |-> "object", out |-> depth, own |-> depth + 1, members |-> << >>,
           key |-> NoKey, from |-> 0]
  BY TargetInnermost DEF ObjectFrame
<1> HIDE DEF f
<1>3. f \in Frame
  <2>1. << >> \in Seq(Member) /\ depth + 1 \in Nat /\ depth \in Nat
    BY Parts, EmptySeq
  <2> QED
    BY <1>2, <2>1 DEF Frame
<1>4. /\ scratch' \in Seq(Seq(Token))
      /\ depth + 1 \in 1..Len(scratch')
      /\ scratch'[depth + 1] = << >>
      /\ \A b \in 1..depth : scratch'[b] = scratch[b]
  BY <1>1, Parts, NextBuffer
<1>5. Spans(f, Len(scratch'[depth + 1]))
  <2>1. f.from = 0 /\ f.members = << >> /\ Len(scratch'[depth + 1]) = 0
    BY <1>2, <1>4
  <2>2. 1..Len(f.members) = {}
    BY <2>1
  <2> QED
    BY <2>1, <2>2 DEF Spans
<1>6. \A b \in 1..depth : Len(scratch[b]) <= Len(scratch'[b])
  <2> TAKE b \in 1..depth
  <2>1. b \in 1..Len(scratch)
    BY Parts
  <2>2. scratch[b] \in Seq(Token)
    BY <2>1, Parts, ElementOfSeq
  <2>3. Len(scratch[b]) \in Nat
    BY <2>2
  <2> QED
    BY <1>4, <2>3
<1>7. depth' \in 0..Len(scratch') /\ tables' = depth'
  BY <1>1, <1>4, Parts
<1>8. f.kind = "object" /\ f.out = depth /\ f.own = depth + 1
  BY <1>2
<1> QED
  BY <1>1, <1>3, <1>4, <1>5, <1>6, <1>7, <1>8, Parts, OpenStep

\* An array opens.
LEMMA OpenArrayStep == WriterInv /\ OpenArray => WriterInv'
<1> SUFFICES ASSUME WriterInv, OpenArray PROVE WriterInv'
  OBVIOUS
<1> DEFINE f == [kind |-> "array", out |-> Target]
           text == IF pos = Len(src) THEN << >> ELSE Punct("[")
<1>1. /\ Reading /\ ValueDue /\ pos <= Len(src) /\ pos' = pos + 1
      /\ Write(Target, text) /\ depth' = depth /\ tables' = tables
      /\ nesting' = nesting + 1 /\ stack' = Append(stack, f)
      /\ src' = src /\ limit' = limit /\ phase' = phase
  BY DEF OpenArray, Starts
<1>2. f \in Frame /\ f.kind = "array" /\ f.out = depth
  BY TargetInnermost, Parts DEF Frame
<1>3. text \in Seq(Token)
  BY Tokens DEF Open
<1> HIDE DEF f, text
<1>4. Write(depth, text)
  BY <1>1, TargetInnermost
<1>5. /\ dst' \in Seq(Token) /\ dst' # << >> /\ dst'[1] = dst[1]
      /\ depth # 0 => dst' = dst
      /\ scratch' \in Seq(Seq(Token)) /\ Len(scratch') = Len(scratch)
      /\ \A i \in 1..Len(scratch) : Len(scratch[i]) <= Len(scratch'[i])
  BY <1>3, <1>4, Parts, Written
<1>6. \A b \in 1..depth : Len(scratch[b]) <= Len(scratch'[b])
  <2> TAKE b \in 1..depth
  <2>1. b \in 1..Len(scratch)
    BY Parts
  <2> QED
    BY <1>5, <2>1
<1>7. depth' \in 0..Len(scratch') /\ tables' = depth'
  BY <1>1, <1>5, Parts
<1> QED
  BY <1>1, <1>2, <1>5, <1>6, <1>7, OpenStep

\* What a key changes.
LEMMA KeyRead ==
  ASSUME WriterInv, ReadKey
  PROVE  LET n == Len(stack)
         IN  /\ stack' \in Seq(Frame) /\ Len(stack') = n
             /\ \A i \in 1..n : i # n => stack'[i] = stack[i]
             /\ stack'[n].kind = Top.kind /\ stack'[n].out = Top.out
             /\ stack'[n].own = depth /\ stack'[n].members = Top.members
             /\ stack'[n].key = src[pos] /\ stack'[n].from = Len(scratch[depth])
             /\ Top.own = depth /\ depth # 0 /\ Top.kind # "array"
<1> DEFINE n == Len(stack)
           held == Len(scratch[depth])
           f == [kind |-> Top.kind, out |-> Top.out, own |-> Top.own,
                 members |-> Top.members, key |-> src[pos], from |-> held]
<1>1. /\ Reading /\ stack # << >> /\ Top.kind # "array" /\ src[pos] \in Scanned
      /\ stack' = [stack EXCEPT ![n].key = src[pos], ![n].from = Len(Bytes(Top.own))]
  BY DEF ReadKey, InObject, IsWord
<1>2. n \in Nat /\ n \in 1..n /\ stack \in Seq(Frame)
  BY <1>1, Parts, EmptySeq
<1>3. Top \in Frame /\ Top.own = depth /\ depth \in 1..Len(scratch)
  BY <1>1, OuterKept
<1>4. held \in Nat
  <2>1. scratch[depth] \in Seq(Token)
    BY <1>3, Parts, ElementOfSeq
  <2> QED
    BY <2>1
<1>5. Len(Bytes(Top.own)) = held
  BY <1>3 DEF Bytes
<1>6. /\ Top.kind \in {"object", "elided"} /\ Top.out \in Nat /\ Top.own \in Nat
      /\ Top.members \in Seq(Member)
      /\ Top = [kind |-> Top.kind, out |-> Top.out, own |-> Top.own,
                members |-> Top.members, key |-> Top.key, from |-> Top.from]
  BY <1>1, <1>3, FrameFields
<1>7. stack' = [stack EXCEPT ![n] = f]
  <2> DEFINE g == [Top EXCEPT !.key = src[pos]]
             h == [g EXCEPT !.from = held]
  <2>1. g = [kind |-> Top.kind, out |-> Top.out, own |-> Top.own,
             members |-> Top.members, key |-> src[pos], from |-> Top.from]
    BY <1>6
  <2> HIDE DEF g
  <2>2. h = f
    BY <2>1
  <2> HIDE DEF f, held
  <2>3. [stack EXCEPT ![n].key = src[pos], ![n].from = held] = [stack EXCEPT ![n] = h]
    BY <1>2 DEF g, Top
  <2> QED
    BY <1>1, <1>5, <2>2, <2>3
<1> HIDE DEF n
<1>8. f \in Frame
  BY <1>1, <1>4, <1>6 DEF Frame
<1>9. f.kind = Top.kind /\ f.out = Top.out /\ f.own = depth /\ f.key = src[pos]
      /\ f.from = held /\ f.members = Top.members
  BY <1>3
<1> HIDE DEF f
<1>10. /\ stack' \in Seq(Frame) /\ Len(stack') = n
       /\ \A i \in 1..n : stack'[i] = IF i = n THEN f ELSE stack[i]
  BY <1>2, <1>7, <1>8, ExceptSeq DEF n
<1>11. depth # 0
  BY <1>3, Parts
<1> QED
  BY <1>1, <1>2, <1>3, <1>9, <1>10, <1>11 DEF n

\* A key is read into the innermost object.
LEMMA ReadKeyStep == WriterInv /\ ReadKey => WriterInv'
<1> SUFFICES ASSUME WriterInv, ReadKey PROVE WriterInv'
  OBVIOUS
<1> DEFINE n == Len(stack)
           held == Len(scratch[depth])
           f == stack'[n]
<1>1. /\ Reading /\ stack # << >> /\ Top.kind # "array" /\ Top.key = NoKey
      /\ pos <= Len(src) /\ src[pos] \in Scanned /\ pos' = pos + 1
      /\ src' = src /\ limit' = limit /\ nesting' = nesting /\ dst' = dst
      /\ scratch' = scratch /\ depth' = depth /\ tables' = tables /\ phase' = phase
  BY DEF ReadKey, InObject, IsWord
<1>2. n \in Nat /\ n \in 1..n /\ stack \in Seq(Frame)
  BY <1>1, Parts, EmptySeq
<1>3. Top \in Frame /\ Top.own = depth /\ depth \in 1..Len(scratch)
  BY <1>1, OuterKept
<1>4. held \in Nat
  <2>1. scratch[depth] \in Seq(Token)
    BY <1>3, Parts, ElementOfSeq
  <2> QED
    BY <2>1
<1> HIDE DEF held
<1>9. /\ stack' \in Seq(Frame) /\ Len(stack') = n
      /\ \A i \in 1..n : i # n => stack'[i] = stack[i]
      /\ f.kind = Top.kind /\ f.out = Top.out /\ f.own = depth /\ f.from = held
      /\ f.members = Top.members
  BY KeyRead DEF held
<1> HIDE DEF f
<1>10. /\ stack' \in Seq(Frame) /\ Len(stack') = n
       /\ \A i \in 1..n : stack'[i] = IF i = n THEN f ELSE stack[i]
  BY <1>9 DEF f
<1> HIDE DEF n
<1>11. \A i \in 1..n : stack'[i].kind = stack[i].kind /\ stack'[i].out = stack[i].out
                        /\ (stack[i].kind # "array" => stack'[i].own = stack[i].own)
  BY <1>3, <1>9, <1>10 DEF Top, n
<1>12. Shaped(stack', depth)
  BY <1>10, <1>11, Parts, ShapeKept DEF n
<1>13. Held(stack', scratch)
  <2> SUFFICES ASSUME NEW i \in 1..Len(stack'), stack'[i].kind # "array"
               PROVE  Spans(stack'[i], Len(scratch[stack'[i].own]))
    BY DEF Held
  <2>1. CASE i = n
    <3>1. stack'[i] = f
      BY <1>10, <2>1
    <3>2. Spans(Top, held)
      BY <1>1, <1>2, <1>3, Parts DEF Held, Top, n, held
    <3>3. held <= held
      BY <1>4
    <3>4. Spans(f, held)
      BY <1>9, <3>2, <3>3 DEF Spans
    <3> QED
      BY <1>9, <3>1, <3>4 DEF held
  <2>2. CASE i # n
    <3>1. stack'[i] = stack[i] /\ i \in 1..Len(stack)
      BY <1>10, <2>2 DEF n
    <3> QED
      BY <3>1, Parts DEF Held
  <2> QED
    BY <2>1, <2>2
<1>14. Waiting(stack')
  <2>1. \A i \in 1..(n - 1) : stack'[i] = stack[i]
    <3>1. \A i \in 1..(n - 1) : i \in 1..n /\ i # n
      BY <1>2
    <3> QED
      BY <1>10, <3>1
  <2> QED
    BY <1>10, <2>1, Parts DEF Waiting, n
<1>15. TypeOK'
  <2>1. pos' \in 1..(Len(src') + 1)
    BY <1>1, Parts
  <2> QED
    BY <1>1, <1>10, <2>1 DEF WriterInv, TypeOK
<1>16. ElidedOutside'
  <2>1. \A i \in 1..Len(stack') : stack'[i].kind = "elided" => i = 1
    BY <1>10, <1>11 DEF WriterInv, ElidedOutside, n
  <2>2. n # 0 /\ 1 \in 1..n
    BY <1>2
  <2>3. stack' # << >>
    <3>1. Len(<< >>) = 0
      OBVIOUS
    <3> QED
      BY <1>10, <2>2, <3>1, Zenon
  <2> QED
    BY <1>1, <1>11, <2>1, <2>2, <2>3 DEF WriterInv, ElidedOutside
<1>17. OpenWhileReading'
  <2>1. phase \in {"elided", "value"} /\ nesting = Len(stack)
    BY <1>1 DEF WriterInv, OpenWhileReading, Results, Reading
  <2> QED
    BY <1>1, <1>10, <2>1 DEF OpenWhileReading, n
<1>18. Output'
  BY <1>1 DEF WriterInv, Output
<1> QED
  BY <1>1, <1>12, <1>13, <1>14, <1>15, <1>16, <1>17, <1>18, Parts DEF WriterInv

\* With no container open everything about the stack is as it should be.
LEMMA EmptyStack ==
  ASSUME NEW buffers
  PROVE  Shaped(<< >>, 0) /\ Held(<< >>, buffers) /\ Waiting(<< >>) /\ << >> \in Seq(Frame)
<1>1. Len(<< >>) = 0 /\ 1..0 = {} /\ 1..(0 - 1) = {}
  OBVIOUS
<1>2. Held(<< >>, buffers)
  BY <1>1 DEF Held
<1>3. Waiting(<< >>)
  BY <1>1 DEF Waiting
<1> QED
  BY <1>2, <1>3, ShapeEmpty, EmptySeq

\* An empty stack uses no buffer, and a stack with one container one at most.
LEMMA NoneInUse ==
  ASSUME WriterInv
  PROVE  stack = << >> => depth = 0
  BY Parts, ShapeEmpty

\* The object without braces is alone when it is the innermost container.
LEMMA ElidedAlone ==
  ASSUME WriterInv, stack # << >>, Top.kind = "elided"
  PROVE  Len(stack) = 1 /\ depth = 1 /\ Top.own = 1 /\ 1 \in 1..Len(scratch)
<1>1. Len(stack) \in Nat /\ Len(stack) \in 1..Len(stack)
  BY Parts, EmptySeq
<1>2. Len(stack) = 1
  BY <1>1 DEF WriterInv, ElidedOutside, Top
<1>3. Popped(Outer, depth - 1) /\ Top.own = depth /\ depth \in 1..Len(scratch)
  BY OuterKept
<1>4. Outer = << >>
  BY <1>2, <1>3, EmptySeq DEF Popped
<1>5. depth - 1 = 0
  BY <1>3, <1>4, ShapeEmpty DEF Popped
<1>6. depth = 1
  BY <1>5, Parts
<1> QED
  BY <1>2, <1>3, <1>6

\* A step after which no container is open.
LEMMA ClosedStep ==
  ASSUME WriterInv, stack' = << >>, depth' = 0, tables' = 0,
         src' = src, limit' = limit, pos' \in 1..(Len(src) + 1),
         scratch' \in Seq(Seq(Token)),
         dst' \in Seq(Token), dst' # << >>, dst'[1] = <<"already">>,
         nesting' \in Nat, phase' \in {"value", "end"} \cup Results,
         phase' \notin Results => nesting' = 0
  PROVE  WriterInv'
<1>1. phase' \notin {"start", "elided"}
  BY DEF Results
<1>2. Len(scratch') \in Nat /\ Len(<< >>) = 0 /\ 1..0 = {}
  OBVIOUS
<1>3. Shaped(stack', depth') /\ Held(stack', scratch') /\ Waiting(stack')
      /\ stack' \in Seq(Frame)
  BY EmptyStack
<1>4. TypeOK'
  BY <1>2, <1>3, Parts DEF TypeOK
<1>5. ElidedOutside'
  BY <1>1, <1>2 DEF ElidedOutside
<1>6. OpenWhileReading'
  BY <1>2 DEF OpenWhileReading
<1>7. Output'
  BY <1>1 DEF Output
<1> QED
  BY <1>3, <1>4, <1>5, <1>6, <1>7 DEF WriterInv

\* The first lexeme decides how the text is read.
LEMMA StartTextStep == WriterInv /\ StartText => WriterInv'
<1> SUFFICES ASSUME WriterInv, StartText PROVE WriterInv'
  OBVIOUS
<1> DEFINE start == SkipCommas(src, 1)
           elided == start <= Len(src) /\ ~Starts(src, start, Open)
           f == ObjectFrame("elided", 0)
<1>1. phase = "start" /\ pos' = start /\ src' = src /\ limit' = limit /\ dst' = dst
      /\ phase' = IF elided THEN "elided" ELSE "value"
  BY DEF StartText
<1>2. IF elided
      THEN /\ nesting' = 1 /\ stack' = << f >> /\ scratch' = NextScratch
           /\ depth' = depth + 1 /\ tables' = tables + 1
      ELSE UNCHANGED <<nesting, stack, scratch, depth, tables>>
  BY DEF StartText
<1>3. pos' \in 1..(Len(src) + 1)
  <2>1. 1 \in 1..(Len(src) + 1)
    BY Parts
  <2> QED
    BY <1>1, <2>1, Parts, SkipFrom
<1> HIDE DEF elided, start
<1>4. stack = << >> /\ depth = 0 /\ tables = 0 /\ nesting = 0
  <2>1. stack = << >> /\ nesting = Len(stack)
    BY <1>1 DEF WriterInv, OpenWhileReading, Results
  <2> QED
    BY <2>1, NoneInUse, Parts
<1>5. dst \in Seq(Token) /\ dst # << >> /\ dst[1] = <<"already">>
      /\ scratch \in Seq(Seq(Token))
  BY Parts
<1>6. CASE ~elided
  BY <1>1, <1>2, <1>3, <1>4, <1>5, <1>6, ClosedStep
<1>7. CASE elided
  <2>1. f = [kind |-> "elided", out |-> 0, own |-> 1, members |-> << >>,
             key |-> NoKey, from |-> 0]
    BY <1>4 DEF ObjectFrame
  <2>2. nesting' = 1 /\ stack' = << f >> /\ scratch' = NextScratch
        /\ depth' = 1 /\ tables' = 1 /\ phase' = "elided"
    BY <1>1, <1>2, <1>4, <1>7
  <2> HIDE DEF f
  <2>3. f \in Frame /\ f.kind = "elided" /\ f.out = depth /\ f.own = depth + 1
    <3>1. << >> \in Seq(Member)
      BY EmptySeq
    <3> QED
      BY <1>4, <2>1, <3>1 DEF Frame
  <2>4. scratch' \in Seq(Seq(Token)) /\ 1 \in 1..Len(scratch') /\ scratch'[1] = << >>
    BY <1>4, <2>2, Parts, NextBuffer
  <2>5. Spans(f, Len(scratch'[depth + 1]))
    <3>1. f.from = 0 /\ f.members = << >> /\ Len(scratch'[depth + 1]) = 0
      BY <1>4, <2>1, <2>4
    <3>2. 1..Len(f.members) = {}
      BY <3>1
    <3> QED
      BY <3>1, <3>2 DEF Spans
  <2>6. 1..depth = {}
    BY <1>4
  <2>7. stack' = Append(stack, f)
    BY <1>4, <2>2
  <2>8. /\ stack' \in Seq(Frame) /\ Len(stack') = Len(stack) + 1
        /\ stack'[Len(stack) + 1] = f
        /\ Shaped(stack', IF f.kind = "array" THEN depth ELSE depth + 1)
        /\ Held(stack', scratch') /\ Waiting(stack')
    BY <1>4, <2>3, <2>5, <2>6, <2>7, Pushed
  <2>9. Len(stack) = 0
    BY <1>4
  <2>10. Len(stack') = 1 /\ stack'[1] = f /\ Shaped(stack', depth')
    BY <1>4, <2>2, <2>3, <2>8, <2>9
  <2>11. TypeOK'
    <3>1. depth' \in 0..Len(scratch') /\ nesting' \in Nat /\ tables' \in Nat
      BY <2>2, <2>4
    <3> QED
      BY <1>1, <1>3, <1>5, <2>2, <2>4, <2>8, <3>1, Parts DEF TypeOK
  <2>12. ElidedOutside'
    BY <2>2, <2>3, <2>10 DEF ElidedOutside
  <2>13. OpenWhileReading'
    BY <2>2, <2>10 DEF OpenWhileReading, Results
  <2>14. Output'
    <3>1. dst = Already
      BY <1>1, Parts
    <3> QED
      BY <1>1, <1>5, <3>1 DEF Output
  <2> QED
    BY <2>2, <2>8, <2>10, <2>11, <2>12, <2>13, <2>14 DEF WriterInv
<1> QED
  BY <1>6, <1>7

\* The end of a text without braces.
LEMMA FinishElidedStep == WriterInv /\ FinishElided => WriterInv'
<1> SUFFICES ASSUME WriterInv, FinishElided PROVE WriterInv'
  OBVIOUS
<1> DEFINE text == ObjectText(Top.members, scratch[Top.own])
<1>1. /\ phase = "elided" /\ Len(stack) = 1 /\ Write(0, text) /\ depth' = depth - 1
      /\ tables' = tables - 1 /\ stack' = << >> /\ phase' = "ok"
      /\ src' = src /\ limit' = limit /\ pos' = pos /\ nesting' = nesting
  BY DEF FinishElided
<1>2. stack # << >> /\ Top.kind = "elided"
  BY <1>1 DEF WriterInv, ElidedOutside, Top
<1>3. text \in Seq(Token)
  BY <1>2, TopText
<1> HIDE DEF text
<1>4. 0 \in 0..Len(scratch)
  BY Parts
<1>5. dst' \in Seq(Token) /\ dst' # << >> /\ dst'[1] = dst[1] /\ scratch' \in Seq(Seq(Token))
  BY <1>1, <1>3, <1>4, Parts, Written
<1>6. depth' = 0 /\ tables' = 0
  BY <1>1, <1>2, ElidedAlone, Parts
<1> QED
  BY <1>1, <1>5, <1>6, Parts, ClosedStep DEF Results

\* The value is read, and what follows it decides.
LEMMA FinishValueStep == WriterInv /\ FinishValue => WriterInv'
<1> SUFFICES ASSUME WriterInv, FinishValue PROVE WriterInv'
  OBVIOUS
<1>1. phase = "end" /\ pos' = SkipCommas(src, pos) /\ phase' \in {"ok", "failed syntax"}
      /\ UNCHANGED <<src, limit, stack, nesting, dst, scratch, depth, tables>>
  BY DEF FinishValue
<1>2. stack = << >>
  BY <1>1 DEF WriterInv, OpenWhileReading, Results
<1>3. depth = 0
  BY <1>2, NoneInUse
<1>4. pos' \in 1..(Len(src) + 1)
  BY <1>1, Parts, SkipFrom
<1> QED
  BY <1>1, <1>2, <1>3, <1>4, Parts, ClosedStep DEF Results

\* An error leaves the innermost container.
LEMMA UnwindContainerStep == WriterInv /\ UnwindContainer => WriterInv'
<1> SUFFICES ASSUME WriterInv, UnwindContainer PROVE WriterInv'
  OBVIOUS
<1> DEFINE e == IF Top.kind = "array" THEN depth ELSE depth - 1
<1>1. /\ phase \in {"syntax", "deep"} /\ stack # << >> /\ Top.kind # "elided"
      /\ stack' = Outer /\ nesting' = nesting - 1
      /\ src' = src /\ limit' = limit /\ pos' = pos /\ dst' = dst /\ scratch' = scratch
      /\ phase' = phase
      /\ IF Top.kind = "object" THEN depth' = depth - 1 /\ tables' = tables - 1
                                ELSE depth' = depth /\ tables' = tables
  BY DEF UnwindContainer, Unwinding
<1>2. Popped(Outer, e) /\ Top \in Frame
  BY <1>1, OuterKept
<1>3. Top.kind \in {"object", "array"}
  BY <1>1, <1>2, FrameFields
<1>4. depth' = e /\ tables' = e
  BY <1>1, <1>3, Parts
<1> HIDE DEF e
<1>5. nesting = Len(stack)
  BY <1>1 DEF WriterInv, OpenWhileReading, Results
<1>6. nesting' = Len(Outer) /\ Len(Outer) \in Nat
  BY <1>1, <1>2, <1>5 DEF Popped
<1>7. Shaped(stack', depth') /\ Held(stack', scratch') /\ Waiting(stack') /\ stack' \in Seq(Frame)
  BY <1>1, <1>2, <1>4 DEF Popped
<1>8. TypeOK'
  <2>1. depth' \in 0..Len(scratch') /\ tables' \in Nat
    BY <1>1, <1>2, <1>4 DEF Popped
  <2> QED
    BY <1>1, <1>6, <1>7, <2>1, Parts DEF TypeOK
<1>9. ElidedOutside'
  BY <1>1, <1>2 DEF ElidedOutside, Popped
<1>10. OpenWhileReading'
  BY <1>1, <1>6 DEF OpenWhileReading, Results
<1>11. Output'
  BY <1>1, Parts DEF Output
<1> QED
  BY <1>4, <1>7, <1>8, <1>9, <1>10, <1>11 DEF WriterInv

\* The object without braces failed for its depth.
LEMMA ElidedTooDeepStep == WriterInv /\ ElidedTooDeep => WriterInv'
<1> SUFFICES ASSUME WriterInv, ElidedTooDeep PROVE WriterInv'
  OBVIOUS
<1>1. /\ stack # << >> /\ Top.kind = "elided" /\ stack' = << >>
      /\ depth' = depth - 1 /\ tables' = tables - 1 /\ phase' = "failed deep"
      /\ UNCHANGED <<src, limit, pos, nesting, dst, scratch>>
  BY DEF ElidedTooDeep
<1>2. depth = 1 /\ tables = 1
  BY <1>1, ElidedAlone, Parts
<1>3. depth' = 0 /\ tables' = 0
  <2>1. depth' = depth - 1 /\ tables' = tables - 1
    BY <1>1
  <2> QED
    BY <1>2, <2>1
<1> QED
  BY <1>1, <1>3, Parts, ClosedStep DEF Results

\* It failed otherwise, and what was written is cut off.
LEMMA FallBackStep == WriterInv /\ FallBack => WriterInv'
<1> SUFFICES ASSUME WriterInv, FallBack PROVE WriterInv'
  OBVIOUS
<1>1. /\ stack # << >> /\ Top.kind = "elided" /\ stack' = << >>
      /\ depth' = depth - 1 /\ tables' = tables - 1
      /\ dst' = SubSeq(dst, 1, Len(Already)) /\ pos' = SkipCommas(src, 1)
      /\ nesting' = 0 /\ phase' = "value" /\ src' = src /\ limit' = limit
      /\ scratch' = scratch
  BY DEF FallBack
<1>2. depth' = 0 /\ tables' = 0
  BY <1>1, ElidedAlone, Parts
<1>3. pos' \in 1..(Len(src) + 1)
  <2>1. 1 \in 1..(Len(src) + 1)
    BY Parts
  <2> QED
    BY <1>1, <2>1, Parts, SkipFrom
<1>4. dst' = SubSeq(dst, 1, 1)
  BY <1>1 DEF Already
<1>5. dst[1] \in Token /\ \A i \in 1..1 : i = 1
  BY Parts, EmptySeq
<1>6. dst' \in Seq(Token) /\ Len(dst') = 1 /\ dst'[1] = dst[1]
  <2>1. \A i \in 1..1 : dst[i] \in Token
    BY <1>5
  <2>2. /\ SubSeq(dst, 1, 1) \in Seq(Token)
        /\ Len(SubSeq(dst, 1, 1)) = 1
        /\ SubSeq(dst, 1, 1)[1] = dst[1]
    BY <2>1, SubSeqProperties
  <2> QED
    BY <1>4, <2>2
<1>7. dst' # << >>
  <2>1. Len(<< >>) = 0
    OBVIOUS
  <2>2. Len(dst') # 0
    BY <1>6
  <2> QED
    BY <2>1, <2>2, Zenon
<1> QED
  BY <1>1, <1>2, <1>3, <1>6, <1>7, Parts, ClosedStep

\* The error is the result.
LEMMA GiveUpStep == WriterInv /\ GiveUp => WriterInv'
<1> SUFFICES ASSUME WriterInv, GiveUp PROVE WriterInv'
  OBVIOUS
<1>1. stack = << >> /\ phase' \in {"failed deep", "failed syntax"}
      /\ UNCHANGED <<src, limit, pos, stack, nesting, dst, scratch, depth, tables>>
  BY DEF GiveUp
<1>2. depth = 0
  BY <1>1, NoneInUse
<1> QED
  BY <1>1, <1>2, Parts, ClosedStep DEF Results

-------------------------------------------------------------------------------
\* The state before the call.
LEMMA InitInv == Init => WriterInv
<1> SUFFICES ASSUME Init PROVE WriterInv
  OBVIOUS
<1>1. /\ src \in Texts(MaxText) /\ limit \in 0..MaxLimit /\ pos = 1 /\ stack = << >>
      /\ nesting = 0 /\ dst = Already /\ scratch = << >> /\ depth = 0 /\ tables = 0
      /\ phase = "start"
  BY DEF Init, Unread
<1>2. src \in Seq(Lexeme) /\ Len(src) \in Nat
  <2>1. PICK l \in 0..MaxText : src \in [1..l -> Lexeme]
    BY <1>1 DEF Texts
  <2>2. l \in Nat
    BY <2>1, WriterAssumption
  <2> QED
    BY <2>1, <2>2
<1>3. limit \in Nat
  BY <1>1, WriterAssumption
<1>4. dst \in Seq(Token) /\ dst # << >> /\ dst[1] = <<"already">>
  <2>1. <<"already">> \in Token
    BY DEF Token, Punctuation
  <2> QED
    BY <1>1, <2>1 DEF Already
<1>5. scratch \in Seq(Seq(Token)) /\ Len(scratch) = 0
  BY <1>1, EmptySeq
<1>6. Shaped(stack, depth) /\ Held(stack, scratch) /\ Waiting(stack) /\ stack \in Seq(Frame)
  BY <1>1, EmptyStack
<1>7. TypeOK
  BY <1>1, <1>2, <1>3, <1>4, <1>5, <1>6 DEF TypeOK
<1>8. ElidedOutside /\ OpenWhileReading /\ Output
  <2>1. Len(<< >>) = 0 /\ 1..0 = {}
    OBVIOUS
  <2> QED
    BY <1>1, <1>4, <2>1 DEF ElidedOutside, OpenWhileReading, Output
<1> QED
  BY <1>1, <1>6, <1>7, <1>8 DEF WriterInv

\* Every step keeps the invariant.
LEMMA StepInv == WriterInv /\ [Next]_vars => WriterInv'
<1> SUFFICES ASSUME WriterInv, [Next]_vars PROVE WriterInv'
  OBVIOUS
<1>1. CASE UNCHANGED vars
  BY <1>1 DEF vars, WriterInv, TypeOK, ElidedOutside, OpenWhileReading, Output, Results
<1>2. CASE StartText
  BY <1>2, StartTextStep
<1>3. CASE ReadKey
  BY <1>3, ReadKeyStep
<1>4. CASE BadKey \/ BadValue
  <2>1. Reading /\ Fail("syntax")
    BY <1>4 DEF BadKey, BadValue
  <2> QED
    BY <2>1, FailStep
<1>5. CASE TooDeepValue
  <2>1. Reading /\ Fail("deep")
    BY <1>5 DEF TooDeepValue
  <2> QED
    BY <2>1, FailStep
<1>6. CASE WriteWord
  BY <1>6, WriteWordStep
<1>7. CASE OpenObject
  BY <1>7, OpenObjectStep
<1>8. CASE OpenArray
  BY <1>8, OpenArrayStep
<1>9. CASE CloseArray
  BY <1>9, CloseArrayStep
<1>10. CASE CloseObject
  BY <1>10, CloseObjectStep
<1>11. CASE FinishElided
  BY <1>11, FinishElidedStep
<1>12. CASE FinishValue
  BY <1>12, FinishValueStep
<1>13. CASE UnwindContainer
  BY <1>13, UnwindContainerStep
<1>14. CASE ElidedTooDeep
  BY <1>14, ElidedTooDeepStep
<1>15. CASE FallBack
  BY <1>15, FallBackStep
<1>16. CASE GiveUp
  BY <1>16, GiveUpStep
<1> QED
  BY <1>1, <1>2, <1>3, <1>4, <1>5, <1>6, <1>7, <1>8, <1>9, <1>10, <1>11, <1>12,
     <1>13, <1>14, <1>15, <1>16 DEF Next

\* The invariant says what the run checks.
LEMMA InvUnwinds == WriterInv => UnwindsExactly
<1> SUFFICES ASSUME WriterInv PROVE UnwindsExactly
  OBVIOUS
<1>1. \A n : Objects(n) = ObjectsOf(stack, n)
  BY DEF Objects, ObjectsOf
<1>2. \A n : Cardinality(Objects(n)) = Level(stack, n)
  BY <1>1 DEF Level
<1>3. \A i \in Objects(Len(stack)) : i \in 1..Len(stack) /\ stack[i].kind # "array"
  BY DEF Objects
<1>4. ScratchBalanced
  BY <1>2, <1>3, Parts DEF ScratchBalanced, Shaped
<1>5. WritesOutward
  <2> SUFFICES ASSUME NEW i \in DOMAIN stack, NEW j \in DOMAIN stack, i <= j,
                      stack[j].kind # "array"
               PROVE  stack[i].out < stack[j].own
    BY DEF WritesOutward
  <2>1. i \in 1..Len(stack) /\ j \in 1..Len(stack) /\ Len(stack) \in Nat
    BY Parts
  <2>2. stack[i].out = Level(stack, i - 1) /\ stack[j].own = Level(stack, j)
    BY <2>1, Parts DEF Shaped
  <2>3. i - 1 \in 0..Len(stack) /\ j - 1 \in 0..Len(stack) /\ j \in 0..Len(stack) /\ j > 0
        /\ i - 1 <= j - 1
    BY <2>1
  <2>4. Level(stack, i - 1) <= Level(stack, j - 1)
    BY <2>3, Parts, LevelMonotone
  <2>5. Level(stack, j) = Level(stack, j - 1) + 1 /\ Level(stack, j - 1) \in Nat
        /\ Level(stack, i - 1) \in Nat
    BY <2>3, Parts, LevelStep
  <2> QED
    BY <2>2, <2>4, <2>5
<1>6. NestingCounted
  BY DEF WriterInv, OpenWhileReading, NestingCounted, Reading, Results
<1>7. ElidedLeavesNoTrace
  BY DEF WriterInv, Output, ElidedLeavesNoTrace
<1>8. CallersBytesKept
  <2>1. Len(dst) \in Nat \ {0} /\ dst[1] \in Token
    BY Parts, EmptySeq
  <2>2. /\ SubSeq(dst, 1, 1) \in Seq(Token)
        /\ Len(SubSeq(dst, 1, 1)) = 1
        /\ SubSeq(dst, 1, 1)[1] = <<"already">>
    <3>1. \A i \in 1..1 : dst[i] \in Token
      BY <2>1
    <3> QED
      BY <3>1, Parts, SubSeqProperties
  <2>3. SubSeq(dst, 1, 1) = Already
    <3> <<"already">> \in Token
      BY DEF Token, Punctuation
    <3>1. Already \in Seq(Token) /\ Len(Already) = 1 /\ Already[1] = <<"already">>
      BY DEF Already
    <3>2. \A i \in 1..1 : SubSeq(dst, 1, 1)[i] = Already[i]
      BY <2>2, <3>1
    <3> QED
      BY <2>2, <3>1, <3>2, SeqEqual
  <2>4. Len(Already) = 1
    BY DEF Already
  <2> QED
    BY <2>1, <2>3, <2>4 DEF CallersBytesKept
<1>9. MembersInBuffer
  <2> SUFFICES ASSUME NEW i \in Objects(Len(stack))
               PROVE  LET held == Len(scratch[stack[i].own])
                      IN  /\ stack[i].from <= held
                          /\ \A m \in DOMAIN stack[i].members :
                               /\ stack[i].members[m].start <= stack[i].members[m].end
                               /\ stack[i].members[m].end <= held
    BY DEF MembersInBuffer
  <2>1. Spans(stack[i], Len(scratch[stack[i].own]))
    BY <1>3, Parts DEF Held
  <2>2. stack[i] \in Frame
    BY <1>3, Parts, ElementOfSeq
  <2>3. DOMAIN stack[i].members = 1..Len(stack[i].members)
    BY <1>3, <2>2, FrameFields
  <2> QED
    BY <2>1, <2>3 DEF Spans
<1> QED
  BY <1>4, <1>5, <1>6, <1>7, <1>8, <1>9 DEF UnwindsExactly

\* The invariant of the writer: containers, buffers, tables and members fit.
LEMMA Invariance == Spec => []WriterInv
<1> QED
  BY InitInv, StepInv, PTL DEF Spec

\* The writer's state always has its types; above all a read position stays in
\* the text and every text an object or array writes is made of JSON tokens.
THEOREM WriterTypes == Spec => []TypeOK
<1>1. WriterInv => TypeOK
  BY DEF WriterInv
<1> QED
  BY <1>1, Invariance, PTL

\* Whatever path a call of ToJSONInto takes through errors and through the
\* object without braces, each open object has a buffer and a table of its own,
\* nobody writes to a buffer of an object inside it, members are cut out of what
\* was collected, the nesting is that of the text, and the caller's bytes stay.
THEOREM WriterUnwinds == Spec => []UnwindsExactly
<1> QED
  BY Invariance, InvUnwinds, PTL

-------------------------------------------------------------------------------
\* The runs of texts that start alike start alike.
LEMMA RunsSame ==
  ASSUME NEW T, NEW s \in Seq(Seq(T)), NEW t \in Seq(Seq(T)), NEW u, NEW w,
         Runs(u, s, T), Runs(w, t, T),
         NEW i \in 0..Len(s), i \in 0..Len(t), \A k \in 1..i : s[k] = t[k]
  PROVE  u[i] = w[i]
<1> DEFINE off == {m \in Nat : m \in 0..i /\ u[m] # w[m]}
<1>1. Len(s) \in Nat /\ Len(t) \in Nat /\ i \in Nat
  OBVIOUS
<1>2. off = {}
  <2> SUFFICES ASSUME off # {} PROVE FALSE
    OBVIOUS
  <2>1. PICK m \in off : \A k \in off : m <= k
    <3>1. off \subseteq Nat
      OBVIOUS
    <3> HIDE DEF off
    <3> QED
      BY <3>1, Least
  <2>2. m \in Nat /\ m \in 0..i /\ u[m] # w[m]
    OBVIOUS
  <2>3. m # 0
    BY <2>2 DEF Runs
  <2>4. m - 1 \in Nat /\ m - 1 \in 0..i /\ ~(m <= m - 1) /\ m \in 1..i
        /\ m \in 1..Len(s) /\ m \in 1..Len(t)
    <3> HIDE DEF off
    <3> QED
      BY <1>1, <2>2, <2>3
  <2>5. u[m - 1] = w[m - 1]
    <3>1. m - 1 \notin off
      <4> HIDE DEF off
      <4> QED
        BY <2>1, <2>4
    <3> QED
      BY <2>4, <3>1
  <2>6. u[m] = u[m - 1] \o s[m] /\ w[m] = w[m - 1] \o t[m]
    BY <2>4 DEF Runs
  <2>7. s[m] = t[m]
    BY <2>4
  <2> QED
    BY <2>2, <2>5, <2>6, <2>7
<1>3. i \notin off
  <2> HIDE DEF off
  <2> QED
    BY <1>2
<1>4. i \in 0..i
  BY <1>1
<1> QED
  BY <1>1, <1>3, <1>4

\* A text put behind others is put behind their join.
LEMMA FlattenAppend ==
  ASSUME NEW T, NEW parts \in Seq(Seq(T)), NEW last \in Seq(T)
  PROVE  FlattenSeq(Append(parts, last)) = FlattenSeq(parts) \o last
<1> DEFINE n == Len(parts)
           longer == Append(parts, last)
<1>1. /\ n \in Nat /\ longer \in Seq(Seq(T)) /\ Len(longer) = n + 1
      /\ longer[n + 1] = last /\ \A k \in 1..n : longer[k] = parts[k]
  BY LenProperties, AppendProperties
<1> HIDE DEF longer, n
<1>2. PICK u : Runs(u, parts, T) /\ FlattenSeq(parts) = u[n]
  BY FlattenRuns DEF n
<1>3. PICK w : Runs(w, longer, T) /\ FlattenSeq(longer) = w[n + 1]
  BY <1>1, FlattenRuns
<1>4. n \in 0..Len(parts) /\ n \in 0..Len(longer) /\ n + 1 \in 1..Len(longer) /\ n + 1 - 1 = n
  BY <1>1 DEF n
<1>5. u[n] = w[n]
  BY <1>1, <1>2, <1>3, <1>4, RunsSame
<1>6. w[n + 1] = w[n] \o last
  <2>1. \A i \in 1..Len(longer) : w[i] = w[i - 1] \o longer[i]
    BY <1>3, Zenon DEF Runs
  <2>2. PICK m \in 1..Len(longer) : m = n + 1 /\ m - 1 = n
    BY <1>1, <1>4
  <2>3. w[m] = w[m - 1] \o longer[m]
    BY <2>1
  <2> QED
    BY <1>1, <2>2, <2>3
<1> QED
  BY <1>2, <1>3, <1>5, <1>6 DEF longer

\* The comma that is due before a further text.
Comma(texts) == IF texts = << >> THEN << >> ELSE Punct(",")

\* Separated texts are a text, and so they are with a further one.
LEMMA SeparatedAppend ==
  ASSUME NEW texts \in Seq(Seq(Token))
  PROVE  /\ Separated(texts) \in Seq(Token)
         /\ Separated(<< >>) = << >>
         /\ \A t \in Seq(Token) :
              Separated(Append(texts, t)) = Separated(texts) \o (Comma(texts) \o t)
<1> DEFINE comma(i) == IF i > 1 THEN Punct(",") ELSE << >>
           parts(s) == [i \in DOMAIN s |-> comma(i) \o s[i]]
<1>1. \A i : comma(i) \in Seq(Token)
  BY Tokens
<1>2. ASSUME NEW s \in Seq(Seq(Token))
      PROVE  parts(s) \in Seq(Seq(Token)) /\ Len(parts(s)) = Len(s)
             /\ \A i \in 1..Len(s) : parts(s)[i] = comma(i) \o s[i]
  <2> HIDE DEF comma
  <2>1. DOMAIN s = 1..Len(s) /\ Len(s) \in Nat /\ \A i \in 1..Len(s) : s[i] \in Seq(Token)
    OBVIOUS
  <2>2. \A i \in 1..Len(s) : comma(i) \o s[i] \in Seq(Token)
    BY <1>1, <2>1, ConcatProperties
  <2>3. parts(s) \in [1..Len(s) -> Seq(Token)]
    BY <2>1, <2>2
  <2> QED
    BY <2>1, <2>3
<1>3. \A s : Separated(s) = FlattenSeq(parts(s))
  BY DEF Separated
<1>4. Separated(texts) \in Seq(Token)
  <2> HIDE DEF parts
  <2> QED
    BY <1>2, <1>3, FlattenType
<1>5. Separated(<< >>) = << >>
  <2>1. << >> \in Seq(Seq(Token))
    BY EmptySeq
  <2>2. Len(parts(<< >>)) = 0
    <3>1. Len(parts(<< >>)) = Len(<< >>)
      <4> HIDE DEF parts
      <4> QED
        BY <1>2, <2>1
    <3> QED
      BY <3>1
  <2>3. parts(<< >>) = << >>
    <3>1. parts(<< >>) \in Seq(Seq(Token))
      <4> HIDE DEF parts
      <4> QED
        BY <1>2, <2>1
    <3> HIDE DEF parts
    <3> QED
      BY <2>2, <3>1, EmptySeq
  <2>4. FlattenSeq(<< >>) = << >>
    BY DEF FlattenSeq
  <2> HIDE DEF parts
  <2> QED
    BY <1>3, <2>3, <2>4
<1>6. ASSUME NEW t \in Seq(Token)
      PROVE  Separated(Append(texts, t)) = Separated(texts) \o (Comma(texts) \o t)
  <2> DEFINE longer == Append(texts, t)
             n == Len(texts)
             new == Comma(texts) \o t
  <2>1. /\ n \in Nat /\ longer \in Seq(Seq(Token)) /\ Len(longer) = n + 1
        /\ longer[n + 1] = t /\ \A i \in 1..n : longer[i] = texts[i]
    BY LenProperties, AppendProperties
  <2>2. new = comma(n + 1) \o t
    <3>1. n = 0 <=> texts = << >>
      BY <2>1, EmptySeq
    <3>2. n + 1 > 1 <=> n # 0
      BY <2>1
    <3> HIDE DEF n
    <3> QED
      BY <3>1, <3>2 DEF Comma
  <2>3. new \in Seq(Token)
    <3> HIDE DEF comma
    <3> QED
      BY <1>1, <2>2, ConcatProperties
  <2> HIDE DEF comma, longer, new
  <2>4. /\ parts(longer) \in Seq(Seq(Token)) /\ Len(parts(longer)) = n + 1
        /\ \A i \in 1..(n + 1) : parts(longer)[i] = comma(i) \o longer[i]
    <3> HIDE DEF parts
    <3> QED
      BY <1>2, <2>1
  <2>5. /\ parts(texts) \in Seq(Seq(Token)) /\ Len(parts(texts)) = n
        /\ \A i \in 1..n : parts(texts)[i] = comma(i) \o texts[i]
    <3> HIDE DEF parts
    <3> QED
      BY <1>2
  <2> HIDE DEF parts, n
  <2>6. /\ Append(parts(texts), new) \in Seq(Seq(Token))
        /\ Len(Append(parts(texts), new)) = n + 1
        /\ Append(parts(texts), new)[n + 1] = new
        /\ \A i \in 1..n : Append(parts(texts), new)[i] = parts(texts)[i]
    BY <2>3, <2>5, AppendProperties
  <2>7. parts(longer) = Append(parts(texts), new)
    <3>1. ASSUME NEW i \in 1..(n + 1) PROVE parts(longer)[i] = Append(parts(texts), new)[i]
      <4>1. CASE i = n + 1
        BY <2>1, <2>2, <2>4, <2>6, <4>1
      <4>2. CASE i # n + 1
        <5>1. i \in 1..n
          BY <2>1, <4>2
        <5> QED
          BY <2>1, <2>4, <2>5, <2>6, <5>1
      <4> QED
        BY <4>1, <4>2
    <3> QED
      BY <2>4, <2>6, <3>1, SeqEqual
  <2>8. FlattenSeq(parts(longer)) = FlattenSeq(parts(texts)) \o new
    BY <2>3, <2>5, <2>7, FlattenAppend
  <2> QED
    BY <1>3, <2>8 DEF longer, new
<1> QED
  BY <1>4, <1>5, <1>6

\* An array of texts, and an object of them, is a text.
LEMMA ArrayTextType == \A v \in Seq(Seq(Token)) : ArrayText(v) \in Seq(Token)
<1> TAKE v \in Seq(Seq(Token))
<1>1. Punct("[") \in Seq(Token) /\ Punct("]") \in Seq(Token) /\ Separated(v) \in Seq(Token)
  BY SeparatedAppend, Tokens DEF Open, Close
<1>2. Punct("[") \o Separated(v) \in Seq(Token)
  BY <1>1, ConcatProperties
<1> QED
  BY <1>1, <1>2, ConcatProperties DEF ArrayText

\* Likewise.
LEMMA EntriesTextType == \A e \in Seq(Entry) : EntriesText(e) \in Seq(Token)
<1> TAKE e \in Seq(Entry)
<1> DEFINE texts == [i \in DOMAIN e |-> EntryText(e[i])]
<1>1. DOMAIN e = 1..Len(e) /\ Len(e) \in Nat /\ \A i \in 1..Len(e) : e[i] \in Entry
  OBVIOUS
<1>2. ASSUME NEW x \in Entry PROVE EntryText(x) \in Seq(Token)
  <2>1. x.key \in Scanned /\ x.json \in Seq(Token)
    BY DEF Entry
  <2>2. << <<"word", x.key>> >> \in Seq(Token) /\ Punct(":") \in Seq(Token)
    BY <2>1, Tokens
  <2>3. << <<"word", x.key>> >> \o Punct(":") \in Seq(Token)
    BY <2>2, ConcatProperties
  <2> QED
    BY <2>1, <2>3, ConcatProperties DEF EntryText
<1>3. texts \in Seq(Seq(Token))
  <2>1. texts \in [1..Len(e) -> Seq(Token)]
    BY <1>1, <1>2
  <2> QED
    BY <1>1, <2>1
<1>4. Punct("{") \in Seq(Token) /\ Punct("}") \in Seq(Token) /\ Separated(texts) \in Seq(Token)
  <2> HIDE DEF texts
  <2> QED
    BY <1>3, SeparatedAppend, Tokens DEF Open, Close
<1>5. Punct("{") \o Separated(texts) \in Seq(Token)
  <2> HIDE DEF texts
  <2> QED
    BY <1>4, ConcatProperties
<1>6. Punct("{") \o Separated(texts) \o Punct("}") \in Seq(Token)
  <2> HIDE DEF texts
  <2> QED
    BY <1>4, <1>5, ConcatProperties
<1> QED
  BY <1>6 DEF EntriesText

\* A sequence without one of its elements.
LEMMA Removed ==
  ASSUME NEW T, NEW s \in Seq(T), NEW i \in 1..Len(s)
  PROVE  /\ RemoveAt(s, i) \in Seq(T) /\ Len(RemoveAt(s, i)) = Len(s) - 1
         /\ \A j \in 1..(Len(s) - 1) : RemoveAt(s, i)[j] = IF j < i THEN s[j] ELSE s[j + 1]
<1> DEFINE n == Len(s)
           front == SubSeq(s, 1, i - 1)
           back == SubSeq(s, i + 1, n)
<1>1. n \in Nat /\ i \in Nat /\ 1 <= i /\ i <= n /\ \A j \in 1..n : s[j] \in T
  OBVIOUS
<1>2. 1 \in Int /\ i - 1 \in Int /\ i + 1 \in Int /\ n \in Int /\ i - 1 \in Nat /\ n - i \in Nat
  BY <1>1
<1>3. (\A j \in 1..(i - 1) : s[j] \in T) /\ (\A k \in (i + 1)..n : s[k] \in T)
  BY <1>1
<1>4. front \in Seq(T) /\ Len(front) = (IF 1 <= i - 1 THEN i - 1 - 1 + 1 ELSE 0)
      /\ \A j \in 1..(i - 1 - 1 + 1) : front[j] = s[1 + j - 1]
  BY <1>2, <1>3, SubSeqProperties
<1>5. back \in Seq(T) /\ Len(back) = (IF i + 1 <= n THEN n - (i + 1) + 1 ELSE 0)
      /\ \A j \in 1..(n - (i + 1) + 1) : back[j] = s[i + 1 + j - 1]
  BY <1>2, <1>3, SubSeqProperties
<1> HIDE DEF front, back, n
<1>6. Len(front) = i - 1 /\ Len(back) = n - i
  BY <1>1, <1>4, <1>5
<1>7. \A j \in 1..(i - 1) : front[j] = s[j]
  BY <1>1, <1>4
<1>8. \A j \in 1..(n - i) : back[j] = s[i + j]
  <2> TAKE j \in 1..(n - i)
  <2>1. j \in 1..(n - (i + 1) + 1) /\ i + 1 + j - 1 = i + j
    BY <1>1
  <2> QED
    BY <1>5, <2>1
<1>9. /\ front \o back \in Seq(T) /\ Len(front \o back) = Len(front) + Len(back)
      /\ \A j \in 1..(Len(front) + Len(back)) :
           (front \o back)[j] = IF j <= Len(front) THEN front[j] ELSE back[j - Len(front)]
  BY <1>4, <1>5, ConcatProperties
<1>10. Len(front) + Len(back) = n - 1
  BY <1>1, <1>6
<1>11. ASSUME NEW j \in 1..(n - 1)
       PROVE  (front \o back)[j] = IF j < i THEN s[j] ELSE s[j + 1]
  <2>1. CASE j < i
    <3>1. j \in 1..(i - 1) /\ j <= i - 1
      BY <1>1, <2>1
    <3> QED
      BY <1>6, <1>7, <1>9, <1>10, <2>1, <3>1
  <2>2. CASE ~(j < i)
    <3>1. j - (i - 1) \in 1..(n - i) /\ ~(j <= i - 1) /\ i + (j - (i - 1)) = j + 1
      BY <1>1, <2>2
    <3>2. (front \o back)[j] = back[j - (i - 1)]
      BY <1>6, <1>9, <1>10, <3>1
    <3> QED
      BY <1>8, <2>2, <3>1, <3>2
  <2> QED
    BY <2>1, <2>2
<1>12. RemoveAt(s, i) = front \o back
  BY DEF RemoveAt, front, back, n
<1> QED
  BY <1>9, <1>10, <1>11, <1>12 DEF n

\* The entries after a write.
LEMMA PutType ==
  ASSUME NEW J, NEW e \in Seq([key : Scanned, json : J]), NEW k \in Scanned, NEW t \in J
  PROVE  Put(e, k, t) \in Seq([key : Scanned, json : J])
<1> DEFINE E == [key : Scanned, json : J]
           same == {i \in DOMAIN e : e[i].key = k}
           first == CHOOSE i \in same : TRUE
           others == IF same = {} THEN e ELSE RemoveAt(e, first)
           new == [key |-> k, json |-> t]
<1>1. new \in E
  OBVIOUS
<1> HIDE DEF E
<1>2. others \in Seq(E)
  <2>1. ASSUME same # {} PROVE RemoveAt(e, first) \in Seq(E)
    <3>1. first \in 1..Len(e)
      BY <2>1
    <3>2. e \in Seq(E)
      BY DEF E
    <3> HIDE DEF first
    <3> QED
      BY <3>1, <3>2, Removed
  <2> HIDE DEF same, first
  <2> QED
    BY <2>1 DEF E
<1>3. Put(e, k, t) = Append(others, new)
  BY DEF Put
<1> HIDE DEF others, new
<1>4. Append(others, new) \in Seq(E)
  BY <1>1, <1>2, AppendProperties
<1> QED
  BY <1>3, <1>4 DEF E

-------------------------------------------------------------------------------
\* What the judgements are about.
LEMMA JudgementTypes ==
  ASSUME NEW text
  PROVE  /\ \A d \in Nat, i, j \in Place(text), t \in Seq(Token) :
              Value(d, i, j, t) \in Judgement(text)
         /\ \A d \in Nat, i, j \in Place(text), v \in Seq(Seq(Token)) :
              ArrayUpTo(d, i, j, v) \in Judgement(text)
         /\ \A d \in Nat, i \in Place(text) \cup {0}, j \in Place(text), e \in Seq(Entry) :
              ObjectUpTo(d, i, j, e) \in Judgement(text)
  BY DEF Judgement

\* Places are followed by places.
LEMMA Places ==
  ASSUME NEW text \in Seq(Lexeme)
  PROVE  /\ \A k \in Place(text) : k \in Nat /\ SkipCommas(text, k) \in Place(text)
         /\ \A i \in Place(text) : i <= Len(text) => i + 1 \in Place(text)
         /\ 1 \in Place(text)
<1>1. Len(text) \in Nat
  OBVIOUS
<1>2. ASSUME NEW k \in Place(text) PROVE k \in Nat /\ SkipCommas(text, k) \in Place(text)
  <2>1. k \in 1..(Len(text) + 1)
    BY DEF Place
  <2> QED
    BY <1>1, <2>1, SkipFrom DEF Place
<1> QED
  BY <1>1, <1>2 DEF Place

\* The judgements that follow from the rules obey them.
LEMMA ReadsRules ==
  ASSUME NEW text \in Seq(Lexeme), NEW max \in Nat
  PROVE  Rules(Reads(text, max), text, max)
<1> DEFINE R == Reads(text, max)
           At == Place(text)
           J == Judgement(text)
<1>1. \A r : r \in R <=> r \in J /\ \A S \in SUBSET J : Rules(S, text, max) => r \in S
  BY DEF Reads
<1> HIDE DEF R, J
<1>2. WordRule(R, text)
  <2> SUFFICES ASSUME NEW d \in Nat, NEW i \in At, IsWord(text, i)
               PROVE  Value(d, i, i + 1, << <<"word", text[i]>> >>) \in R
    BY DEF WordRule
  <2> DEFINE t == << <<"word", text[i]>> >>
  <2>1. t \in Seq(Token) /\ i + 1 \in At
    BY Places, Tokens DEF IsWord
  <2> HIDE DEF t
  <2>2. Value(d, i, i + 1, t) \in J
    BY <2>1, JudgementTypes DEF J
  <2>3. ASSUME NEW S \in SUBSET J, Rules(S, text, max) PROVE Value(d, i, i + 1, t) \in S
    BY <2>3 DEF Rules, WordRule, t
  <2> QED
    BY <1>1, <2>2, <2>3 DEF t
<1>3. ArrayRule(R, text, max)
  <2>1. ASSUME NEW d \in Nat, NEW i \in At, Starts(text, i, {"["}), ~TooDeep(d, max)
        PROVE  ArrayUpTo(d + 1, i, i + 1, << >>) \in R
    <3>1. i + 1 \in At /\ d + 1 \in Nat /\ << >> \in Seq(Seq(Token))
      BY <2>1, Places, EmptySeq DEF Starts
    <3>2. ArrayUpTo(d + 1, i, i + 1, << >>) \in J
      BY <3>1, JudgementTypes DEF J
    <3>3. ASSUME NEW S \in SUBSET J, Rules(S, text, max)
          PROVE  ArrayUpTo(d + 1, i, i + 1, << >>) \in S
      BY <2>1, <3>3 DEF Rules, ArrayRule
    <3> QED
      BY <1>1, <3>2, <3>3
  <2>2. ASSUME NEW d \in Nat, NEW i \in At, NEW j \in At, NEW k \in At,
               NEW v \in Seq(Seq(Token)), NEW t \in Seq(Token),
               ArrayUpTo(d, i, j, v) \in R, Value(d, j, k, t) \in R
        PROVE  ArrayUpTo(d, i, SkipCommas(text, k), Append(v, t)) \in R
    <3>1. SkipCommas(text, k) \in At
      BY Places
    <3>2. Append(v, t) \in Seq(Seq(Token))
      BY AppendProperties
    <3> HIDE DEF At
    <3>3. ArrayUpTo(d, i, SkipCommas(text, k), Append(v, t)) \in J
      BY <3>1, <3>2, JudgementTypes DEF J, At
    <3>4. ASSUME NEW S \in SUBSET J, Rules(S, text, max)
          PROVE  ArrayUpTo(d, i, SkipCommas(text, k), Append(v, t)) \in S
      <4>1. ArrayUpTo(d, i, j, v) \in S /\ Value(d, j, k, t) \in S
        BY <1>1, <2>2, <3>4
      <4>2. ArrayRule(S, text, max)
        BY <3>4 DEF Rules
      <4> QED
        BY <4>1, <4>2 DEF ArrayRule, At
    <3> QED
      BY <1>1, <3>3, <3>4
  <2>3. ASSUME NEW d \in Nat, NEW i \in At, NEW j \in At, NEW v \in Seq(Seq(Token)),
               ArrayUpTo(d + 1, i, j, v) \in R, Starts(text, j, {"]"})
        PROVE  Value(d, i, j + 1, ArrayText(v)) \in R
    <3>1. j + 1 \in At /\ ArrayText(v) \in Seq(Token)
      BY <2>3, Places, ArrayTextType DEF Starts
    <3>2. Value(d, i, j + 1, ArrayText(v)) \in J
      BY <3>1, JudgementTypes DEF J
    <3>3. ASSUME NEW S \in SUBSET J, Rules(S, text, max)
          PROVE  Value(d, i, j + 1, ArrayText(v)) \in S
      <4>1. ArrayUpTo(d + 1, i, j, v) \in S
        BY <1>1, <2>3, <3>3
      <4>2. ArrayRule(S, text, max)
        BY <3>3 DEF Rules
      <4> QED
        BY <2>3, <4>1, <4>2 DEF ArrayRule
    <3> QED
      BY <1>1, <3>2, <3>3
  <2> HIDE DEF At
  <2> QED
    BY <2>1, <2>2, <2>3 DEF ArrayRule, At
<1>4. ObjectRule(R, text, max)
  <2>1. ASSUME NEW d \in Nat, NEW i \in At, Starts(text, i, {"{"}), ~TooDeep(d, max)
        PROVE  ObjectUpTo(d + 1, i, i + 1, << >>) \in R
    <3>1. i + 1 \in At /\ d + 1 \in Nat
      <4>1. i <= Len(text)
        BY <2>1 DEF Starts
      <4> QED
        BY <4>1, Places
    <3>4. << >> \in Seq(Entry)
      BY EmptySeq
    <3>2. ObjectUpTo(d + 1, i, i + 1, << >>) \in J
      BY <3>1, <3>4, JudgementTypes DEF J
    <3>3. ASSUME NEW S \in SUBSET J, Rules(S, text, max)
          PROVE  ObjectUpTo(d + 1, i, i + 1, << >>) \in S
      BY <2>1, <3>3 DEF Rules, ObjectRule
    <3> QED
      BY <1>1, <3>2, <3>3
  <2>2. ASSUME SkipCommas(text, 1) <= Len(text), ~Starts(text, SkipCommas(text, 1), Open)
        PROVE  ObjectUpTo(1, 0, SkipCommas(text, 1), << >>) \in R
    <3>1. SkipCommas(text, 1) \in At /\ << >> \in Seq(Entry)
      BY Places, EmptySeq
    <3>2. ObjectUpTo(1, 0, SkipCommas(text, 1), << >>) \in J
      BY <3>1, JudgementTypes DEF J
    <3>3. ASSUME NEW S \in SUBSET J, Rules(S, text, max)
          PROVE  ObjectUpTo(1, 0, SkipCommas(text, 1), << >>) \in S
      BY <2>2, <3>3 DEF Rules, ObjectRule
    <3> QED
      BY <1>1, <3>2, <3>3
  <2>3. ASSUME NEW d \in Nat, NEW i \in At \cup {0}, NEW j \in At, NEW k \in At,
               NEW e \in Seq(Entry), NEW t \in Seq(Token),
               ObjectUpTo(d, i, j, e) \in R, IsWord(text, j), Value(d, j + 1, k, t) \in R
        PROVE  ObjectUpTo(d, i, SkipCommas(text, k), Put(e, text[j], t)) \in R
    <3>1. SkipCommas(text, k) \in At
      BY Places
    <3>2. text[j] \in Scanned
      BY <2>3 DEF IsWord
    <3>3. Put(e, text[j], t) \in Seq(Entry)
      BY <3>2, PutType DEF Entry
    <3> HIDE DEF At
    <3>4. ObjectUpTo(d, i, SkipCommas(text, k), Put(e, text[j], t)) \in J
      BY <3>1, <3>3, JudgementTypes DEF J, At
    <3>5. ASSUME NEW S \in SUBSET J, Rules(S, text, max)
          PROVE  ObjectUpTo(d, i, SkipCommas(text, k), Put(e, text[j], t)) \in S
      <4>1. ObjectUpTo(d, i, j, e) \in S /\ Value(d, j + 1, k, t) \in S
        BY <1>1, <2>3, <3>5
      <4>2. ObjectRule(S, text, max)
        BY <3>5 DEF Rules
      <4> QED
        BY <2>3, <4>1, <4>2 DEF ObjectRule, At
    <3> QED
      BY <1>1, <3>4, <3>5
  <2>4. ASSUME NEW d \in Nat, NEW i \in At, NEW j \in At, NEW e \in Seq(Entry),
               ObjectUpTo(d + 1, i, j, e) \in R, Starts(text, j, {"}"})
        PROVE  Value(d, i, j + 1, EntriesText(e)) \in R
    <3>1. j + 1 \in At /\ EntriesText(e) \in Seq(Token)
      BY <2>4, Places, EntriesTextType DEF Starts
    <3>2. Value(d, i, j + 1, EntriesText(e)) \in J
      BY <3>1, JudgementTypes DEF J
    <3>3. ASSUME NEW S \in SUBSET J, Rules(S, text, max)
          PROVE  Value(d, i, j + 1, EntriesText(e)) \in S
      <4>1. ObjectUpTo(d + 1, i, j, e) \in S
        BY <1>1, <2>4, <3>3
      <4>2. ObjectRule(S, text, max)
        BY <3>3 DEF Rules
      <4> QED
        BY <2>4, <4>1, <4>2 DEF ObjectRule
    <3> QED
      BY <1>1, <3>2, <3>3
  <2> HIDE DEF At
  <2> QED
    BY <2>1, <2>2, <2>3, <2>4 DEF ObjectRule, At
<1> QED
  BY <1>2, <1>3, <1>4 DEF Rules, R

-------------------------------------------------------------------------------
\* What an object's members say in the bytes of its buffer.
Collected(members, bytes) ==
  [m \in DOMAIN members |->
     [key |-> members[m].key, json |-> SubSeq(bytes, members[m].start + 1, members[m].end)]]

\* A piece of a text is a text, and is still there when more is written.
LEMMA SpanKept ==
  ASSUME NEW bytes \in Seq(Token), NEW from \in Nat, NEW to \in Nat, to <= Len(bytes)
  PROVE  /\ SubSeq(bytes, from + 1, to) \in Seq(Token)
         /\ \A t \in Seq(Token) :
              SubSeq(bytes \o t, from + 1, to) = SubSeq(bytes, from + 1, to)
<1>1. Len(bytes) \in Nat /\ from + 1 \in Int /\ to \in Int /\ from + 1 >= 1
  OBVIOUS
<1>2. \A j \in (from + 1)..to : j \in 1..Len(bytes)
  BY <1>1
<1>3. \A j \in (from + 1)..to : bytes[j] \in Token
  BY <1>2, ElementOfSeq
<1>4. /\ SubSeq(bytes, from + 1, to) \in Seq(Token)
      /\ Len(SubSeq(bytes, from + 1, to)) = IF from + 1 <= to THEN to - (from + 1) + 1 ELSE 0
      /\ \A j \in 1..(to - (from + 1) + 1) :
           SubSeq(bytes, from + 1, to)[j] = bytes[from + 1 + j - 1]
  BY <1>1, <1>3, SubSeqProperties
<1>5. ASSUME NEW t \in Seq(Token)
      PROVE  SubSeq(bytes \o t, from + 1, to) = SubSeq(bytes, from + 1, to)
  <2> DEFINE both == bytes \o t
  <2>1. \A j \in 1..Len(bytes) : both[j] = bytes[j]
    <3>1. Len(t) \in Nat /\ \A j \in 1..(Len(bytes) + Len(t)) :
            both[j] = IF j <= Len(bytes) THEN bytes[j] ELSE t[j - Len(bytes)]
      BY ConcatProperties
    <3>2. \A j \in 1..Len(bytes) : j \in 1..(Len(bytes) + Len(t)) /\ j <= Len(bytes)
      BY <1>1, <3>1
    <3> HIDE DEF both
    <3> QED
      BY <3>1, <3>2
  <2> HIDE DEF both
  <2>2. \A j \in (from + 1)..to : both[j] = bytes[j] /\ both[j] \in Token
    BY <1>2, <1>3, <2>1
  <2>3. /\ SubSeq(both, from + 1, to) \in Seq(Token)
        /\ Len(SubSeq(both, from + 1, to)) = IF from + 1 <= to THEN to - (from + 1) + 1 ELSE 0
        /\ \A j \in 1..(to - (from + 1) + 1) :
             SubSeq(both, from + 1, to)[j] = both[from + 1 + j - 1]
    BY <1>1, <2>2, SubSeqProperties
  <2> DEFINE a == SubSeq(bytes, from + 1, to)
             b == SubSeq(both, from + 1, to)
  <2>4. Len(a) = Len(b)
    BY <1>4, <2>3
  <2>5. ASSUME NEW j \in 1..Len(b) PROVE b[j] = a[j]
    <3>1. Len(b) # 0
      BY <2>5
    <3>2. from + 1 <= to /\ Len(b) = to - (from + 1) + 1
      <4> HIDE DEF b
      <4>1. Len(b) = IF from + 1 <= to THEN to - (from + 1) + 1 ELSE 0
        BY <2>3 DEF b
      <4> QED
        BY <3>1, <4>1
    <3>3. j \in 1..(to - (from + 1) + 1) /\ from + 1 + j - 1 \in (from + 1)..to
      <4> HIDE DEF b
      <4> QED
        BY <1>1, <3>2
    <3> QED
      BY <1>4, <2>2, <2>3, <3>3
  <2> HIDE DEF a, b
  <2>6. a \in Seq(Token) /\ b \in Seq(Token)
    BY <1>4, <2>3 DEF a, b
  <2>7. a = b
    BY <2>4, <2>5, <2>6, SeqEqual
  <2> QED
    BY <2>7 DEF a, b, both
<1> QED
  BY <1>4, <1>5

\* What is written last is the piece at the end.
LEMMA SpanLast ==
  ASSUME NEW bytes \in Seq(Token), NEW t \in Seq(Token)
  PROVE  SubSeq(bytes \o t, Len(bytes) + 1, Len(bytes \o t)) = t
<1> DEFINE both == bytes \o t
           a == SubSeq(both, Len(bytes) + 1, Len(both))
           n == Len(bytes)
<1>1. /\ both \in Seq(Token) /\ Len(both) = n + Len(t) /\ n \in Nat /\ Len(t) \in Nat
      /\ \A j \in 1..(n + Len(t)) : both[j] = IF j <= n THEN bytes[j] ELSE t[j - n]
  BY ConcatProperties
<1> HIDE DEF both, n
<1>2. \A j \in (n + 1)..Len(both) : both[j] \in Token
  <2>1. \A j \in (n + 1)..Len(both) : j \in 1..Len(both)
    BY <1>1
  <2> QED
    BY <1>1, <2>1, ElementOfSeq
<1>3. n + 1 \in Int /\ Len(both) \in Int
  BY <1>1
<1>4. /\ SubSeq(both, n + 1, Len(both)) \in Seq(Token)
      /\ Len(SubSeq(both, n + 1, Len(both))) =
           IF n + 1 <= Len(both) THEN Len(both) - (n + 1) + 1 ELSE 0
      /\ \A j \in 1..(Len(both) - (n + 1) + 1) :
           SubSeq(both, n + 1, Len(both))[j] = both[n + 1 + j - 1]
  BY <1>2, <1>3, SubSeqProperties
<1>5. a = SubSeq(both, n + 1, Len(both))
  BY DEF n
<1> HIDE DEF a
<1>6. a \in Seq(Token) /\ Len(a) = Len(t)
  BY <1>1, <1>4, <1>5
<1>7. ASSUME NEW j \in 1..Len(a) PROVE a[j] = t[j]
  <2>1. /\ j \in 1..(Len(both) - (n + 1) + 1) /\ n + 1 + j - 1 = n + j
        /\ n + j \in 1..(n + Len(t)) /\ ~(n + j <= n) /\ n + j - n = j
    BY <1>1, <1>6
  <2>2. a[j] = both[n + j]
    BY <1>4, <1>5, <2>1
  <2>3. both[n + j] = t[n + j - n]
    BY <1>1, <2>1
  <2> QED
    BY <2>1, <2>2, <2>3
<1>8. a = t
  BY <1>6, <1>7, SeqEqual
<1> QED
  BY <1>8 DEF a, both

\* The fields of a member.
LEMMA MemberFields ==
  ASSUME NEW members \in Seq(Member), NEW m \in 1..Len(members)
  PROVE  /\ members[m] \in Member /\ members[m].key \in Scanned
         /\ members[m].start \in Nat /\ members[m].end \in Nat
<1>1. members[m] \in Member
  BY ElementOfSeq
<1> QED
  BY <1>1 DEF Member

\* Members that lie in a buffer are entries.
LEMMA CollectedType ==
  ASSUME NEW members \in Seq(Member), NEW bytes \in Seq(Token),
         \A m \in 1..Len(members) : members[m].end <= Len(bytes)
  PROVE  /\ Collected(members, bytes) \in Seq(Entry)
         /\ Len(Collected(members, bytes)) = Len(members)
         /\ \A m \in 1..Len(members) :
              Collected(members, bytes)[m] =
                [key |-> members[m].key,
                 json |-> SubSeq(bytes, members[m].start + 1, members[m].end)]
<1> DEFINE entry(m) == [key |-> members[m].key,
                        json |-> SubSeq(bytes, members[m].start + 1, members[m].end)]
           e == [m \in 1..Len(members) |-> entry(m)]
<1>1. DOMAIN members = 1..Len(members) /\ Len(members) \in Nat
  OBVIOUS
<1>2. Collected(members, bytes) = e
  BY <1>1 DEF Collected
<1>3. ASSUME NEW m \in 1..Len(members) PROVE entry(m) \in Entry
  <2>1. members[m].key \in Scanned /\ members[m].start \in Nat /\ members[m].end \in Nat
    BY MemberFields
  <2>2. SubSeq(bytes, members[m].start + 1, members[m].end) \in Seq(Token)
    BY <2>1, SpanKept
  <2> QED
    BY <2>1, <2>2 DEF Entry
<1> HIDE DEF entry
<1>4. e \in [1..Len(members) -> Entry]
  BY <1>3
<1>5. e \in Seq(Entry) /\ Len(e) = Len(members)
  BY <1>1, <1>4
<1>6. \A m \in 1..Len(members) : e[m] = entry(m)
  OBVIOUS
<1> HIDE DEF e
<1> QED
  BY <1>2, <1>5, <1>6 DEF entry

\* Setting a member behind what is written is putting its entry.
LEMMA CollectedSet ==
  ASSUME NEW members \in Seq(Member), NEW bytes \in Seq(Token),
         \A m \in 1..Len(members) : members[m].end <= Len(bytes),
         NEW k \in Scanned, NEW t \in Seq(Token)
  PROVE  LET set == SetMember(members, k, Len(bytes), Len(bytes \o t))
         IN  /\ set \in Seq(Member)
             /\ \A m \in 1..Len(set) : set[m].end <= Len(bytes \o t)
             /\ Collected(set, bytes \o t) = Put(Collected(members, bytes), k, t)
<1> DEFINE both == bytes \o t
           e == Collected(members, bytes)
           same == {i \in DOMAIN members : members[i].key = k}
           first == CHOOSE i \in same : TRUE
           left == IF same = {} THEN members ELSE RemoveAt(members, first)
           rest == IF same = {} THEN e ELSE RemoveAt(e, first)
           new == [key |-> k, start |-> Len(bytes), end |-> Len(both)]
           last == [key |-> k, json |-> t]
           entry(m) == [key |-> m.key, json |-> SubSeq(bytes, m.start + 1, m.end)]
<1>1. both \in Seq(Token) /\ Len(both) = Len(bytes) + Len(t)
      /\ Len(both) \in Nat /\ Len(bytes) \in Nat /\ Len(t) \in Nat
  BY ConcatProperties
<1>2. /\ e \in Seq(Entry) /\ Len(e) = Len(members)
      /\ \A m \in 1..Len(members) : e[m] = entry(members[m])
  BY CollectedType
<1>3. DOMAIN members = 1..Len(members) /\ DOMAIN e = 1..Len(members) /\ Len(members) \in Nat
  BY <1>2
<1> HIDE DEF e, both
<1>4. same = {i \in DOMAIN e : e[i].key = k}
  BY <1>2, <1>3
<1>5. SetMember(members, k, Len(bytes), Len(both)) = Append(left, new)
  BY DEF SetMember
<1>6. Put(e, k, t) = Append(rest, last)
  <2>1. Put(e, k, t) =
          LET among == {i \in DOMAIN e : e[i].key = k}
              others == IF among = {} THEN e
                        ELSE RemoveAt(e, CHOOSE i \in among : TRUE)
          IN  Append(others, [key |-> k, json |-> t])
    BY DEF Put
  <2> HIDE DEF same
  <2> QED
    BY <1>4, <2>1
<1>7. /\ left \in Seq(Member) /\ rest \in Seq(Entry) /\ Len(left) = Len(rest)
      /\ \A m \in 1..Len(left) : left[m].end <= Len(bytes) /\ rest[m] = entry(left[m])
  <2>1. CASE same = {}
    BY <1>2, <2>1
  <2>2. CASE same # {}
    <3>1. first \in 1..Len(members)
      BY <1>3, <2>2
    <3> HIDE DEF first, same, entry
    <3>2. left = RemoveAt(members, first) /\ rest = RemoveAt(e, first)
      BY <2>2
    <3> DEFINE a == RemoveAt(members, first)
               b == RemoveAt(e, first)
               n == Len(members)
    <3>3. /\ a \in Seq(Member) /\ Len(a) = n - 1
          /\ \A j \in 1..(n - 1) : a[j] = IF j < first THEN members[j] ELSE members[j + 1]
      BY <3>1, Removed
    <3>4. /\ b \in Seq(Entry) /\ Len(b) = n - 1
          /\ \A j \in 1..(n - 1) : b[j] = IF j < first THEN e[j] ELSE e[j + 1]
      BY <1>2, <3>1, Removed
    <3> HIDE DEF a, b
    <3>5. ASSUME NEW j \in 1..(n - 1)
          PROVE  a[j].end <= Len(bytes) /\ b[j] = entry(a[j])
      <4>1. j \in 1..n /\ j + 1 \in 1..n
        BY <1>3
      <4>2. CASE j < first
        <5>1. a[j] = members[j] /\ b[j] = e[j]
          BY <3>3, <3>4, <4>2
        <5> QED
          BY <1>2, <4>1, <5>1
      <4>3. CASE ~(j < first)
        <5>1. a[j] = members[j + 1] /\ b[j] = e[j + 1]
          BY <3>3, <3>4, <4>3
        <5> QED
          BY <1>2, <4>1, <5>1
      <4> QED
        BY <4>2, <4>3
    <3> HIDE DEF n, left, rest
    <3> QED
      BY <3>2, <3>3, <3>4, <3>5 DEF a, b
  <2> QED
    BY <2>1, <2>2
<1>8. new \in Member /\ last \in Entry
  BY <1>1 DEF Member, Entry
<1> DEFINE set == Append(left, new)
           put == Append(rest, last)
           n == Len(left)
<1> HIDE DEF left, rest, first, same
<1>9. /\ n \in Nat /\ set \in Seq(Member) /\ Len(set) = n + 1 /\ set[n + 1] = new
      /\ \A m \in 1..n : set[m] = left[m]
  <2> HIDE DEF new
  <2> QED
    BY <1>7, <1>8, AppendProperties
<1>10. /\ put \in Seq(Entry) /\ Len(put) = n + 1 /\ put[n + 1] = last
       /\ \A m \in 1..n : put[m] = rest[m]
  <2> HIDE DEF last
  <2> QED
    BY <1>7, <1>8, AppendProperties
<1> HIDE DEF set, put
<1>11. ASSUME NEW m \in 1..(n + 1) PROVE set[m].end <= Len(both)
  <2>1. CASE m = n + 1
    BY <1>1, <1>9, <2>1
  <2>2. CASE m # n + 1
    <3>1. m \in 1..n
      BY <1>9, <2>2
    <3>2. set[m].end \in Nat
      BY <1>9, MemberFields
    <3>3. set[m].end <= Len(bytes)
      BY <1>7, <1>9, <3>1
    <3> QED
      BY <1>1, <3>2, <3>3
  <2> QED
    BY <2>1, <2>2
<1>12. /\ Collected(set, both) \in Seq(Entry) /\ Len(Collected(set, both)) = n + 1
       /\ \A m \in 1..(n + 1) : Collected(set, both)[m] =
            [key |-> set[m].key, json |-> SubSeq(both, set[m].start + 1, set[m].end)]
  BY <1>1, <1>9, <1>11, CollectedType
<1>13. ASSUME NEW m \in 1..(n + 1) PROVE Collected(set, both)[m] = put[m]
  <2>1. CASE m = n + 1
    <3>1. SubSeq(both, Len(bytes) + 1, Len(both)) = t
      BY SpanLast DEF both
    <3>2. new.key = k /\ new.start = Len(bytes) /\ new.end = Len(both)
      OBVIOUS
    <3>3. set[m] = new /\ put[m] = [key |-> k, json |-> t]
      BY <1>9, <1>10, <2>1
    <3>4. Collected(set, both)[m] =
            [key |-> set[m].key, json |-> SubSeq(both, set[m].start + 1, set[m].end)]
      BY <1>12
    <3> HIDE DEF new
    <3> QED
      BY <3>1, <3>2, <3>3, <3>4
  <2>2. CASE m # n + 1
    <3>1. m \in 1..n
      BY <1>9, <2>2
    <3>2. set[m] = left[m] /\ put[m] = entry(left[m]) /\ left[m].end <= Len(bytes)
      BY <1>7, <1>9, <1>10, <3>1
    <3>3. left[m].start \in Nat /\ left[m].end \in Nat
      BY <1>7, <3>1, MemberFields
    <3>4. SubSeq(both, left[m].start + 1, left[m].end) =
          SubSeq(bytes, left[m].start + 1, left[m].end)
      BY <3>2, <3>3, SpanKept DEF both
    <3> QED
      BY <1>12, <3>2, <3>4
  <2> QED
    BY <2>1, <2>2
<1>14. Collected(set, both) = put
  BY <1>10, <1>12, <1>13, SeqEqual
<1>15. set = SetMember(members, k, Len(bytes), Len(both)) /\ put = Put(e, k, t)
  BY <1>5, <1>6 DEF set, put
<1> HIDE DEF n
<1> QED
  BY <1>9, <1>11, <1>14, <1>15 DEF e, both

\* An object is written as its entries are.
LEMMA ObjectTextEntries ==
  ASSUME NEW members \in Seq(Member), NEW bytes
  PROVE  ObjectText(members, bytes) = EntriesText(Collected(members, bytes))
<1> DEFINE e == Collected(members, bytes)
           comma(i) == IF i > 1 THEN Punct(",") ELSE << >>
           texts == [i \in DOMAIN e |-> EntryText(e[i])]
<1>1. DOMAIN e = DOMAIN members
  BY DEF Collected
<1>2. \A i \in DOMAIN members : EntryText(e[i]) = MemberText(members[i], bytes)
  BY DEF Collected, EntryText, MemberText
<1> HIDE DEF e, comma
<1>3. DOMAIN texts = DOMAIN members
      /\ \A i \in DOMAIN members : texts[i] = MemberText(members[i], bytes)
  BY <1>1, <1>2
<1> HIDE DEF texts
<1>4. [i \in DOMAIN texts |-> comma(i) \o texts[i]] =
      [i \in DOMAIN members |-> comma(i) \o MemberText(members[i], bytes)]
  BY <1>3
<1>5. Separated(texts) = FlattenSeq([i \in DOMAIN texts |-> comma(i) \o texts[i]])
  BY DEF Separated, comma
<1>6. ObjectText(members, bytes) =
        Punct("{") \o FlattenSeq([i \in DOMAIN members |-> comma(i) \o MemberText(members[i], bytes)])
          \o Punct("}")
  BY DEF ObjectText, comma
<1>7. EntriesText(e) = Punct("{") \o Separated(texts) \o Punct("}")
  BY DEF EntriesText, texts
<1> QED
  BY <1>4, <1>5, <1>6, <1>7 DEF e

\* Buffer 0 is the caller's.
Content(out, buffers, b) == IF b = 0 THEN out ELSE buffers[b]

\* Container i began at P[i], what is inside it begins at P[i + 1] (or is to come
\* there), and C[i] is what its buffer held before that.  C[0] is the caller's.
ArrayFits(text, max, C, P, i) ==
  \E v \in Seq(Seq(Token)) :
    /\ P[i] \in Place(text) /\ Starts(text, P[i], {"["})
    /\ ArrayUpTo(i, P[i], P[i + 1], v) \in Reads(text, max)
    /\ C[i] = C[i - 1] \o Punct("[") \o Separated(v)
                \o (IF Starts(text, P[i + 1], {"]"}) THEN << >> ELSE Comma(v))

\* The key of an object is read before what is inside it.
ObjectFits(text, max, C, P, i, f) ==
  LET j == IF f.key = NoKey THEN P[i + 1] ELSE P[i + 1] - 1
  IN  /\ f.kind = "object" => P[i] \in Place(text) /\ Starts(text, P[i], {"{"})
      /\ j \in Place(text)
      /\ \A m \in 1..Len(f.members) : f.members[m].end <= Len(C[i])
      /\ ObjectUpTo(i, P[i], j, Collected(f.members, C[i])) \in Reads(text, max)
      /\ f.key # NoKey => f.from = Len(C[i]) /\ IsWord(text, j) /\ text[j] = f.key

Fits(text, max, C, P, i, f) ==
  IF f.kind = "array" THEN ArrayFits(text, max, C, P, i)
                      ELSE ObjectFits(text, max, C, P, i, f)

\* The containers of a stack, and where the reader is.
Layout(s, here, C, P, text, max) ==
  /\ \A i \in 0..Len(s) : C[i] \in Seq(Token)
  /\ \A i \in 1..(Len(s) + 1) : P[i] \in Place(text) \cup {0}
  /\ C[0] = Already
  /\ P[1] = IF s # << >> /\ s[1].kind = "elided" THEN 0 ELSE SkipCommas(text, 1)
  /\ P[Len(s) + 1] = here
  /\ \A i \in 1..Len(s) : Fits(text, max, C, P, i, s[i])

\* The buffers, but for those an array inside has written to since.
Filled(s, C, out, buffers) ==
  \A i \in 0..Len(s) :
    i = Len(s) \/ s[i + 1].kind # "array" => Content(out, buffers, Level(s, i)) = C[i]

\* Nothing can be read into an array at the end of the text.
Live == Reading /\ (InArray => pos <= Len(src))

MeaningInv ==
  /\ Live => \E C, P : Layout(stack, pos, C, P, src, limit) /\ Filled(stack, C, dst, scratch)
  /\ phase = "end" => \E t \in Seq(Token) :
       /\ pos \in Place(src)
       /\ Value(0, SkipCommas(src, 1), pos, t) \in Reads(src, limit)
       /\ dst = Already \o t
  /\ phase = "ok" => \E t \in Seq(Token) : Means(src, limit, t) /\ dst = Already \o t

-------------------------------------------------------------------------------
\* A fit is about the places and the contents next to it.
LEMMA FitsKept ==
  ASSUME NEW text, NEW max, NEW C, NEW P, NEW D, NEW Q, NEW i, NEW f,
         C[i] = D[i], C[i - 1] = D[i - 1], P[i] = Q[i], P[i + 1] = Q[i + 1],
         Fits(text, max, C, P, i, f)
  PROVE  Fits(text, max, D, Q, i, f)
<1>1. CASE f.kind = "array"
  <2>1. ArrayFits(text, max, C, P, i)
    BY <1>1 DEF Fits
  <2>2. ArrayFits(text, max, D, Q, i)
    BY <2>1 DEF ArrayFits
  <2> QED
    BY <1>1, <2>2 DEF Fits
<1>2. CASE f.kind # "array"
  <2>1. ObjectFits(text, max, C, P, i, f)
    BY <1>2 DEF Fits
  <2>2. ObjectFits(text, max, D, Q, i, f)
    BY <2>1 DEF ObjectFits
  <2> QED
    BY <1>2, <2>2 DEF Fits
<1> QED
  BY <1>1, <1>2

\* What a write does to the buffers.
LEMMA WrittenContent ==
  ASSUME scratch \in Seq(Seq(Token)), NEW b \in 0..Len(scratch), NEW text \in Seq(Token),
         Write(b, text), NEW i \in 0..Len(scratch), dst \in Seq(Token)
  PROVE  Content(dst', scratch', i) =
           IF i = b THEN Content(dst, scratch, b) \o text ELSE Content(dst, scratch, i)
<1>1. Len(scratch) \in Nat
  OBVIOUS
<1>2. CASE b = 0
  <2>1. dst' = dst \o text /\ scratch' = scratch
    BY <1>2 DEF Write
  <2> QED
    BY <1>2, <2>1 DEF Content
<1>3. CASE b # 0
  <2> DEFINE longer == scratch[b] \o text
  <2>1. dst' = dst /\ scratch' = [scratch EXCEPT ![b] = longer]
    BY <1>3 DEF Write
  <2>2. b \in 1..Len(scratch)
    BY <1>1, <1>3
  <2>3. longer \in Seq(Token)
    BY <2>2, ElementOfSeq, ConcatProperties
  <2> HIDE DEF longer
  <2>4. \A j \in 1..Len(scratch) : scratch'[j] = IF j = b THEN longer ELSE scratch[j]
    BY <2>1, <2>2, <2>3, ExceptSeq
  <2>5. CASE i = 0
    BY <1>3, <2>1, <2>5 DEF Content
  <2>6. CASE i # 0
    <3>1. i \in 1..Len(scratch)
      BY <1>1, <2>6
    <3>2. scratch'[i] = IF i = b THEN longer ELSE scratch[i]
      BY <2>4, <3>1
    <3> QED
      BY <1>3, <2>6, <3>2 DEF Content, longer
  <2> QED
    BY <2>5, <2>6
<1> QED
  BY <1>2, <1>3

\* Levels are numbers of buffers in use, and the object at a level is the first
\* that uses it.
LEMMA LevelInUse ==
  ASSUME NEW s \in Seq(Frame), NEW d \in Nat, Shaped(s, d), NEW i \in 0..Len(s)
  PROVE  /\ Level(s, i) \in 0..d
         /\ i = Len(s) => Level(s, i) = d
         /\ i # Len(s) /\ s[i + 1].kind # "array" => Level(s, i) # d
<1>1. Len(s) \in Nat /\ i \in Nat /\ Len(s) \in 0..Len(s) /\ i <= Len(s)
  OBVIOUS
<1>2. d = Level(s, Len(s))
  BY DEF Shaped
<1>3. Level(s, i) \in Nat /\ Level(s, i) <= d
  BY <1>1, <1>2, LevelStep, LevelMonotone
<1>4. ASSUME i # Len(s), s[i + 1].kind # "array" PROVE Level(s, i) # d
  <2>1. i + 1 \in 0..Len(s) /\ i + 1 > 0 /\ i + 1 - 1 = i /\ i + 1 <= Len(s)
    BY <1>1, <1>4
  <2>2. Level(s, i + 1) = Level(s, i) + 1
    BY <1>4, <2>1, LevelStep
  <2>3. Level(s, i + 1) <= d
    BY <1>1, <1>2, <2>1, LevelMonotone
  <2> QED
    BY <1>3, <2>2, <2>3
<1> QED
  BY <1>2, <1>3, <1>4

-------------------------------------------------------------------------------
\* Joining texts is associative.
LEMMA Joined == \A a, b, c \in Seq(Token) : (a \o b) \o c = a \o (b \o c)
  BY ConcatAssociative

\* A value and what is behind it join those in front.
RegroupedAlike(a, b, c, t, d) ==
  ((a \o b) \o c) \o (t \o d) = (a \o (b \o (c \o t))) \o d

\* So they do, whatever the five are.
LEMMA Regrouped == \A a, b, c, t, d \in Seq(Token) : RegroupedAlike(a, b, c, t, d)
<1> TAKE a, b, c, t, d \in Seq(Token)
<1> DEFINE q == b \o c
           p == a \o q
<1>1. (a \o b) \o c = p /\ b \o (c \o t) = q \o t
  BY Joined, Zenon
<1>2. q \in Seq(Token)
  BY ConcatProperties
<1> HIDE DEF q
<1>3. p \in Seq(Token) /\ p \o t = a \o (q \o t)
  <2>1. p \in Seq(Token)
    BY <1>2, ConcatProperties
  <2>2. p \o t = a \o (q \o t)
    BY <1>2, Joined, Zenon
  <2> QED
    BY <2>1, <2>2
<1> HIDE DEF p
<1>4. p \o (t \o d) = (p \o t) \o d
  BY <1>3, Joined, Zenon
<1> QED
  BY <1>1, <1>3, <1>4, Zenon DEF RegroupedAlike

\* A sequence that was appended to is not empty.
LEMMA Appended ==
  ASSUME NEW T, NEW s \in Seq(T), NEW x \in T
  PROVE  Append(s, x) \in Seq(T) /\ Append(s, x) # << >>
<1>1. Append(s, x) \in Seq(T) /\ Len(Append(s, x)) = Len(s) + 1 /\ Len(s) \in Nat
  BY LenProperties, AppendProperties
<1>2. Len(Append(s, x)) # 0 /\ Len(<< >>) = 0
  BY <1>1
<1> QED
  BY <1>1, <1>2, Zenon

\* An array takes a value in, with the comma behind it if it goes on.
LEMMA ArrayTakes ==
  ASSUME NEW text \in Seq(Lexeme), NEW max \in Nat, NEW n \in Nat,
         NEW C, NEW P, NEW D, NEW Q,
         C[n] \in Seq(Token), C[n - 1] \in Seq(Token),
         ArrayFits(text, max, C, P, n),
         P[n + 1] \in Place(text), ~Starts(text, P[n + 1], {"]"}),
         NEW next \in Place(text), NEW t \in Seq(Token),
         Value(n, P[n + 1], next, t) \in Reads(text, max),
         SkipCommas(text, next) <= Len(text),
         D[n - 1] = C[n - 1], Q[n] = P[n], Q[n + 1] = SkipCommas(text, next),
         D[n] = C[n] \o (IF text[SkipCommas(text, next)] # "]" THEN t \o Punct(",") ELSE t)
  PROVE  ArrayFits(text, max, D, Q, n)
<1> DEFINE after == SkipCommas(text, next)
           ends == Starts(text, after, {"]"})
           close == IF ends THEN << >> ELSE Punct(",")
<1>1. PICK v \in Seq(Seq(Token)) :
        /\ P[n] \in Place(text) /\ Starts(text, P[n], {"["})
        /\ ArrayUpTo(n, P[n], P[n + 1], v) \in Reads(text, max)
        /\ C[n] = C[n - 1] \o Punct("[") \o Separated(v) \o Comma(v)
  BY DEF ArrayFits
<1> DEFINE w == Append(v, t)
<1>2. w \in Seq(Seq(Token)) /\ w # << >>
  BY Appended
<1>3. ArrayUpTo(n, P[n], after, w) \in Reads(text, max)
  <2>1. ArrayRule(Reads(text, max), text, max)
    BY ReadsRules DEF Rules
  <2> QED
    BY <1>1, <2>1 DEF ArrayRule
<1>4. /\ Separated(v) \in Seq(Token)
      /\ Separated(w) = Separated(v) \o (Comma(v) \o t)
  BY SeparatedAppend
<1>5. /\ Punct("[") \in Seq(Token) /\ Comma(v) \in Seq(Token) /\ close \in Seq(Token)
  BY Tokens DEF Open, Comma
<1>6. D[n] = C[n] \o (t \o close)
  <2>1. text[after] # "]" <=> ~ends
    BY DEF Starts
  <2>2. t \o << >> = t
    BY ConcatEmptySeq
  <2> QED
    BY <2>1, <2>2
<1> HIDE DEF after, ends, close, w
<1>7. D[n] = D[n - 1] \o Punct("[") \o Separated(w) \o close
  <2> DEFINE a == C[n - 1] \o Punct("[")
             b == Separated(v)
             c == Comma(v)
  <2>1. a \in Seq(Token) /\ b \in Seq(Token) /\ c \in Seq(Token)
    BY <1>4, <1>5, ConcatProperties
  <2>2. D[n] = ((a \o b) \o c) \o (t \o close) /\ Separated(w) = b \o (c \o t)
    BY <1>1, <1>4, <1>6
  <2> HIDE DEF a, b, c
  <2>3. D[n] = (a \o (b \o (c \o t))) \o close
    <3>1. ((a \o b) \o c) \o (t \o close) = (a \o (b \o (c \o t))) \o close
      <4>1. RegroupedAlike(a, b, c, t, close)
        BY <1>5, <2>1, Regrouped, Zenon
      <4> QED
        BY <4>1, Zenon DEF RegroupedAlike
    <3> QED
      BY <2>2, <3>1, Zenon
  <2> QED
    BY <2>2, <2>3, Zenon DEF a
<1>8. close = IF Starts(text, Q[n + 1], {"]"}) THEN << >> ELSE Comma(w)
  BY <1>2 DEF close, ends, after, Comma
<1>9. Q[n] = P[n] /\ Q[n + 1] = after
  BY DEF after
<1> QED
  BY <1>1, <1>2, <1>3, <1>7, <1>8, <1>9 DEF ArrayFits

\* An object takes the value of its key in.
LEMMA ObjectTakes ==
  ASSUME NEW text \in Seq(Lexeme), NEW max \in Nat, NEW n \in Nat,
         NEW C, NEW P, NEW D, NEW Q, NEW f \in Frame, NEW g,
         f.kind # "array", f.key # NoKey,
         C[n] \in Seq(Token), P[n] \in Place(text) \cup {0},
         ObjectFits(text, max, C, P, n, f),
         NEW next \in Place(text), NEW t \in Seq(Token), P[n + 1] \in Nat,
         Value(n, P[n + 1], next, t) \in Reads(text, max),
         Q[n] = P[n], Q[n + 1] = SkipCommas(text, next), D[n] = C[n] \o t,
         g.kind = f.kind, g.key = NoKey,
         g.members = SetMember(f.members, f.key, f.from, Len(C[n] \o t))
  PROVE  ObjectFits(text, max, D, Q, n, g)
<1> DEFINE j == P[n + 1] - 1
           e == Collected(f.members, C[n])
           after == SkipCommas(text, next)
<1>1. /\ f.kind = "object" => P[n] \in Place(text) /\ Starts(text, P[n], {"{"})
      /\ j \in Place(text)
      /\ \A m \in 1..Len(f.members) : f.members[m].end <= Len(C[n])
      /\ ObjectUpTo(n, P[n], j, e) \in Reads(text, max)
      /\ f.from = Len(C[n]) /\ IsWord(text, j) /\ text[j] = f.key
  BY DEF ObjectFits
<1>2. f.members \in Seq(Member) /\ f.key \in Scanned
  BY FrameFields
<1>3. e \in Seq(Entry)
  BY <1>1, <1>2, CollectedType
<1>4. j \in Nat /\ j + 1 = P[n + 1]
  <2>1. j \in Nat
    BY <1>1, Places
  <2>2. \A p \in Nat : p - 1 + 1 = p
    OBVIOUS
  <2> QED
    BY <2>1, <2>2
<1>5. after \in Place(text)
  BY Places
<1> HIDE DEF e, j, after
<1>6. ObjectUpTo(n, P[n], after, Put(e, text[j], t)) \in Reads(text, max)
  <2>1. ObjectRule(Reads(text, max), text, max)
    BY ReadsRules DEF Rules
  <2>2. Value(n, j + 1, next, t) \in Reads(text, max)
    BY <1>4
  <2> QED
    BY <1>1, <1>3, <2>1, <2>2 DEF ObjectRule, after
<1>7. /\ \A m \in 1..Len(g.members) : g.members[m].end <= Len(C[n] \o t)
      /\ Collected(g.members, C[n] \o t) = Put(e, f.key, t)
  <2>1. g.members = SetMember(f.members, f.key, Len(C[n]), Len(C[n] \o t))
    BY <1>1
  <2> QED
    BY <1>1, <1>2, <2>1, CollectedSet DEF e
<1>8. ObjectUpTo(n, Q[n], after, Collected(g.members, D[n])) \in Reads(text, max)
  BY <1>1, <1>6, <1>7
<1>9. Q[n + 1] = after
  BY DEF after
<1> QED
  BY <1>1, <1>5, <1>7, <1>8, <1>9 DEF ObjectFits

\* What is put behind the same text makes the same text.
BehindAlike(b, x, c, t, z) == b \o (x \o z) = c \o (t \o z)

\* So it does, whatever the five are.
LEMMA PutBehind == \A b, x, c, t, z \in Seq(Token) : b \o x = c \o t => BehindAlike(b, x, c, t, z)
<1> TAKE b, x, c, t, z \in Seq(Token)
<1> HAVE b \o x = c \o t
<1>1. b \o (x \o z) = (b \o x) \o z
  BY Joined, Zenon
<1>2. c \o (t \o z) = (c \o t) \o z
  BY Joined, Zenon
<1> QED
  BY <1>1, <1>2, Zenon DEF BehindAlike

\* The buffers of the objects around the innermost container.
Below(s, C, out, buffers) ==
  \A i \in 0..(Len(s) - 1) : s[i + 1].kind # "array" => Content(out, buffers, Level(s, i)) = C[i]

\* G is F but for what is at n.
AllBut(F, G, lo, n, x) == \A i \in lo..n : G[i] = IF i = n THEN x ELSE F[i]

\* The innermost container has changed, but not its kind.
TopChanged(s, z) ==
  /\ Len(z) = Len(s) /\ s # << >> /\ z # << >>
  /\ \A i \in 1..Len(s) : z[i].kind = s[i].kind /\ (i # Len(s) => z[i] = s[i])

\* The layout of a stack whose innermost container took something in.
LEMMA LayoutTaken ==
  ASSUME NEW text, NEW max, NEW s, NEW z, NEW n \in Nat, n # 0, Len(s) = n, TopChanged(s, z),
         NEW C, NEW P, NEW here, Layout(s, here, C, P, text, max),
         NEW X \in Seq(Token), NEW after \in Place(text),
         NEW D, NEW Q, AllBut(C, D, 0, n, X), AllBut(P, Q, 1, n + 1, after),
         Fits(text, max, D, Q, n, z[n])
  PROVE  Layout(z, after, D, Q, text, max)
<1>0. /\ Len(z) = n /\ s # << >> /\ z # << >>
      /\ \A i \in 1..n : z[i].kind = s[i].kind /\ (i # n => z[i] = s[i])
      /\ \A i \in 0..n : D[i] = IF i = n THEN X ELSE C[i]
      /\ \A i \in 1..(n + 1) : Q[i] = IF i = n + 1 THEN after ELSE P[i]
  BY DEF TopChanged, AllBut
<1>1. /\ \A i \in 0..n : C[i] \in Seq(Token)
      /\ \A i \in 1..(n + 1) : P[i] \in Place(text) \cup {0}
      /\ C[0] = Already
      /\ P[1] = IF s # << >> /\ s[1].kind = "elided" THEN 0 ELSE SkipCommas(text, 1)
      /\ \A i \in 1..n : Fits(text, max, C, P, i, s[i])
  BY DEF Layout
<1>2. /\ 0 \in 0..n /\ 0 # n /\ 1 \in 1..(n + 1) /\ 1 # n + 1 /\ 1 \in 1..n
      /\ n + 1 \in 1..(n + 1) /\ n \in 1..n
  OBVIOUS
<1>3. /\ \A i \in 0..n : D[i] \in Seq(Token)
      /\ \A i \in 1..(n + 1) : Q[i] \in Place(text) \cup {0}
      /\ D[0] = Already
      /\ P[1] = Q[1]
      /\ Q[n + 1] = after
  BY <1>0, <1>1, <1>2
<1>4. Q[1] = IF z # << >> /\ z[1].kind = "elided" THEN 0 ELSE SkipCommas(text, 1)
  BY <1>0, <1>1, <1>2, <1>3
<1>5. ASSUME NEW i \in 1..n PROVE Fits(text, max, D, Q, i, z[i])
  <2>1. CASE i = n
    BY <1>0, <2>1
  <2>2. CASE i # n
    <3>1. i \in 0..n /\ i - 1 \in 0..n /\ i - 1 # n /\ i \in 1..(n + 1) /\ i # n + 1
          /\ i + 1 \in 1..(n + 1) /\ i + 1 # n + 1
      BY <2>2
    <3>2. C[i] = D[i] /\ C[i - 1] = D[i - 1] /\ P[i] = Q[i] /\ P[i + 1] = Q[i + 1]
      BY <1>0, <2>2, <3>1
    <3>3. Fits(text, max, C, P, i, z[i])
      BY <1>0, <1>1, <2>2
    <3> QED
      BY <3>2, <3>3, FitsKept
  <2> QED
    BY <2>1, <2>2
<1> QED
  BY <1>0, <1>3, <1>4, <1>5 DEF Layout

\* The buffers of a stack whose innermost container took something in.
LEMMA FilledTaken ==
  ASSUME scratch \in Seq(Seq(Token)), dst \in Seq(Token),
         NEW s \in Seq(Frame), NEW z \in Seq(Frame), NEW d \in 0..Len(scratch),
         Shaped(s, d), NEW n \in Nat, n # 0, Len(s) = n, TopChanged(s, z),
         NEW C, Below(s, C, dst, scratch),
         NEW tokens \in Seq(Token), Write(d, tokens),
         NEW D, AllBut(C, D, 0, n, Content(dst, scratch, d) \o tokens)
  PROVE  Filled(z, D, dst', scratch')
<1>0. /\ Len(z) = n
      /\ \A i \in 1..n : z[i].kind = s[i].kind
      /\ \A i \in 0..n : D[i] = IF i = n THEN Content(dst, scratch, d) \o tokens ELSE C[i]
  BY DEF TopChanged, AllBut
<1> SUFFICES ASSUME NEW i \in 0..n, i = n \/ z[i + 1].kind # "array"
             PROVE  Content(dst', scratch', Level(z, i)) = D[i]
  BY <1>0 DEF Filled
<1>1. d \in Nat /\ Len(scratch) \in Nat
  OBVIOUS
<1>2. Level(z, i) = Level(s, i)
  <2>1. i \in Nat /\ \A k \in 1..i : z[k].kind = s[k].kind
    BY <1>0
  <2> QED
    BY <2>1, LevelOfKinds
<1>3. /\ Level(s, i) \in 0..d
      /\ i = n => Level(s, i) = d
      /\ i # n /\ s[i + 1].kind # "array" => Level(s, i) # d
  BY <1>1, LevelInUse
<1> DEFINE b == Level(s, i)
<1>4. b \in 0..Len(scratch)
  BY <1>1, <1>3
<1> HIDE DEF b
<1>5. Content(dst', scratch', b) =
        IF b = d THEN Content(dst, scratch, d) \o tokens ELSE Content(dst, scratch, b)
  BY <1>4, WrittenContent
<1>6. CASE i = n
  BY <1>0, <1>2, <1>3, <1>5, <1>6 DEF b
<1>7. CASE i # n
  <2>1. i + 1 \in 1..n /\ i \in 0..(n - 1)
    BY <1>7
  <2>2. s[i + 1].kind # "array"
    BY <1>0, <1>7, <2>1
  <2>3. Content(dst, scratch, b) = C[i]
    BY <2>1, <2>2 DEF Below, b
  <2> QED
    BY <1>0, <1>2, <1>3, <1>5, <1>7, <2>2, <2>3 DEF b
<1> QED
  BY <1>6, <1>7

-------------------------------------------------------------------------------
\* The fields of an object that took the value of its key in.
LEMMA TakenFields ==
  ASSUME NEW f \in Frame, f.kind # "array", NEW m
  PROVE  LET g == [f EXCEPT !.key = NoKey, !.members = m]
         IN  g.kind = f.kind /\ g.key = NoKey /\ g.members = m
<1>1. f = [kind |-> f.kind, out |-> f.out, own |-> f.own,
           members |-> f.members, key |-> f.key, from |-> f.from]
  BY FrameFields
<1> DEFINE g == [f EXCEPT !.key = NoKey, !.members = m]
<1>2. g = [kind |-> f.kind, out |-> f.out, own |-> f.own,
           members |-> m, key |-> NoKey, from |-> f.from]
  <2>1. g = [f EXCEPT !.key = NoKey, !.members = m]
    BY Zenon
  <2> HIDE DEF g
  <2> QED
    BY <1>1, <2>1, FrameUpdate
<1> HIDE DEF g
<1>3. g.kind = f.kind /\ g.key = NoKey /\ g.members = m
  BY <1>2
<1> QED
  BY <1>3 DEF g

\* A value that was read and written is taken in by what is around it.
LEMMA DeliverMeaning ==
  ASSUME src \in Seq(Lexeme), limit \in Nat, dst \in Seq(Token), dst # << >>,
         scratch \in Seq(Seq(Token)), Reading, src' = src, limit' = limit,
         NEW frames \in Seq(Frame), NEW d \in 0..Len(scratch), Shaped(frames, d),
         Held(frames, scratch), Waiting(frames),
         frames # << >> /\ frames[Len(frames)].kind # "array" =>
           frames[Len(frames)].key # NoKey,
         NEW C, NEW P, NEW here \in Place(src), Layout(frames, here, C, P, src, limit),
         Below(frames, C, dst, scratch), ~Starts(src, here, {"]"}),
         NEW text \in Seq(Token), NEW t \in Seq(Token), NEW next \in Place(src),
         Content(dst, scratch, d) \o text = C[Len(frames)] \o t,
         Value(Len(frames), here, next, t) \in Reads(src, limit),
         Deliver(frames, d, text, next)
  PROVE  MeaningInv'
<1> DEFINE n == Len(frames)
           top == frames[n]
           after == IF n = 0 THEN next ELSE SkipCommas(src, next)
           array == n > 0 /\ top.kind = "array"
           goesOn == array /\ after <= Len(src) /\ src[after] # "]"
           end == Len(Bytes(d)) + Len(text)
           taken == [top EXCEPT !.key = NoKey,
                       !.members = SetMember(@, top.key, top.from, end)]
           tokens == IF goesOn THEN text \o Punct(",") ELSE text
           new == IF goesOn THEN t \o Punct(",") ELSE t
           X == C[n] \o new
           D == [i \in 0..n |-> IF i = n THEN X ELSE C[i]]
           Q == [i \in 1..(n + 1) |-> IF i = n + 1 THEN after ELSE P[i]]
<1>1. n \in Nat /\ Len(src) \in Nat /\ (n = 0 <=> frames = << >>) /\ d \in Nat
  BY EmptySeq
<1>2. /\ Write(d, tokens)
      /\ pos' = after
      /\ stack' = IF n = 0 \/ array THEN frames ELSE [frames EXCEPT ![n] = taken]
      /\ phase' = IF n = 0 THEN "end" ELSE phase
  BY DEF Deliver
<1>3. /\ stack' \in Seq(Frame) /\ Len(stack') = n
      /\ \A i \in 1..n : stack'[i].kind = frames[i].kind
  <2>1. Place(src) = 1..(Len(src) + 1)
    BY DEF Place
  <2> QED
    BY <2>1, Delivered
<1>4. /\ C[n] \in Seq(Token) /\ P[n + 1] = here /\ C[0] = Already
      /\ n # 0 => P[n] \in Place(src) \cup {0} /\ C[n - 1] \in Seq(Token)
      /\ n # 0 => Fits(src, limit, C, P, n, top)
      /\ P[1] = IF frames # << >> /\ frames[1].kind = "elided" THEN 0 ELSE SkipCommas(src, 1)
  <2>1. n \in 0..n /\ (n # 0 => n \in 1..n /\ n \in 1..(n + 1) /\ n - 1 \in 0..n)
    BY <1>1
  <2> QED
    BY <2>1 DEF Layout
<1>5. phase \in {"value", "elided"}
  BY DEF Reading
<1>6. CASE n = 0
  <2>1. tokens = text /\ after = next /\ phase' = "end"
    BY <1>1, <1>2, <1>6
  <2>2. d = 0
    BY <1>1, <1>6, ShapeEmpty
  <2>3. here = SkipCommas(src, 1)
    BY <1>1, <1>4, <1>6
  <2> HIDE DEF tokens, after, n
  <2>4. dst' = Already \o t
    <3>1. dst' = dst \o text
      BY <1>2, <2>1, <2>2 DEF Write
    <3>2. dst \o text = C[n] \o t
      BY <2>2 DEF Content, n
    <3> QED
      BY <1>4, <1>6, <3>1, <3>2
  <2>5. pos' = next /\ Value(0, SkipCommas(src', 1), pos', t) \in Reads(src', limit')
    BY <1>2, <1>6, <2>1, <2>3 DEF n
  <2> QED
    BY <2>1, <2>4, <2>5 DEF MeaningInv, Live, Reading
<1>7. CASE n # 0
  <2>1. phase' \in {"value", "elided"}
    BY <1>2, <1>5, <1>7
  <2>2. SUFFICES ASSUME Live'
                 PROVE  \E C2, P2 : /\ Layout(stack', pos', C2, P2, src, limit)
                                    /\ Filled(stack', C2, dst', scratch')
    BY <2>1 DEF MeaningInv
  <2>3. n \in 1..n /\ n - 1 \in 0..n /\ n - 1 # n /\ n \in 0..n /\ n \in 1..(n + 1)
        /\ n # n + 1 /\ n + 1 \in 1..(n + 1)
    BY <1>1, <1>7
  <2>4. after = SkipCommas(src, next) /\ after \in Place(src)
    BY <1>7, Places
  <2>5. top \in Frame
    BY <2>3
  <2>6. array => after <= Len(src)
    <3>1. ASSUME array PROVE after <= Len(src)
      <4>1. stack' = frames /\ stack' # << >>
        BY <1>1, <1>2, <1>7, <3>1
      <4>2. InArray'
        BY <1>3, <3>1, <4>1 DEF InArray, Top
      <4>3. pos' <= Len(src)
        BY <2>2, <4>2 DEF Live
      <4> QED
        BY <1>2, <4>3
    <3> QED
      BY <3>1
  <2>7. array <=> top.kind = "array"
    BY <1>1, <1>7
  <2>8. /\ D[n] = X /\ D[n - 1] = C[n - 1] /\ Q[n] = P[n] /\ Q[n + 1] = after
        /\ \A i \in 0..n : D[i] = IF i = n THEN X ELSE C[i]
        /\ \A i \in 1..(n + 1) : Q[i] = IF i = n + 1 THEN after ELSE P[i]
    <3> HIDE DEF X, after, n
    <3> QED
      BY <2>3
  <2>9. text \o Punct(",") \in Seq(Token) /\ t \o Punct(",") \in Seq(Token)
        /\ tokens \in Seq(Token) /\ new \in Seq(Token) /\ X \in Seq(Token)
    <3>1. text \o Punct(",") \in Seq(Token) /\ t \o Punct(",") \in Seq(Token)
      BY CommaBehind
    <3> HIDE DEF goesOn
    <3>2. tokens \in Seq(Token) /\ new \in Seq(Token)
      BY <3>1
    <3> HIDE DEF tokens, new
    <3>3. X \in Seq(Token)
      BY <1>4, <3>2, ConcatProperties
    <3> QED
      BY <3>1, <3>2, <3>3
  <2>10. Content(dst, scratch, d) \in Seq(Token)
    <3>1. d # 0 => scratch[d] \in Seq(Token)
      BY <1>1, ElementOfSeq
    <3> QED
      BY <3>1 DEF Content
  <2>11. Content(dst, scratch, d) \o tokens = X
    <3> HIDE DEF goesOn
    <3>1. CASE goesOn
      <4>1. Punct(",") \in Seq(Token)
        BY Tokens
      <4>2. Content(dst, scratch, d) \o text = C[n] \o t
        OBVIOUS
      <4> HIDE DEF n
      <4>3. BehindAlike(Content(dst, scratch, d), text, C[n], t, Punct(","))
        BY <1>4, <2>10, <4>1, <4>2, PutBehind, Zenon
      <4>4. tokens = text \o Punct(",") /\ new = t \o Punct(",")
        BY <3>1
      <4> HIDE DEF tokens, new
      <4> QED
        BY <4>3, <4>4, Zenon DEF BehindAlike
    <3>2. CASE ~goesOn
      BY <3>2
    <3> QED
      BY <3>1, <3>2
  <2>12. Fits(src, limit, D, Q, n, stack'[n])
    <3>1. CASE array
      <4>1. stack'[n] = top /\ top.kind = "array"
        BY <1>2, <3>1
      <4>2. ArrayFits(src, limit, C, P, n)
        BY <1>4, <1>7, <4>1 DEF Fits
      <4>3. new = IF src[SkipCommas(src, next)] # "]" THEN t \o Punct(",") ELSE t
        BY <2>4, <2>6, <3>1
      <4> HIDE DEF n, top, after, array, goesOn, new, D, Q
      <4>4. /\ P[n + 1] \in Place(src) /\ ~Starts(src, P[n + 1], {"]"})
            /\ Value(n, P[n + 1], next, t) \in Reads(src, limit)
            /\ SkipCommas(src, next) <= Len(src)
            /\ Q[n + 1] = SkipCommas(src, next)
        BY <1>4, <2>4, <2>6, <2>8, <3>1 DEF n
      <4>5. D[n] = C[n] \o (IF src[SkipCommas(src, next)] # "]" THEN t \o Punct(",") ELSE t)
        BY <2>8, <4>3
      <4>6. ArrayFits(src, limit, D, Q, n)
        BY <1>1, <1>4, <1>7, <2>8, <4>2, <4>4, <4>5, ArrayTakes
      <4> QED
        BY <4>1, <4>6 DEF Fits
    <3>2. CASE ~array
      <4>1. stack' = [frames EXCEPT ![n] = taken] /\ top.kind # "array" /\ top.key # NoKey
        BY <1>1, <1>2, <1>7, <2>7, <3>2
      <4>2. stack'[n] = taken
        <5> HIDE DEF taken
        <5> QED
          BY <2>3, <4>1
      <4>3. ObjectFits(src, limit, C, P, n, top)
        BY <1>4, <1>7, <4>1 DEF Fits
      <4>4. new = t
        BY <3>2
      <4>5. top.from = Len(C[n])
        BY <4>1, <4>3 DEF ObjectFits
      <4>6. end = Len(C[n] \o t)
        <5>1. Bytes(d) = Content(dst, scratch, d)
          BY DEF Bytes, Content
        <5>2. Len(Content(dst, scratch, d) \o text) = Len(Content(dst, scratch, d)) + Len(text)
          BY <2>10, ConcatProperties
        <5> QED
          BY <5>1, <5>2
      <4> DEFINE m == SetMember(top.members, top.key, top.from, end)
      <4>7. taken = [top EXCEPT !.key = NoKey, !.members = m]
        BY Zenon
      <4> HIDE DEF taken, m
      <4>8. taken.kind = top.kind /\ taken.key = NoKey /\ taken.members = m
        BY <2>5, <4>1, <4>7, TakenFields
      <4> HIDE DEF n, top, after, array, goesOn, new, D, Q, end
      <4>9. m = SetMember(top.members, top.key, top.from, Len(C[n] \o t))
        BY <4>6 DEF m
      <4>10. P[n + 1] \in Nat /\ Value(n, P[n + 1], next, t) \in Reads(src, limit)
             /\ Q[n + 1] = SkipCommas(src, next) /\ D[n] = C[n] \o t
        BY <1>4, <2>4, <2>8, <4>4, Places DEF n
      <4>11. ObjectFits(src, limit, D, Q, n, taken)
        <5>1. /\ n \in Nat /\ top \in Frame /\ top.kind # "array" /\ top.key # NoKey
              /\ C[n] \in Seq(Token) /\ P[n] \in Place(src) \cup {0}
              /\ ObjectFits(src, limit, C, P, n, top)
              /\ P[n + 1] \in Nat /\ Value(n, P[n + 1], next, t) \in Reads(src, limit)
              /\ Q[n] = P[n] /\ Q[n + 1] = SkipCommas(src, next) /\ D[n] = C[n] \o t
              /\ taken.kind = top.kind /\ taken.key = NoKey
              /\ taken.members = SetMember(top.members, top.key, top.from, Len(C[n] \o t))
          BY <1>1, <1>4, <1>7, <2>5, <2>8, <4>1, <4>3, <4>8, <4>9, <4>10
        <5> QED
          BY <5>1, ObjectTakes
      <4> QED
        BY <4>1, <4>2, <4>8, <4>11 DEF Fits
    <3> QED
      BY <3>1, <3>2
  <2>13. \A i \in 1..n : i # n => stack'[i] = frames[i]
    <3>1. CASE array
      BY <1>2, <3>1
    <3>2. CASE ~array
      <4>1. stack' = [frames EXCEPT ![n] = taken]
        BY <1>2, <1>7, <3>2
      <4> HIDE DEF taken
      <4> QED
        BY <4>1
    <3> QED
      BY <3>1, <3>2
  <2>14. frames # << >> /\ stack' # << >>
    BY <1>1, <1>3, <1>7
  <2> HIDE DEF n, top, after, array, goesOn, new, D, Q, end, tokens, X, taken
  <2>15. Layout(frames, here, C, P, src, limit) /\ Len(frames) = n
    BY DEF n
  <2>18. /\ TopChanged(frames, stack')
         /\ AllBut(C, D, 0, n, X) /\ AllBut(P, Q, 1, n + 1, after)
    BY <1>3, <2>8, <2>13, <2>14, <2>15 DEF TopChanged, AllBut
  <2>16. Layout(stack', after, D, Q, src, limit)
    <3>1. /\ n \in Nat /\ n # 0 /\ Len(frames) = n /\ Len(stack') = n
          /\ Layout(frames, here, C, P, src, limit) /\ X \in Seq(Token) /\ after \in Place(src)
          /\ Fits(src, limit, D, Q, n, stack'[n])
      BY <1>1, <1>3, <1>7, <2>4, <2>9, <2>12, <2>15
    <3> QED
      BY <2>18, <3>1, LayoutTaken
  <2>17. Filled(stack', D, dst', scratch')
    <3>1. /\ n \in Nat /\ n # 0 /\ Len(frames) = n /\ Len(stack') = n
          /\ stack' \in Seq(Frame) /\ tokens \in Seq(Token) /\ Write(d, tokens)
          /\ Below(frames, C, dst, scratch)
          /\ AllBut(C, D, 0, n, Content(dst, scratch, d) \o tokens)
      BY <1>1, <1>2, <1>3, <1>7, <2>9, <2>11, <2>15, <2>18
    <3> QED
      BY <2>18, <3>1, FilledTaken
  <2> QED
    BY <1>2, <2>16, <2>17
<1> QED
  BY <1>6, <1>7

\* The innermost buffer, and those around it.
LEMMA FilledInside ==
  ASSUME NEW s \in Seq(Frame), NEW d \in Nat, Shaped(s, d), NEW C, NEW out, NEW buffers,
         Filled(s, C, out, buffers)
  PROVE  Content(out, buffers, d) = C[Len(s)] /\ Below(s, C, out, buffers)
<1>1. Len(s) \in Nat /\ Len(s) \in 0..Len(s)
  OBVIOUS
<1>2. Content(out, buffers, d) = C[Len(s)]
  BY <1>1 DEF Filled, Shaped
<1>3. \A i \in 0..(Len(s) - 1) : i \in 0..Len(s)
  BY <1>1
<1>4. Below(s, C, out, buffers)
  BY <1>3 DEF Filled, Below
<1> QED
  BY <1>2, <1>4

\* A word is no closing bracket.
LEMMA WordIsNoBracket ==
  /\ \A s, i : IsWord(s, i) => ~Starts(s, i, {"]"})
  /\ \A s, i : Starts(s, i, Open) => ~Starts(s, i, {"]"})
  /\ \A w \in Scanned : w # NoKey
  BY WordAssumption DEF IsWord, Starts, Scanned, Open, Close, NoKey

\* What is around the innermost container.
LEMMA OuterMeaning ==
  ASSUME WriterInv, stack # << >>, Top.kind # "elided",
         NEW C, NEW P, Layout(stack, pos, C, P, src, limit), Filled(stack, C, dst, scratch)
  PROVE  LET n == Len(Outer)
         IN  /\ Len(stack) = n + 1 /\ n \in Nat
             /\ Layout(Outer, P[n + 1], C, P, src, limit)
             /\ Below(Outer, C, dst, scratch)
             /\ Fits(src, limit, C, P, n + 1, Top) /\ P[n + 1 + 1] = pos
             /\ C[n] \in Seq(Token) /\ C[n + 1] \in Seq(Token)
             /\ Content(dst, scratch, depth) = C[n + 1]
             /\ Top.kind # "array" => Content(dst, scratch, depth - 1) = C[n]
<1> DEFINE t == Outer
           n == Len(Outer)
           e == IF Top.kind = "array" THEN depth ELSE depth - 1
<1>1. Popped(Outer, e) /\ Top.out = e
  BY OuterKept
<1>2. /\ t \in Seq(Frame) /\ n \in Nat /\ Len(stack) = n + 1 /\ stack[n + 1] = Top
      /\ \A i \in 1..n : t[i] = stack[i]
  <2>1. t \in Seq(Frame) /\ n \in Nat /\ n = Len(stack) - 1 /\ \A i \in 1..n : t[i] = stack[i]
    BY <1>1 DEF Popped
  <2>2. Len(stack) \in Nat
    BY Parts
  <2> HIDE DEF t, n
  <2>3. Len(stack) = n + 1
    BY <2>1, <2>2
  <2> QED
    BY <2>1, <2>3 DEF Top
<1>3. stack \in Seq(Frame) /\ depth \in Nat /\ Shaped(stack, depth)
  BY Parts
<1>4. Content(dst, scratch, depth) = C[n + 1] /\ Below(stack, C, dst, scratch)
  BY <1>2, <1>3, FilledInside
<1> HIDE DEF t, n
<1>5. \A i \in 0..n : Level(t, i) = Level(stack, i)
  <2> TAKE i \in 0..n
  <2>1. i \in Nat /\ \A k \in 1..i : t[k].kind = stack[k].kind
    BY <1>2
  <2> QED
    BY <2>1, LevelOfKinds
<1>6. Below(t, C, dst, scratch)
  <2> SUFFICES ASSUME NEW i \in 0..(n - 1), t[i + 1].kind # "array"
               PROVE  Content(dst, scratch, Level(t, i)) = C[i]
    BY DEF Below, n, t
  <2>1. i \in 0..n /\ i \in 0..(n + 1 - 1) /\ i + 1 \in 1..n
    BY <1>2
  <2>2. stack[i + 1].kind # "array"
    BY <1>2, <2>1
  <2>3. Content(dst, scratch, Level(stack, i)) = C[i]
    BY <1>2, <1>4, <2>1, <2>2 DEF Below
  <2> QED
    BY <1>5, <2>1, <2>3
<1>7. ASSUME Top.kind # "array" PROVE Content(dst, scratch, depth - 1) = C[n]
  <2>1. Level(t, n) = depth - 1
    BY <1>1, <1>7 DEF Popped, Shaped, n, t
  <2>2. n \in 0..(n + 1 - 1) /\ n \in 0..n
    BY <1>2
  <2> QED
    BY <1>2, <1>4, <1>5, <1>7, <2>1, <2>2 DEF Below
<1>8. /\ \A i \in 0..(n + 1) : C[i] \in Seq(Token)
      /\ \A i \in 1..(n + 1 + 1) : P[i] \in Place(src) \cup {0}
      /\ C[0] = Already
      /\ P[1] = IF stack # << >> /\ stack[1].kind = "elided" THEN 0 ELSE SkipCommas(src, 1)
      /\ P[n + 1 + 1] = pos
      /\ \A i \in 1..(n + 1) : Fits(src, limit, C, P, i, stack[i])
  BY <1>2 DEF Layout
<1>9. /\ \A i \in 0..n : i \in 0..(n + 1)
      /\ \A i \in 1..(n + 1) : i \in 1..(n + 1 + 1)
      /\ \A i \in 1..n : i \in 1..(n + 1)
      /\ n + 1 \in 1..(n + 1) /\ n \in 0..n /\ n + 1 \in 0..(n + 1)
  BY <1>2
<1>10. P[1] = IF t # << >> /\ t[1].kind = "elided" THEN 0 ELSE SkipCommas(src, 1)
  <2>1. CASE n = 0
    <3>1. t = << >>
      BY <1>2, <2>1, EmptySeq DEF n, t
    <3>2. stack[1].kind # "elided"
      BY <1>2, <2>1
    <3> QED
      BY <1>8, <3>1, <3>2
  <2>2. CASE n # 0
    <3>1. t # << >>
      <4>1. Len(<< >>) = 0
        OBVIOUS
      <4> QED
        BY <2>2, <4>1, Zenon DEF n, t
    <3>2. 1 \in 1..n
      BY <1>2, <2>2
    <3>3. t[1] = stack[1]
      BY <1>2, <3>2
    <3> QED
      BY <1>8, <3>1, <3>3
  <2> QED
    BY <2>1, <2>2
<1>11. Layout(t, P[n + 1], C, P, src, limit)
  <2>1. Len(t) = n
    BY DEF n, t
  <2>2. \A i \in 1..n : Fits(src, limit, C, P, i, t[i])
    BY <1>2, <1>8, <1>9
  <2> QED
    BY <1>8, <1>9, <1>10, <2>1, <2>2 DEF Layout
<1> QED
  BY <1>2, <1>4, <1>6, <1>7, <1>8, <1>9, <1>11 DEF n, t

\* What the reader knows while it reads.
LEMMA ReadingFacts ==
  ASSUME WriterInv, Reading
  PROVE  /\ nesting = Len(stack) /\ pos \in Place(src)
         /\ phase \in {"value", "elided"}
         /\ stack # << >> => Len(stack) # 0 /\ Len(stack) \in 1..Len(stack)
<1>1. phase \in {"value", "elided"}
  BY DEF Reading
<1>2. nesting = Len(stack)
  BY <1>1 DEF WriterInv, OpenWhileReading, Results
<1>3. pos \in Place(src)
  BY Parts DEF Place
<1>4. stack # << >> => Len(stack) # 0 /\ Len(stack) \in 1..Len(stack)
  BY Parts, EmptySeq
<1> QED
  BY <1>1, <1>2, <1>3, <1>4

\* A scalar.
LEMMA WriteWordMeaning ==
  ASSUME WriterInv, MeaningInv, WriteWord
  PROVE  MeaningInv'
<1> DEFINE text == << <<"word", src[pos]>> >>
           n == Len(stack)
<1>1. /\ Reading /\ ValueDue /\ IsWord(src, pos) /\ pos <= Len(src) /\ src[pos] \in Scanned
      /\ Deliver(stack, Target, text, pos + 1)
      /\ src' = src /\ limit' = limit
  BY DEF WriteWord, IsWord
<1>2. text \in Seq(Token)
  BY <1>1, Tokens
<1> HIDE DEF text
<1>3. Deliver(stack, depth, text, pos + 1)
  BY <1>1, TargetInnermost
<1>4. stack # << >> /\ stack[Len(stack)].kind # "array" => stack[Len(stack)].key # NoKey
  BY <1>1 DEF ValueDue, InArray, InObject, Top
<1>5. PICK C, P : Layout(stack, pos, C, P, src, limit) /\ Filled(stack, C, dst, scratch)
  <2>1. Live
    BY <1>1 DEF Live
  <2> QED
    BY <2>1 DEF MeaningInv
<1>6. /\ stack \in Seq(Frame) /\ n \in Nat /\ depth \in Nat /\ depth \in 0..Len(scratch)
      /\ Shaped(stack, depth) /\ Held(stack, scratch) /\ Waiting(stack)
      /\ src \in Seq(Lexeme) /\ limit \in Nat /\ dst \in Seq(Token) /\ dst # << >>
      /\ scratch \in Seq(Seq(Token))
  BY Parts
<1>7. Content(dst, scratch, depth) = C[n] /\ Below(stack, C, dst, scratch)
  BY <1>5, <1>6, FilledInside
<1>8. pos \in Place(src) /\ pos + 1 \in Place(src)
  BY <1>1, <1>6, ReadingFacts, Places
<1>9. Value(n, pos, pos + 1, text) \in Reads(src, limit)
  <2>1. WordRule(Reads(src, limit), src)
    BY <1>6, ReadsRules DEF Rules
  <2> QED
    BY <1>1, <1>6, <1>8, <2>1 DEF WordRule, text
<1>10. ~Starts(src, pos, {"]"})
  BY <1>1, WordIsNoBracket
<1>11. Content(dst, scratch, depth) \o text = C[n] \o text
  BY <1>7
<1> QED
  BY <1>1, <1>2, <1>3, <1>4, <1>5, <1>6, <1>7, <1>8, <1>9, <1>10, <1>11, DeliverMeaning

\* The end of an array.
LEMMA CloseArrayMeaning ==
  ASSUME WriterInv, MeaningInv, CloseArray
  PROVE  MeaningInv'
<1> DEFINE n == Len(Outer)
           here == pos
<1>1. /\ Reading /\ stack # << >> /\ Top.kind = "array" /\ pos <= Len(src)
      /\ Starts(src, pos, {"]"})
      /\ Deliver(Outer, Top.out, Punct("]"), pos + 1)
      /\ src' = src /\ limit' = limit
  BY DEF CloseArray, InArray, Starts
<1>2. Popped(Outer, depth) /\ Top.out = depth
  BY <1>1, OuterKept
<1>3. Punct("]") \in Seq(Token) /\ Punct("[") \in Seq(Token)
  BY Tokens DEF Close, Open
<1>4. PICK C, P : Layout(stack, pos, C, P, src, limit) /\ Filled(stack, C, dst, scratch)
  <2>1. Live
    BY <1>1 DEF Live
  <2> QED
    BY <2>1 DEF MeaningInv
<1>5. /\ n \in Nat /\ Layout(Outer, P[n + 1], C, P, src, limit)
      /\ Below(Outer, C, dst, scratch)
      /\ Fits(src, limit, C, P, n + 1, Top) /\ P[n + 1 + 1] = pos
      /\ C[n] \in Seq(Token) /\ C[n + 1] \in Seq(Token)
      /\ Content(dst, scratch, depth) = C[n + 1]
  <2>1. Top.kind # "elided"
    BY <1>1
  <2> QED
    BY <1>1, <1>4, <2>1, OuterMeaning
<1>6. PICK v \in Seq(Seq(Token)) :
        /\ P[n + 1] \in Place(src) /\ Starts(src, P[n + 1], {"["})
        /\ ArrayUpTo(n + 1, P[n + 1], P[n + 1 + 1], v) \in Reads(src, limit)
        /\ C[n + 1] = C[(n + 1) - 1] \o Punct("[") \o Separated(v)
                        \o (IF Starts(src, P[n + 1 + 1], {"]"}) THEN << >> ELSE Comma(v))
  <2>1. ArrayFits(src, limit, C, P, n + 1)
    BY <1>1, <1>5, Zenon DEF Fits
  <2> QED
    BY <2>1, Zenon DEF ArrayFits
<1>7. Separated(v) \in Seq(Token) /\ ArrayText(v) \in Seq(Token)
  BY SeparatedAppend, ArrayTextType
<1>8. C[n + 1] = C[n] \o Punct("[") \o Separated(v)
  <2>1. (n + 1) - 1 = n
    BY <1>5
  <2>2. C[n + 1] = C[n] \o Punct("[") \o Separated(v) \o << >>
    BY <1>1, <1>5, <1>6, <2>1
  <2>3. C[n] \o Punct("[") \in Seq(Token)
    BY <1>3, <1>5, ConcatProperties
  <2>4. C[n] \o Punct("[") \o Separated(v) \in Seq(Token)
    BY <1>7, <2>3, ConcatProperties
  <2> QED
    BY <2>2, <2>4, ConcatEmptySeq
<1> HIDE DEF n
<1>9. C[n + 1] \o Punct("]") = C[n] \o ArrayText(v)
  <2> DEFINE a == C[n]
             b == Punct("[")
             s == Separated(v)
             d == Punct("]")
             q == b \o s
  <2>1. a \in Seq(Token) /\ b \in Seq(Token) /\ s \in Seq(Token) /\ d \in Seq(Token)
    BY <1>3, <1>5, <1>7
  <2>2. C[n + 1] = (a \o b) \o s /\ ArrayText(v) = q \o d
    BY <1>8 DEF ArrayText
  <2> HIDE DEF a, b, s, d
  <2>3. q \in Seq(Token)
    BY <2>1, ConcatProperties
  <2>4. (a \o b) \o s = a \o q
    BY <2>1, Joined, Zenon
  <2> HIDE DEF q
  <2>5. (a \o q) \o d = a \o (q \o d)
    BY <2>1, <2>3, Joined, Zenon
  <2>6. C[n + 1] \o d = a \o ArrayText(v)
    BY <2>2, <2>4, <2>5, Zenon
  <2> QED
    BY <2>6 DEF a, d
<1>10. /\ src \in Seq(Lexeme) /\ limit \in Nat /\ dst \in Seq(Token) /\ dst # << >>
       /\ scratch \in Seq(Seq(Token))
  BY Parts
<1>11. pos \in Place(src) /\ pos + 1 \in Place(src)
  BY <1>1, <1>10, ReadingFacts, Places
<1>12. Value(n, P[n + 1], pos + 1, ArrayText(v)) \in Reads(src, limit)
  <2>1. ArrayRule(Reads(src, limit), src, limit)
    BY <1>10, ReadsRules DEF Rules
  <2>2. ArrayUpTo(n + 1, P[n + 1], pos, v) \in Reads(src, limit)
    BY <1>5, <1>6
  <2> QED
    BY <1>1, <1>5, <1>6, <1>11, <2>1, <2>2 DEF ArrayRule
<1>13. ~Starts(src, P[n + 1], {"]"})
  BY <1>6 DEF Starts
<1>14. /\ Outer \in Seq(Frame) /\ depth \in 0..Len(scratch) /\ Shaped(Outer, depth)
       /\ Held(Outer, scratch) /\ Waiting(Outer)
       /\ Outer # << >> /\ Outer[Len(Outer)].kind # "array" => Outer[Len(Outer)].key # NoKey
  BY <1>2 DEF Popped
<1>15. Deliver(Outer, depth, Punct("]"), pos + 1)
       /\ Content(dst, scratch, depth) \o Punct("]") = C[n] \o ArrayText(v)
  BY <1>1, <1>2, <1>5, <1>9
<1> QED
  BY <1>1, <1>3, <1>5, <1>6, <1>7, <1>10, <1>11, <1>12, <1>13, <1>14, <1>15, DeliverMeaning DEF n

\* The end of an object.
LEMMA CloseObjectMeaning ==
  ASSUME WriterInv, MeaningInv, CloseObject
  PROVE  MeaningInv'
<1> DEFINE n == Len(Outer)
           text == ObjectText(Top.members, scratch[Top.own])
           e == depth - 1
<1>1. /\ Reading /\ stack # << >> /\ Top.kind = "object" /\ Top.key = NoKey
      /\ pos <= Len(src) /\ Starts(src, pos, {"}"})
      /\ Deliver(Outer, Top.out, text, pos + 1)
      /\ src' = src /\ limit' = limit
  BY DEF CloseObject, InObject, Starts
<1>2. text \in Seq(Token)
  BY <1>1, TopText
<1>3. Popped(Outer, e) /\ Top.out = e /\ Top.own = depth /\ depth \in 1..Len(scratch)
      /\ Top \in Frame
  <2>1. Top.kind # "array"
    BY <1>1
  <2> QED
    BY <1>1, <2>1, OuterKept
<1>4. PICK C, P : Layout(stack, pos, C, P, src, limit) /\ Filled(stack, C, dst, scratch)
  <2>1. Live
    BY <1>1 DEF Live, InArray
  <2> QED
    BY <2>1 DEF MeaningInv
<1>5. /\ n \in Nat /\ Layout(Outer, P[n + 1], C, P, src, limit)
      /\ Below(Outer, C, dst, scratch)
      /\ Fits(src, limit, C, P, n + 1, Top) /\ P[n + 1 + 1] = pos
      /\ C[n] \in Seq(Token) /\ C[n + 1] \in Seq(Token)
      /\ Content(dst, scratch, depth) = C[n + 1] /\ Content(dst, scratch, e) = C[n]
  <2>1. Top.kind # "elided" /\ Top.kind # "array"
    BY <1>1
  <2> QED
    BY <1>1, <1>4, <2>1, OuterMeaning
<1> HIDE DEF n
<1> DEFINE entries == Collected(Top.members, C[n + 1])
<1>6. /\ P[n + 1] \in Place(src) /\ Starts(src, P[n + 1], {"{"})
      /\ \A m \in 1..Len(Top.members) : Top.members[m].end <= Len(C[n + 1])
      /\ ObjectUpTo(n + 1, P[n + 1], pos, entries) \in Reads(src, limit)
  <2>1. ObjectFits(src, limit, C, P, n + 1, Top)
    BY <1>1, <1>5 DEF Fits
  <2> QED
    BY <1>1, <1>5, <2>1 DEF ObjectFits
<1>7. entries \in Seq(Entry)
  <2>1. Top.members \in Seq(Member)
    BY <1>1, <1>3, FrameFields
  <2> QED
    BY <1>5, <1>6, <2>1, CollectedType
<1>8. text = EntriesText(entries)
  <2>1. scratch[Top.own] = C[n + 1]
    BY <1>3, <1>5 DEF Content
  <2>2. Top.members \in Seq(Member)
    BY <1>1, <1>3, FrameFields
  <2> QED
    BY <2>1, <2>2, ObjectTextEntries
<1> HIDE DEF entries, text, e
<1>9. /\ src \in Seq(Lexeme) /\ limit \in Nat /\ dst \in Seq(Token) /\ dst # << >>
      /\ scratch \in Seq(Seq(Token))
  BY Parts
<1>10. pos \in Place(src) /\ pos + 1 \in Place(src)
  BY <1>1, <1>9, ReadingFacts, Places
<1>11. Value(n, P[n + 1], pos + 1, text) \in Reads(src, limit)
  <2>1. ObjectRule(Reads(src, limit), src, limit)
    BY <1>9, ReadsRules DEF Rules
  <2> QED
    BY <1>1, <1>5, <1>6, <1>7, <1>8, <1>10, <2>1 DEF ObjectRule
<1>12. ~Starts(src, P[n + 1], {"]"})
  BY <1>6 DEF Starts
<1>13. /\ Outer \in Seq(Frame) /\ e \in 0..Len(scratch) /\ Shaped(Outer, e)
       /\ Held(Outer, scratch) /\ Waiting(Outer)
       /\ Outer # << >> /\ Outer[Len(Outer)].kind # "array" => Outer[Len(Outer)].key # NoKey
  BY <1>3 DEF Popped
<1>14. Deliver(Outer, e, text, pos + 1)
       /\ Content(dst, scratch, e) \o text = C[n] \o text
  BY <1>1, <1>3, <1>5
<1> QED
  BY <1>1, <1>2, <1>5, <1>6, <1>9, <1>10, <1>11, <1>12, <1>13, <1>14, DeliverMeaning DEF n

\* A container opens where the reader is.
LEMMA PushMeaning ==
  ASSUME WriterInv, Reading, NEW f \in Frame, f.kind # "elided",
         stack' = Append(stack, f), pos <= Len(src), pos' = pos + 1, src' = src, limit' = limit,
         phase' = phase,
         NEW C, NEW P, Layout(stack, pos, C, P, src, limit), NEW X \in Seq(Token),
         NEW D, NEW Q, AllBut(C, D, 0, Len(stack) + 1, X),
         AllBut(P, Q, 1, Len(stack) + 1 + 1, pos + 1),
         Fits(src, limit, D, Q, Len(stack) + 1, f),
         Filled(stack', D, dst', scratch')
  PROVE  MeaningInv'
<1> DEFINE n == Len(stack)
<1>1. n \in Nat /\ stack \in Seq(Frame) /\ src \in Seq(Lexeme)
  BY Parts
<1>2. /\ Len(stack') = n + 1 /\ stack'[n + 1] = f
      /\ \A i \in 1..n : stack'[i] = stack[i]
  BY <1>1
<1>3. pos + 1 \in Place(src) /\ pos \in Place(src) /\ phase \in {"value", "elided"}
  BY <1>1, ReadingFacts, Places
<1> HIDE DEF n
<1>4. /\ \A i \in 0..n : C[i] \in Seq(Token)
      /\ \A i \in 1..(n + 1) : P[i] \in Place(src) \cup {0}
      /\ C[0] = Already
      /\ P[1] = IF stack # << >> /\ stack[1].kind = "elided" THEN 0 ELSE SkipCommas(src, 1)
      /\ \A i \in 1..n : Fits(src, limit, C, P, i, stack[i])
  BY DEF Layout, n
<1>5. /\ \A i \in 0..(n + 1) : D[i] = IF i = n + 1 THEN X ELSE C[i]
      /\ \A i \in 1..(n + 1 + 1) : Q[i] = IF i = n + 1 + 1 THEN pos + 1 ELSE P[i]
  BY DEF AllBut, n
<1>6. \A i \in 0..(n + 1) : D[i] \in Seq(Token)
  <2> TAKE i \in 0..(n + 1)
  <2>1. i # n + 1 => i \in 0..n
    BY <1>1
  <2> QED
    BY <1>4, <1>5, <2>1
<1>7. \A i \in 1..(n + 1 + 1) : Q[i] \in Place(src) \cup {0}
  <2> TAKE i \in 1..(n + 1 + 1)
  <2>1. i # n + 1 + 1 => i \in 1..(n + 1)
    BY <1>1
  <2> QED
    BY <1>3, <1>4, <1>5, <2>1
<1>8. D[0] = Already /\ Q[1] = P[1] /\ Q[n + 1 + 1] = pos + 1
  <2>1. 0 \in 0..(n + 1) /\ 0 # n + 1 /\ 1 \in 1..(n + 1 + 1) /\ 1 # n + 1 + 1
        /\ n + 1 + 1 \in 1..(n + 1 + 1)
    BY <1>1
  <2> QED
    BY <1>4, <1>5, <2>1
<1>9. Q[1] = IF stack' # << >> /\ stack'[1].kind = "elided" THEN 0 ELSE SkipCommas(src, 1)
  <2>1. CASE n = 0
    <3>1. stack = << >>
      BY <1>1, <2>1, EmptySeq DEF n
    <3>2. stack'[1].kind # "elided"
      BY <1>2, <2>1
    <3> QED
      BY <1>4, <1>8, <3>1, <3>2
  <2>2. CASE n # 0
    <3>1. stack # << >> /\ stack' # << >>
      <4>1. Len(<< >>) = 0 /\ n + 1 # 0
        BY <1>1
      <4> QED
        BY <1>2, <2>2, <4>1, Zenon DEF n
    <3>2. 1 \in 1..n
      BY <1>1, <2>2
    <3>3. stack'[1] = stack[1]
      BY <1>2, <3>2
    <3> QED
      BY <1>4, <1>8, <3>1, <3>3
  <2> QED
    BY <2>1, <2>2
<1>10. ASSUME NEW i \in 1..(n + 1) PROVE Fits(src, limit, D, Q, i, stack'[i])
  <2>1. CASE i = n + 1
    BY <1>2, <2>1 DEF n
  <2>2. CASE i # n + 1
    <3>1. i \in 1..n /\ i \in 0..(n + 1) /\ i - 1 \in 0..(n + 1) /\ i - 1 # n + 1
          /\ i \in 1..(n + 1 + 1) /\ i # n + 1 + 1
          /\ i + 1 \in 1..(n + 1 + 1) /\ i + 1 # n + 1 + 1
      BY <1>1, <2>2
    <3>2. C[i] = D[i] /\ C[i - 1] = D[i - 1] /\ P[i] = Q[i] /\ P[i + 1] = Q[i + 1]
      BY <1>5, <2>2, <3>1
    <3>3. Fits(src, limit, C, P, i, stack'[i])
      BY <1>2, <1>4, <3>1
    <3> QED
      BY <3>2, <3>3, FitsKept
  <2> QED
    BY <2>1, <2>2
<1>11. Layout(stack', pos', D, Q, src', limit')
  BY <1>2, <1>6, <1>7, <1>8, <1>9, <1>10 DEF Layout
<1> QED
  BY <1>3, <1>11 DEF MeaningInv

\* What is known when a container opens.
LEMMA OpensWhere ==
  ASSUME WriterInv, MeaningInv, Reading, ValueDue, Starts(src, pos, Open)
  PROVE  \E C, P : /\ Layout(stack, pos, C, P, src, limit)
                   /\ Content(dst, scratch, depth) = C[Len(stack)]
                   /\ Below(stack, C, dst, scratch)
                   /\ C[Len(stack)] \in Seq(Token) /\ P[Len(stack) + 1] = pos
<1>1. pos <= Len(src)
  BY DEF Starts
<1>2. Live
  BY <1>1 DEF Live
<1>3. PICK C, P : Layout(stack, pos, C, P, src, limit) /\ Filled(stack, C, dst, scratch)
  BY <1>2 DEF MeaningInv
<1>4. Content(dst, scratch, depth) = C[Len(stack)] /\ Below(stack, C, dst, scratch)
  BY <1>3, Parts, FilledInside
<1>5. C[Len(stack)] \in Seq(Token) /\ P[Len(stack) + 1] = pos
  <2>1. Len(stack) \in 0..Len(stack)
    BY Parts
  <2> QED
    BY <1>3, <2>1 DEF Layout
<1> QED
  BY <1>3, <1>4, <1>5

\* An array opens.
LEMMA OpenArrayMeaning ==
  ASSUME WriterInv, WriterInv', MeaningInv, OpenArray
  PROVE  MeaningInv'
<1> DEFINE n == Len(stack)
           f == [kind |-> "array", out |-> Target]
           text == IF pos = Len(src) THEN << >> ELSE Punct("[")
<1>1. /\ Reading /\ ValueDue /\ pos <= Len(src) /\ Starts(src, pos, {"["})
      /\ ~TooDeep(nesting, limit) /\ pos' = pos + 1 /\ phase' = phase
      /\ Write(Target, text) /\ stack' = Append(stack, f)
      /\ src' = src /\ limit' = limit
  BY DEF OpenArray, Starts
<1>2. /\ n \in Nat /\ stack \in Seq(Frame) /\ src \in Seq(Lexeme) /\ limit \in Nat
      /\ dst \in Seq(Token) /\ scratch \in Seq(Seq(Token)) /\ depth \in Nat
      /\ depth \in 0..Len(scratch) /\ Shaped(stack, depth) /\ Len(src) \in Nat /\ pos \in Nat
  BY Parts
<1>3. nesting = n /\ pos \in Place(src) /\ pos + 1 \in Place(src) /\ phase \in {"value", "elided"}
  BY <1>1, <1>2, ReadingFacts, Places
<1>4. f \in Frame /\ f.kind = "array" /\ Write(depth, text)
  BY <1>1, <1>2, TargetInnermost DEF Frame
<1>5. /\ stack' \in Seq(Frame) /\ Len(stack') = n + 1 /\ stack'[n + 1] = f
      /\ \A i \in 1..n : stack'[i] = stack[i]
  <2> HIDE DEF f
  <2> QED
    BY <1>1, <1>2, <1>4
<1> HIDE DEF f, n, text
<1>6. CASE pos = Len(src)
  <2>1. stack' # << >>
    <3>1. Len(<< >>) = 0 /\ n + 1 # 0
      BY <1>2
    <3> QED
      BY <1>5, <3>1, Zenon
  <2>2. InArray'
    BY <1>4, <1>5, <2>1 DEF InArray, Top
  <2>3. ~(pos' <= Len(src'))
    BY <1>1, <1>2, <1>6
  <2>4. ~Live'
    BY <2>2, <2>3 DEF Live
  <2> QED
    BY <1>1, <1>3, <2>4 DEF MeaningInv
<1>7. CASE pos # Len(src)
  <2>1. text = Punct("[") /\ text \in Seq(Token)
    BY <1>7, Tokens DEF text, Open
  <2>2. PICK C, P : /\ Layout(stack, pos, C, P, src, limit)
                    /\ Content(dst, scratch, depth) = C[n]
                    /\ Below(stack, C, dst, scratch)
                    /\ C[n] \in Seq(Token) /\ P[n + 1] = pos
    <3>1. Starts(src, pos, Open)
      BY <1>1 DEF Starts, Open
    <3> QED
      BY <1>1, <3>1, OpensWhere DEF n
  <2> DEFINE X == C[n] \o text
             D == [i \in 0..(n + 1) |-> IF i = n + 1 THEN X ELSE C[i]]
             Q == [i \in 1..(n + 1 + 1) |-> IF i = n + 1 + 1 THEN pos + 1 ELSE P[i]]
  <2>3. X \in Seq(Token)
    BY <2>1, <2>2, ConcatProperties
  <2> HIDE DEF X
  <2>4. AllBut(C, D, 0, n + 1, X) /\ AllBut(P, Q, 1, n + 1 + 1, pos + 1)
    BY DEF AllBut
  <2> HIDE DEF D, Q
  <2>5. D[n + 1] = X /\ D[(n + 1) - 1] = C[n] /\ Q[n + 1] = pos /\ Q[n + 1 + 1] = pos + 1
    <3>1. n + 1 \in 0..(n + 1) /\ (n + 1) - 1 = n /\ n \in 0..(n + 1) /\ n # n + 1
          /\ n + 1 \in 1..(n + 1 + 1) /\ n + 1 # n + 1 + 1 /\ n + 1 + 1 \in 1..(n + 1 + 1)
      BY <1>2
    <3> QED
      BY <2>2, <2>4, <3>1 DEF AllBut
  <2>6. Fits(src, limit, D, Q, n + 1, f)
    <3>1. ArrayUpTo(n + 1, pos, pos + 1, << >>) \in Reads(src, limit)
      <4>1. ArrayRule(Reads(src, limit), src, limit)
        BY <1>2, ReadsRules DEF Rules
      <4> QED
        BY <1>1, <1>2, <1>3, <4>1 DEF ArrayRule
    <3>2. << >> \in Seq(Seq(Token)) /\ Separated(<< >>) = << >> /\ Comma(<< >>) = << >>
      <4>1. << >> \in Seq(Seq(Token))
        BY EmptySeq
      <4> QED
        BY <4>1, SeparatedAppend DEF Comma
    <3>3. X = C[n] \o Punct("[") \o Separated(<< >>)
                \o (IF Starts(src, pos + 1, {"]"}) THEN << >> ELSE Comma(<< >>))
      <4>1. X \o << >> = X
        BY <2>3, ConcatEmptySeq
      <4>2. X \o Separated(<< >>) = X
        BY <3>2, <4>1
      <4>3. (IF Starts(src, pos + 1, {"]"}) THEN << >> ELSE Comma(<< >>)) = << >>
        BY <3>2
      <4>4. X = C[n] \o Punct("[")
        BY <2>1 DEF X
      <4> QED
        BY <4>1, <4>2, <4>3, <4>4
    <3>4. ArrayFits(src, limit, D, Q, n + 1)
      <4>1. /\ Q[n + 1] \in Place(src) /\ Starts(src, Q[n + 1], {"["})
            /\ ArrayUpTo(n + 1, Q[n + 1], Q[n + 1 + 1], << >>) \in Reads(src, limit)
        BY <1>1, <1>3, <2>5, <3>1
      <4>2. D[n + 1] = D[(n + 1) - 1] \o Punct("[") \o Separated(<< >>)
                \o (IF Starts(src, Q[n + 1 + 1], {"]"}) THEN << >> ELSE Comma(<< >>))
        BY <2>5, <3>3
      <4> QED
        <5>1. PICK v \in Seq(Seq(Token)) : v = << >>
          BY <3>2
        <5>2. /\ ArrayUpTo(n + 1, Q[n + 1], Q[n + 1 + 1], v) \in Reads(src, limit)
              /\ D[n + 1] = D[(n + 1) - 1] \o Punct("[") \o Separated(v)
                   \o (IF Starts(src, Q[n + 1 + 1], {"]"}) THEN << >> ELSE Comma(v))
          BY <4>1, <4>2, <5>1
        <5> QED
          BY <4>1, <5>2, Zenon DEF ArrayFits
    <3> QED
      BY <1>4, <3>4 DEF Fits
  <2>7. Filled(stack', D, dst', scratch')
    <3> SUFFICES ASSUME NEW i \in 0..(n + 1), i = n + 1 \/ stack'[i + 1].kind # "array"
                 PROVE  Content(dst', scratch', Level(stack', i)) = D[i]
      BY <1>5 DEF Filled
    <3>1. i # n
      BY <1>4, <1>5
    <3>2. CASE i = n + 1
      <4>1. Level(stack', n + 1) = depth
        <5>1. Level(stack', n + 1) = Level(stack', n)
          <6>1. n + 1 \in 0..Len(stack') /\ n + 1 > 0 /\ (n + 1) - 1 = n
            BY <1>2, <1>5
          <6>2. Level(stack', n + 1) = Level(stack', (n + 1) - 1) + 0 /\ Level(stack', n) \in Nat
            <7>1. n \in 0..Len(stack')
              BY <1>2, <1>5
            <7> QED
              BY <1>4, <1>5, <6>1, <7>1, LevelStep
          <6> QED
            BY <6>1, <6>2
        <5>2. Level(stack', n) = Level(stack, n)
          <6>1. \A k \in 1..n : stack'[k].kind = stack[k].kind
            BY <1>5
          <6> QED
            BY <1>2, <6>1, LevelOfKinds
        <5> QED
          BY <1>2, <5>1, <5>2 DEF Shaped, n
      <4>2. Content(dst', scratch', depth) = Content(dst, scratch, depth) \o text
        BY <1>2, <1>4, <2>1, WrittenContent
      <4> QED
        BY <2>2, <2>5, <3>2, <4>1, <4>2 DEF X
    <3>3. CASE i # n + 1
      <4>1. i \in 0..n /\ i \in 0..(n - 1) /\ i \in Nat /\ i + 1 \in 1..n /\ i # n
        BY <1>2, <3>1, <3>3
      <4>2. stack[i + 1].kind # "array"
        BY <1>5, <3>3, <4>1
      <4>3. Level(stack', i) = Level(stack, i)
        <5>1. \A k \in 1..i : stack'[k].kind = stack[k].kind
          <6>1. \A k \in 1..i : k \in 1..n
            BY <1>2, <4>1
          <6> QED
            BY <1>5, <6>1
        <5> QED
          BY <4>1, <5>1, LevelOfKinds
      <4>4. Level(stack, i) \in 0..depth /\ Level(stack, i) # depth
        <5>1. i \in 0..Len(stack) /\ i # Len(stack)
          BY <4>1 DEF n
        <5> QED
          BY <1>2, <4>2, <5>1, LevelInUse
      <4>5. Content(dst', scratch', Level(stack, i)) = Content(dst, scratch, Level(stack, i))
        <5>1. Level(stack, i) \in 0..Len(scratch)
          <6>1. Len(scratch) \in Nat
            BY Parts
          <6> QED
            BY <1>2, <4>4, <6>1
        <5> QED
          BY <1>2, <1>4, <2>1, <4>4, <5>1, WrittenContent
      <4>6. Content(dst, scratch, Level(stack, i)) = C[i]
        BY <2>2, <4>1, <4>2 DEF Below, n
      <4>7. D[i] = C[i]
        BY <2>4, <3>3 DEF AllBut
      <4> QED
        BY <4>3, <4>5, <4>6, <4>7
    <3> QED
      BY <3>2, <3>3
  <2>8. f.kind # "elided" /\ stack' = Append(stack, f)
    BY <1>1, <1>4
  <2> QED
    BY <1>1, <1>4, <2>2, <2>3, <2>4, <2>6, <2>7, <2>8, PushMeaning DEF n
<1> QED
  BY <1>6, <1>7

\* There are no places up to 0.
LEMMA NoneUpToZero == 1..0 = {}
  OBVIOUS

\* An object that has just opened.
LEMMA FreshObjectFits ==
  ASSUME NEW text \in Seq(Lexeme), NEW max \in Nat, NEW D, NEW Q, NEW n \in Nat, NEW f,
         D[n] \in Seq(Token), f.members = << >>, f.key = NoKey,
         f.kind = "object" => Q[n] \in Place(text) /\ Starts(text, Q[n], {"{"}),
         Q[n + 1] \in Place(text),
         ObjectUpTo(n, Q[n], Q[n + 1], << >>) \in Reads(text, max)
  PROVE  ObjectFits(text, max, D, Q, n, f)
<1>1. << >> \in Seq(Member) /\ Len(<< >>) = 0
  BY EmptySeq
<1>2. 1..Len(f.members) = {}
  <2>1. 1..0 = {}
    BY NoneUpToZero, Zenon
  <2>2. Len(f.members) = 0
    BY <1>1, Zenon
  <2> QED
    BY <2>1, <2>2, Zenon
<1>3. Collected(f.members, D[n]) \in Seq(Entry) /\ Len(Collected(f.members, D[n])) = 0
  <2>1. f.members \in Seq(Member) /\ Len(f.members) = 0
    BY <1>1, Zenon
  <2> QED
    BY <1>2, <2>1, CollectedType
<1>4. Collected(f.members, D[n]) = << >>
  BY <1>3, EmptySeq
<1> QED
  BY <1>2, <1>4 DEF ObjectFits

\* An object opens.
LEMMA OpenObjectMeaning ==
  ASSUME WriterInv, WriterInv', MeaningInv, OpenObject
  PROVE  MeaningInv'
<1> DEFINE n == Len(stack)
           f == ObjectFrame("object", Target)
<1>1. /\ Reading /\ ValueDue /\ pos <= Len(src) /\ Starts(src, pos, {"{"})
      /\ ~TooDeep(nesting, limit) /\ pos' = pos + 1 /\ phase' = phase
      /\ scratch' = NextScratch /\ depth' = depth + 1 /\ stack' = Append(stack, f)
      /\ src' = src /\ limit' = limit /\ dst' = dst
  BY DEF OpenObject, Starts
<1>2. /\ n \in Nat /\ stack \in Seq(Frame) /\ src \in Seq(Lexeme) /\ limit \in Nat
      /\ dst \in Seq(Token) /\ scratch \in Seq(Seq(Token)) /\ depth \in Nat
      /\ depth \in 0..Len(scratch) /\ Shaped(stack, depth)
  BY Parts
<1>3. nesting = n /\ pos \in Place(src) /\ pos + 1 \in Place(src)
  BY <1>1, <1>2, ReadingFacts, Places
<1>4. f = [kind |-> "object", out |-> depth, own |-> depth + 1, members |-> << >>,
           key |-> NoKey, from |-> 0]
  BY TargetInnermost DEF ObjectFrame
<1> HIDE DEF f
<1>5. f \in Frame
  <2>1. << >> \in Seq(Member) /\ depth + 1 \in Nat
    BY <1>2, EmptySeq
  <2> QED
    BY <1>2, <1>4, <2>1 DEF Frame
<1>6. /\ stack' \in Seq(Frame) /\ Len(stack') = n + 1 /\ stack'[n + 1] = f
      /\ \A i \in 1..n : stack'[i] = stack[i]
  <2>1. stack' = Append(stack, f)
    BY <1>1
  <2> QED
    BY <1>2, <1>5, <2>1
<1> HIDE DEF n
<1>7. PICK C, P : /\ Layout(stack, pos, C, P, src, limit)
                  /\ Content(dst, scratch, depth) = C[n]
                  /\ Below(stack, C, dst, scratch)
                  /\ C[n] \in Seq(Token) /\ P[n + 1] = pos
  <2>1. Starts(src, pos, Open)
    BY <1>1 DEF Starts, Open
  <2> QED
    BY <1>1, <2>1, OpensWhere DEF n
<1> DEFINE D == [i \in 0..(n + 1) |-> IF i = n + 1 THEN << >> ELSE C[i]]
           Q == [i \in 1..(n + 1 + 1) |-> IF i = n + 1 + 1 THEN pos + 1 ELSE P[i]]
<1>8. << >> \in Seq(Token)
  BY EmptySeq
<1>9. AllBut(C, D, 0, n + 1, << >>) /\ AllBut(P, Q, 1, n + 1 + 1, pos + 1)
  BY DEF AllBut
<1> HIDE DEF D, Q
<1>10. D[n + 1] = << >> /\ D[n] = C[n] /\ Q[n + 1] = pos /\ Q[n + 1 + 1] = pos + 1
  <2>1. n + 1 \in 0..(n + 1) /\ n \in 0..(n + 1) /\ n # n + 1
        /\ n + 1 \in 1..(n + 1 + 1) /\ n + 1 # n + 1 + 1 /\ n + 1 + 1 \in 1..(n + 1 + 1)
    BY <1>2
  <2> QED
    BY <1>7, <1>9, <2>1 DEF AllBut
<1>11. Fits(src, limit, D, Q, n + 1, f)
  <2>1. ObjectUpTo(n + 1, pos, pos + 1, << >>) \in Reads(src, limit)
    <3>1. ObjectRule(Reads(src, limit), src, limit)
      BY <1>2, ReadsRules DEF Rules
    <3> QED
      BY <1>1, <1>2, <1>3, <3>1 DEF ObjectRule
  <2>2. f.kind = "object" /\ f.members = << >> /\ f.key = NoKey /\ n + 1 \in Nat
    BY <1>2, <1>4
  <2>3. ObjectFits(src, limit, D, Q, n + 1, f)
    BY <1>1, <1>2, <1>3, <1>8, <1>10, <2>1, <2>2, FreshObjectFits
  <2> QED
    BY <2>2, <2>3 DEF Fits
<1>12. /\ scratch'[depth + 1] = << >>
       /\ \A b \in 1..depth : scratch'[b] = scratch[b]
  BY <1>1, <1>2, NextBuffer
<1>13. \A b \in 0..depth : Content(dst', scratch', b) = Content(dst, scratch, b)
  <2> TAKE b \in 0..depth
  <2>1. b = 0 \/ b \in 1..depth
    BY <1>2
  <2> QED
    BY <1>1, <1>12, <2>1 DEF Content
<1>14. Filled(stack', D, dst', scratch')
  <2> SUFFICES ASSUME NEW i \in 0..(n + 1), i = n + 1 \/ stack'[i + 1].kind # "array"
               PROVE  Content(dst', scratch', Level(stack', i)) = D[i]
    BY <1>6 DEF Filled
  <2>1. CASE i = n + 1
    <3>1. Level(stack', n + 1) = depth + 1
      BY <1>1, <1>6, Parts DEF WriterInv, Shaped
    <3> QED
      BY <1>2, <1>10, <1>12, <2>1, <3>1 DEF Content
  <2>2. CASE i # n + 1
    <3>1. i \in 0..n /\ i \in Nat
      BY <1>2, <2>2
    <3>2. Level(stack', i) = Level(stack, i)
      <4>1. \A k \in 1..i : k \in 1..n
        BY <1>2, <3>1
      <4>2. \A k \in 1..i : stack'[k].kind = stack[k].kind
        BY <1>6, <4>1
      <4> QED
        BY <3>1, <4>2, LevelOfKinds
    <3>3. /\ Level(stack, i) \in 0..depth
          /\ i = n => Level(stack, i) = depth
      BY <1>2, <3>1, LevelInUse DEF n
    <3>4. Content(dst, scratch, Level(stack, i)) = C[i]
      <4>1. CASE i = n
        BY <1>7, <3>3, <4>1
      <4>2. CASE i # n
        <5>1. i + 1 \in 1..n /\ i \in 0..(n - 1)
          BY <1>2, <3>1, <4>2
        <5>2. stack[i + 1].kind # "array"
          BY <1>6, <2>2, <5>1
        <5> QED
          BY <1>7, <5>1, <5>2 DEF Below, n
      <4> QED
        BY <4>1, <4>2
    <3>5. D[i] = C[i]
      BY <1>9, <2>2 DEF AllBut
    <3> QED
      BY <1>13, <3>2, <3>3, <3>4, <3>5
  <2> QED
    BY <2>1, <2>2
<1>15. f.kind # "elided"
  BY <1>4
<1> QED
  BY <1>1, <1>5, <1>7, <1>8, <1>9, <1>11, <1>14, <1>15, PushMeaning DEF n

\* A key.
LEMMA ReadKeyMeaning ==
  ASSUME WriterInv, WriterInv', MeaningInv, ReadKey
  PROVE  MeaningInv'
<1> DEFINE n == Len(stack)
           f == stack'[n]
<1>1. /\ Reading /\ stack # << >> /\ Top.kind # "array" /\ Top.key = NoKey
      /\ IsWord(src, pos) /\ pos <= Len(src) /\ src[pos] \in Scanned /\ pos' = pos + 1
      /\ src' = src /\ limit' = limit /\ dst' = dst
      /\ scratch' = scratch /\ phase' = phase
  BY DEF ReadKey, InObject, IsWord
<1>2. /\ stack' \in Seq(Frame) /\ Len(stack') = n
      /\ \A i \in 1..n : i # n => stack'[i] = stack[i]
      /\ f.kind = Top.kind /\ f.members = Top.members
      /\ f.key = src[pos] /\ f.from = Len(scratch[depth])
      /\ Top.own = depth /\ depth # 0
  BY KeyRead
<1>3. /\ n \in Nat /\ stack \in Seq(Frame) /\ src \in Seq(Lexeme) /\ limit \in Nat
      /\ depth \in Nat /\ Shaped(stack, depth) /\ n # 0 /\ n \in 1..n /\ Top = stack[n]
  BY <1>1, Parts, ReadingFacts DEF Top
<1>4. pos \in Place(src) /\ pos + 1 \in Place(src) /\ pos \in Nat /\ phase \in {"value", "elided"}
  BY <1>1, <1>3, ReadingFacts, Places
<1>5. PICK C, P : Layout(stack, pos, C, P, src, limit) /\ Filled(stack, C, dst, scratch)
  <2>1. Live
    BY <1>1 DEF Live, InArray
  <2> QED
    BY <2>1 DEF MeaningInv
<1> HIDE DEF n, f
<1>6. Content(dst, scratch, depth) = C[n]
  BY <1>3, <1>5, FilledInside DEF n
<1>7. C[n] \in Seq(Token) /\ P[n + 1] = pos /\ Fits(src, limit, C, P, n, Top)
  <2>1. n \in 0..n
    BY <1>3
  <2> QED
    BY <1>3, <1>5, <2>1 DEF Layout, n
<1> DEFINE Q == [i \in 1..(n + 1) |-> IF i = n + 1 THEN pos + 1 ELSE P[i]]
<1>8. AllBut(C, C, 0, n, C[n]) /\ AllBut(P, Q, 1, n + 1, pos + 1)
  BY DEF AllBut
<1> HIDE DEF Q
<1>9. Q[n] = P[n] /\ Q[n + 1] = pos + 1
  <2>1. n \in 1..(n + 1) /\ n # n + 1 /\ n + 1 \in 1..(n + 1)
    BY <1>3
  <2> QED
    BY <1>8, <2>1 DEF AllBut
<1>10. Fits(src, limit, C, Q, n, f)
  <2>1. ObjectFits(src, limit, C, P, n, Top)
    BY <1>1, <1>7 DEF Fits
  <2>2. /\ Top.kind = "object" => P[n] \in Place(src) /\ Starts(src, P[n], {"{"})
        /\ \A m \in 1..Len(Top.members) : Top.members[m].end <= Len(C[n])
        /\ ObjectUpTo(n, P[n], pos, Collected(Top.members, C[n])) \in Reads(src, limit)
    BY <1>1, <1>7, <2>1 DEF ObjectFits
  <2>3. f.key # NoKey
    BY <1>1, <1>2, WordIsNoBracket
  <2>4. Q[n + 1] - 1 = pos
    BY <1>4, <1>9
  <2>5. f.from = Len(C[n])
    BY <1>2, <1>6 DEF Content
  <2>6. ObjectFits(src, limit, C, Q, n, f)
    BY <1>1, <1>2, <1>4, <1>9, <2>2, <2>3, <2>4, <2>5 DEF ObjectFits
  <2> QED
    BY <1>1, <1>2, <2>6 DEF Fits
<1>11. TopChanged(stack, stack')
  <2>1. stack' # << >>
    <3>1. Len(<< >>) = 0
      OBVIOUS
    <3> QED
      BY <1>2, <1>3, <3>1, Zenon
  <2>2. \A i \in 1..n : stack'[i].kind = stack[i].kind
    BY <1>2, <1>3 DEF f
  <2> QED
    BY <1>1, <1>2, <2>1, <2>2 DEF TopChanged, n
<1>12. Layout(stack', pos', C, Q, src', limit')
  <2>1. Len(stack) = n
    BY DEF n
  <2> QED
    BY <1>1, <1>3, <1>4, <1>5, <1>7, <1>8, <1>10, <1>11, <2>1, LayoutTaken DEF f
<1>13. Filled(stack', C, dst', scratch')
  <2> SUFFICES ASSUME NEW i \in 0..n, i = n \/ stack'[i + 1].kind # "array"
               PROVE  Content(dst, scratch, Level(stack', i)) = C[i]
    BY <1>1, <1>2 DEF Filled
  <2>1. i \in Nat /\ \A k \in 1..i : k \in 1..n
    BY <1>3
  <2>2. \A k \in 1..n : stack'[k].kind = stack[k].kind
    BY <1>11 DEF TopChanged, n
  <2>3. Level(stack', i) = Level(stack, i)
    BY <2>1, <2>2, LevelOfKinds
  <2>4. i = n \/ stack[i + 1].kind # "array"
    <3>1. i # n => i + 1 \in 1..n
      BY <1>3
    <3> QED
      BY <2>2, <3>1
  <2> QED
    BY <1>5, <2>3, <2>4 DEF Filled, n
<1> QED
  BY <1>1, <1>4, <1>12, <1>13 DEF MeaningInv

\* What the caller had is a text.
LEMMA AlreadyText == Already \in Seq(Token)
<1>1. <<"already">> \in Token
  BY DEF Token, Punctuation
<1> QED
  BY <1>1 DEF Already

\* One token that is the caller's is what the caller had.
LEMMA OnlyAlready ==
  ASSUME NEW s \in Seq(Token), Len(s) = 1, s[1] = <<"already">>
  PROVE  s = Already
<1>1. Already \in Seq(Token) /\ Len(Already) = 1 /\ Already[1] = <<"already">>
  BY AlreadyText DEF Already
<1>2. \A i \in 1..1 : i = 1
  OBVIOUS
<1> QED
  BY <1>1, <1>2, SeqEqual

\* The text is read as one value, from its beginning.
LEMMA FromTheTop ==
  ASSUME WriterInv, WriterInv', stack' = << >>, pos' = SkipCommas(src, 1), src' = src,
         limit' = limit, phase' = "value", dst' = Already
  PROVE  MeaningInv'
<1> DEFINE start == SkipCommas(src, 1)
           C == [i \in 0..0 |-> Already]
           P == [i \in 1..1 |-> start]
<1>1. start \in Place(src)
  BY Parts, Places
<1> HIDE DEF start
<1>2. C[0] = Already /\ P[1] = start /\ Already \in Seq(Token)
  BY AlreadyText
<1>3. Len(<< >>) = 0 /\ (\A i \in 0..0 : i = 0) /\ (\A i \in 1..(0 + 1) : i = 1)
      /\ (\A i \in 1..0 : FALSE) /\ 0 + 1 = 1
  OBVIOUS
<1> HIDE DEF C, P
<1>4. Layout(stack', pos', C, P, src', limit')
  BY <1>1, <1>2, <1>3 DEF Layout, start
<1>5. Filled(stack', C, dst', scratch')
  <2>1. Level(stack', 0) = 0
    BY ShapeEmpty, <1>3 DEF Shaped
  <2>2. \A i \in 0..Len(stack') : Content(dst', scratch', Level(stack', i)) = C[i]
    BY <1>2, <1>3, <2>1 DEF Content
  <2> QED
    BY <2>2 DEF Filled
<1> QED
  BY <1>4, <1>5 DEF MeaningInv

\* The first lexeme decides how the text is read.
LEMMA StartTextMeaning ==
  ASSUME WriterInv, WriterInv', StartText
  PROVE  MeaningInv'
<1> DEFINE start == SkipCommas(src, 1)
           elided == start <= Len(src) /\ ~Starts(src, start, Open)
           f == ObjectFrame("elided", 0)
<1>1. phase = "start" /\ pos' = start /\ src' = src /\ limit' = limit /\ dst' = dst
      /\ phase' = IF elided THEN "elided" ELSE "value"
  BY DEF StartText
<1>2. IF elided
      THEN stack' = << f >> /\ scratch' = NextScratch /\ depth' = depth + 1
      ELSE UNCHANGED <<nesting, stack, scratch, depth, tables>>
  BY DEF StartText
<1>3. dst = Already /\ stack = << >> /\ depth = 0 /\ src \in Seq(Lexeme) /\ limit \in Nat
  <2>1. stack = << >>
    BY <1>1 DEF WriterInv, OpenWhileReading, Results
  <2> QED
    BY <1>1, <2>1, NoneInUse, Parts
<1>4. CASE ~elided
  <2>1. stack' = << >> /\ phase' = "value"
    BY <1>1, <1>2, <1>3, <1>4
  <2> QED
    BY <1>1, <1>3, <2>1, FromTheTop
<1>5. CASE elided
  <2>1. /\ f.kind = "elided" /\ f.members = << >> /\ f.key = NoKey
    BY DEF ObjectFrame
  <2>2. stack' = << f >> /\ scratch' = NextScratch /\ depth' = 1 /\ phase' = "elided"
    BY <1>1, <1>2, <1>3, <1>5
  <2>3. start \in Place(src)
    BY <1>3, Places
  <2>4. ObjectUpTo(1, 0, start, << >>) \in Reads(src, limit)
    <3>1. ObjectRule(Reads(src, limit), src, limit)
      BY <1>3, ReadsRules DEF Rules
    <3> QED
      BY <1>5, <3>1 DEF ObjectRule
  <2> DEFINE C == [i \in 0..1 |-> IF i = 0 THEN Already ELSE << >>]
             P == [i \in 1..2 |-> IF i = 1 THEN 0 ELSE start]
  <2> HIDE DEF f, start
  <2>5. /\ C[0] = Already /\ C[1] = << >> /\ P[1] = 0 /\ P[2] = start
        /\ Already \in Seq(Token) /\ << >> \in Seq(Token)
    <3>1. Already \in Seq(Token)
      BY AlreadyText
    <3>2. << >> \in Seq(Token)
      BY EmptySeq
    <3>3. C[0] = Already /\ C[1] = << >> /\ P[1] = 0 /\ P[2] = start
      OBVIOUS
    <3> QED
      BY <3>1, <3>2, <3>3
  <2> HIDE DEF C, P
  <2>6. Len(stack') = 1 /\ stack'[1] = f /\ stack' # << >>
    BY <2>2
  <2>7. ObjectFits(src, limit, C, P, 1, f)
    <3>1. 1 + 1 = 2 /\ 1 \in Nat
      OBVIOUS
    <3> QED
      BY <1>3, <2>1, <2>3, <2>4, <2>5, <3>1, FreshObjectFits
  <2>8. (\A i \in 0..1 : i = 0 \/ i = 1) /\ (\A i \in 1..(1 + 1) : i = 1 \/ i = 2)
        /\ (\A i \in 1..1 : i = 1) /\ 1 + 1 = 2 /\ 0 + 1 = 1
    OBVIOUS
  <2>9. Layout(stack', pos', C, P, src', limit')
    <3>1. Fits(src, limit, C, P, 1, f)
      BY <2>1, <2>7 DEF Fits
    <3>2. \A i \in 0..1 : C[i] \in Seq(Token)
      BY <2>5, <2>8
    <3>3. \A i \in 1..(1 + 1) : P[i] \in Place(src) \cup {0}
      BY <2>3, <2>5, <2>8
    <3>4. \A i \in 1..1 : Fits(src, limit, C, P, i, stack'[i])
      BY <2>6, <2>8, <3>1
    <3>5. P[1 + 1] = pos'
      BY <1>1, <2>5, <2>8 DEF start
    <3> QED
      BY <1>1, <2>1, <2>5, <2>6, <3>2, <3>3, <3>4, <3>5 DEF Layout
  <2>10. Filled(stack', C, dst', scratch')
    <3>1. Level(stack', 1) = 1
      BY <2>2, <2>6 DEF WriterInv, Shaped
    <3>2. Level(stack', 0) = 0
      <4>1. stack' \in Seq(Frame) /\ 0 \in 0..Len(stack')
        BY <2>6 DEF WriterInv, TypeOK
      <4> QED
        BY <4>1, LevelStep
    <3>3. scratch'[1] = << >>
      <4>1. scratch'[depth + 1] = << >>
        BY <2>2, Parts, NextBuffer
      <4> QED
        BY <1>3, <4>1
    <3>4. Content(dst', scratch', 0) = Already /\ Content(dst', scratch', 1) = << >>
      BY <1>1, <1>3, <3>3 DEF Content
    <3>5. \A i \in 0..1 : Content(dst', scratch', Level(stack', i)) = C[i]
      BY <2>5, <2>8, <3>1, <3>2, <3>4
    <3> QED
      BY <2>6, <3>5 DEF Filled
  <2> QED
    BY <2>2, <2>9, <2>10 DEF MeaningInv
<1> QED
  BY <1>4, <1>5

\* Back to the start.
LEMMA FallBackMeaning ==
  ASSUME WriterInv, WriterInv', FallBack
  PROVE  MeaningInv'
<1>1. /\ stack' = << >> /\ dst' = SubSeq(dst, 1, Len(Already)) /\ pos' = SkipCommas(src, 1)
      /\ phase' = "value" /\ src' = src /\ limit' = limit
  BY DEF FallBack
<1>2. dst' = SubSeq(dst, 1, 1)
  BY <1>1 DEF Already
<1>3. \A i \in 1..1 : dst[i] \in Token
  BY Parts, EmptySeq
<1>4. Len(dst') = 1
  BY <1>2, <1>3, SubSeqProperties
<1>5. dst' \in Seq(Token) /\ dst'[1] = <<"already">>
  BY DEF WriterInv, TypeOK, Output
<1>6. dst' = Already
  BY <1>4, <1>5, OnlyAlready
<1> QED
  BY <1>1, <1>6, FromTheTop

\* The end of a text without braces.
LEMMA FinishElidedMeaning ==
  ASSUME WriterInv, MeaningInv, FinishElided
  PROVE  MeaningInv'
<1> DEFINE text == ObjectText(Top.members, scratch[Top.own])
<1>1. /\ phase = "elided" /\ Len(stack) = 1 /\ Top.key = NoKey /\ pos > Len(src)
      /\ Write(0, text) /\ phase' = "ok" /\ src' = src /\ limit' = limit
  BY DEF FinishElided
<1>2. stack # << >> /\ Top.kind = "elided" /\ stack[1] = Top
  BY <1>1 DEF WriterInv, ElidedOutside, Top
<1>3. Top \in Frame /\ Top.own = depth /\ depth \in 1..Len(scratch)
  BY <1>2, OuterKept
<1>4. PICK C, P : Layout(stack, pos, C, P, src, limit) /\ Filled(stack, C, dst, scratch)
  <2>1. Live
    BY <1>1, <1>2 DEF Live, Reading, InArray
  <2> QED
    BY <2>1 DEF MeaningInv
<1>5. pos = Len(src) + 1
  <2>1. pos \in 1..(Len(src) + 1) /\ Len(src) \in Nat
    BY Parts
  <2> QED
    BY <1>1, <2>1
<1>6. /\ 0 \in 0..1 /\ 1 \in 0..1 /\ 1 \in 1..1 /\ 1 + 1 = 2
  OBVIOUS
<1>7. /\ C[1] \in Seq(Token) /\ P[1] = 0 /\ P[2] = pos /\ Fits(src, limit, C, P, 1, Top)
  BY <1>1, <1>2, <1>4, <1>6 DEF Layout
<1> DEFINE entries == Collected(Top.members, C[1])
<1>8. /\ \A m \in 1..Len(Top.members) : Top.members[m].end <= Len(C[1])
      /\ ObjectUpTo(1, 0, Len(src) + 1, entries) \in Reads(src, limit)
  <2>1. ObjectFits(src, limit, C, P, 1, Top)
    BY <1>2, <1>7 DEF Fits
  <2> QED
    BY <1>1, <1>5, <1>6, <1>7, <2>1 DEF ObjectFits
<1>9. Top.members \in Seq(Member)
  BY <1>2, <1>3, FrameFields
<1>10. entries \in Seq(Entry)
  BY <1>7, <1>8, <1>9, CollectedType
<1>11. scratch[Top.own] = C[1]
  <2>1. Content(dst, scratch, depth) = C[Len(stack)]
    BY <1>4, Parts, FilledInside
  <2>2. depth # 0
    BY <1>3, Parts
  <2> QED
    BY <1>1, <1>3, <2>1, <2>2 DEF Content
<1>12. text = EntriesText(entries)
  BY <1>9, <1>11, ObjectTextEntries
<1>13. text \in Seq(Token) /\ Means(src, limit, text)
  <2>1. text \in Seq(Token)
    BY <1>10, <1>12, EntriesTextType
  <2> HIDE DEF entries, text
  <2>2. Means(src, limit, text)
    BY <1>8, <1>10, <1>12 DEF Means
  <2> QED
    BY <2>1, <2>2
<1> HIDE DEF text
<1>14. dst' = Already \o text
  <2>1. dst' = dst \o text
    BY <1>1 DEF Write
  <2>2. dst = Already
    BY <1>1, Parts
  <2> QED
    BY <2>1, <2>2
<1> QED
  BY <1>1, <1>13, <1>14 DEF MeaningInv, Live, Reading

\* What follows the value decides.
LEMMA FinishValueMeaning ==
  ASSUME WriterInv, MeaningInv, NoElided(src, limit), FinishValue
  PROVE  MeaningInv'
<1>1. phase = "end" /\ pos' = SkipCommas(src, pos) /\ src' = src /\ limit' = limit
      /\ phase' = (IF pos' > Len(src) THEN "ok" ELSE "failed syntax") /\ dst' = dst
  BY DEF FinishValue
<1>2. PICK t \in Seq(Token) :
        /\ pos \in Place(src) /\ Value(0, SkipCommas(src, 1), pos, t) \in Reads(src, limit)
        /\ dst = Already \o t
  BY <1>1 DEF MeaningInv
<1>3. CASE SkipCommas(src, pos) > Len(src)
  <2>1. Means(src, limit, t)
    BY <1>2, <1>3 DEF Means
  <2>2. phase' = "ok"
    BY <1>1, <1>3
  <2> QED
    BY <1>1, <1>2, <2>1, <2>2 DEF MeaningInv, Live, Reading
<1>4. CASE ~(SkipCommas(src, pos) > Len(src))
  <2>1. phase' = "failed syntax"
    BY <1>1, <1>4
  <2> QED
    BY <2>1 DEF MeaningInv, Live, Reading
<1> QED
  BY <1>3, <1>4

\* What is on the way to an error means nothing.
LEMMA FailingMeaning ==
  ASSUME phase' \notin {"value", "elided", "end", "ok"}
  PROVE  MeaningInv'
  BY DEF MeaningInv, Live, Reading

\* Before the call nothing is read.
LEMMA InitMeaning == Init => MeaningInv
  BY DEF Init, Unread, MeaningInv, Live, Reading

\* Every step keeps what is written in step with what is read.
LEMMA StepMeaning ==
  ASSUME WriterInv, WriterInv', MeaningInv, phase = "end" => NoElided(src, limit), [Next]_vars
  PROVE  MeaningInv'
<1>1. CASE UNCHANGED vars
  <2>1. /\ src' = src /\ limit' = limit /\ pos' = pos /\ stack' = stack /\ dst' = dst
        /\ scratch' = scratch /\ phase' = phase
    BY <1>1 DEF vars
  <2>2. (Live' <=> Live)
    BY <2>1 DEF Live, Reading, InArray, Top
  <2> QED
    BY <2>1, <2>2 DEF MeaningInv
<1>2. CASE StartText
  BY <1>2, StartTextMeaning
<1>3. CASE ReadKey
  BY <1>3, ReadKeyMeaning
<1>4. CASE BadKey \/ BadValue \/ TooDeepValue
  <2>1. phase' \in {"syntax", "deep"}
    BY <1>4 DEF BadKey, BadValue, TooDeepValue, Fail
  <2> QED
    BY <2>1, FailingMeaning
<1>5. CASE WriteWord
  BY <1>5, WriteWordMeaning
<1>6. CASE OpenObject
  BY <1>6, OpenObjectMeaning
<1>7. CASE OpenArray
  BY <1>7, OpenArrayMeaning
<1>8. CASE CloseArray
  BY <1>8, CloseArrayMeaning
<1>9. CASE CloseObject
  BY <1>9, CloseObjectMeaning
<1>10. CASE FinishElided
  BY <1>10, FinishElidedMeaning
<1>11. CASE FinishValue
  BY <1>11, FinishValueMeaning DEF FinishValue
<1>12. CASE UnwindContainer \/ ElidedTooDeep \/ GiveUp
  <2>1. phase' \in {"syntax", "deep", "failed deep", "failed syntax"}
    BY <1>12 DEF UnwindContainer, ElidedTooDeep, GiveUp, Unwinding
  <2> QED
    BY <2>1, FailingMeaning
<1>13. CASE FallBack
  BY <1>13, FallBackMeaning
<1> QED
  BY <1>1, <1>2, <1>3, <1>4, <1>5, <1>6, <1>7, <1>8, <1>9, <1>10, <1>11, <1>12,
     <1>13 DEF Next

-------------------------------------------------------------------------------
\* Steps forward from a first state, each of which leaves no choice.
Steps(K, at, first, N) ==
  /\ first \in K
  /\ \A x \in K : at[x] \in Nat /\ at[first] <= at[x]
  /\ \A x, y : <<x, y>> \in N => x \in K /\ y \in K /\ at[x] < at[y]
  /\ \A x, y, z : <<x, y>> \in N /\ <<x, z>> \in N => y = z
  /\ \A x \in K : x = first \/ \E y \in K : <<y, x>> \in N

Ends(p, N) == \A z : <<p, z>> \notin N

\* They come to one end.
LEMMA OneEnd ==
  ASSUME NEW K, NEW at, NEW first, NEW N, Steps(K, at, first, N),
         NEW p \in K, Ends(p, N), NEW q \in K, Ends(q, N)
  PROVE  p = q
<1>0. /\ first \in K
      /\ \A x \in K : at[x] \in Nat /\ at[first] <= at[x]
      /\ \A x, y : <<x, y>> \in N => x \in K /\ y \in K /\ at[x] < at[y]
      /\ \A x, y, z : <<x, y>> \in N /\ <<x, z>> \in N => y = z
      /\ \A x \in K : x = first \/ \E y \in K : <<y, x>> \in N
      /\ \A z : <<p, z>> \notin N /\ <<q, z>> \notin N
  BY DEF Steps, Ends
<1> USE <1>0
<1> DEFINE Before(x, y) == \E z \in K : <<x, z>> \in N /\ at[z] <= at[y]
           Ordered(x, y) == x = y \/ Before(x, y) \/ Before(y, x)
           Bad == {n \in Nat : \E x, y \in K : at[x] + at[y] = n /\ ~Ordered(x, y)}
<1>1. ASSUME NEW x \in K, NEW y \in K, NEW y0 \in K, <<y0, y>> \in N, Ordered(x, y0)
      PROVE  x = y0 \/ Before(x, y) \/ at[y] <= at[x]
  <2>1. at[y0] < at[y] /\ at[x] \in Nat /\ at[y] \in Nat /\ at[y0] \in Nat
    BY <1>1
  <2>2. CASE x = y0
    BY <2>2
  <2>3. CASE Before(x, y0)
    <3>1. PICK z \in K : <<x, z>> \in N /\ at[z] <= at[y0]
      BY <2>3
    <3>2. at[z] \in Nat
      OBVIOUS
    <3>3. at[z] <= at[y]
      BY <2>1, <3>1, <3>2
    <3> QED
      BY <3>1, <3>3
  <2>4. CASE Before(y0, x)
    <3>1. PICK z \in K : <<y0, z>> \in N /\ at[z] <= at[x]
      BY <2>4
    <3>2. z = y
      BY <1>1, <3>1
    <3> QED
      BY <3>1, <3>2
  <2> QED
    BY <1>1, <2>2, <2>3, <2>4
<1>2. \A x \in K, y \in K : Ordered(x, y) => Ordered(y, x)
  OBVIOUS
<1>3. \A x \in K : at[x] <= at[x]
  OBVIOUS
<1>4. ASSUME NEW y \in K
      PROVE  Ordered(first, y) \/ \E y0 \in K : <<y0, y>> \in N /\ ~Ordered(first, y0)
  <2>1. CASE y = first
    BY <2>1
  <2>2. CASE y # first
    <3>1. PICK y0 \in K : <<y0, y>> \in N
      BY <2>2
    <3>2. CASE Ordered(first, y0)
      <4>1. first = y0 \/ Before(first, y) \/ at[y] <= at[first]
        BY <1>1, <3>1, <3>2
      <4>2. ~(at[y] <= at[first])
        <5>1. at[y0] < at[y] /\ at[first] <= at[y0]
          BY <3>1
        <5>2. at[y0] \in Nat /\ at[y] \in Nat /\ at[first] \in Nat
          OBVIOUS
        <5> QED
          BY <5>1, <5>2
      <4>3. first = y0 => Before(first, y)
        BY <1>3, <3>1
      <4> QED
        BY <4>1, <4>2, <4>3
    <3> QED
      BY <3>1, <3>2
  <2> QED
    BY <2>1, <2>2
<1>5. ASSUME NEW x \in K, NEW y \in K, NEW x0 \in K, NEW y0 \in K,
             <<x0, x>> \in N, <<y0, y>> \in N,
             Ordered(x0, y0), Ordered(x0, y), Ordered(x, y0)
      PROVE  Ordered(x, y)
  <2>1. at[y0] < at[y] /\ at[x0] < at[x] /\ at[x] \in Nat /\ at[y] \in Nat
        /\ at[x0] \in Nat /\ at[y0] \in Nat
    BY <1>5
  <2>2. x = y0 => Before(x, y)
    BY <1>3, <1>5
  <2>3. y = x0 => Before(y, x)
    BY <1>3, <1>5
  <2>4. x0 = y0 => x = y
    BY <1>5
  <2>5. x = y0 \/ Before(x, y) \/ at[y] <= at[x]
    BY <1>1, <1>5
  <2>6. y = x0 \/ Before(y, x) \/ at[x] <= at[y]
    BY <1>1, <1>2, <1>5
  <2>7. CASE Before(x0, y0)
    <3>1. PICK z \in K : <<x0, z>> \in N /\ at[z] <= at[y0]
      BY <2>7
    <3>2. z = x
      BY <1>5, <3>1
    <3>3. at[x] < at[y]
      BY <2>1, <3>1, <3>2
    <3>4. ~(at[y] <= at[x])
      BY <2>1, <3>3
    <3> HIDE DEF Before
    <3> QED
      BY <2>2, <2>5, <3>4
  <2>8. CASE Before(y0, x0)
    <3>1. PICK z \in K : <<y0, z>> \in N /\ at[z] <= at[x0]
      BY <2>8
    <3>2. z = y
      BY <1>5, <3>1
    <3>3. at[y] < at[x]
      BY <2>1, <3>1, <3>2
    <3>4. ~(at[x] <= at[y])
      BY <2>1, <3>3
    <3> HIDE DEF Before
    <3> QED
      BY <2>3, <2>6, <3>4
  <2> HIDE DEF Before
  <2> QED
    BY <1>5, <2>4, <2>7, <2>8
<1>6. Bad = {}
  <2> SUFFICES ASSUME Bad # {} PROVE FALSE
    OBVIOUS
  <2>1. PICK n \in Bad : \A m \in Bad : n <= m
    <3>1. Bad \subseteq Nat
      OBVIOUS
    <3> HIDE DEF Bad
    <3> QED
      BY <3>1, Least
  <2>2. PICK x \in K, y \in K : at[x] + at[y] = n /\ ~Ordered(x, y)
    OBVIOUS
  <2>3. ASSUME NEW u \in K, NEW w \in K, at[u] + at[w] < at[x] + at[y]
        PROVE  Ordered(u, w)
    <3>1. at[u] + at[w] \in Nat /\ at[x] + at[y] \in Nat
      OBVIOUS
    <3>2. ~(n <= at[u] + at[w])
      BY <2>2, <2>3, <3>1
    <3>3. at[u] + at[w] \notin Bad
      <4> HIDE DEF Bad
      <4> QED
        BY <2>1, <3>2
    <3> HIDE DEF Ordered
    <3> QED
      BY <3>1, <3>3
  <2>4. x # first
    <3>1. ASSUME x = first PROVE FALSE
      <4>1. PICK y0 \in K : <<y0, y>> \in N /\ ~Ordered(first, y0)
        <5> HIDE DEF Ordered
        <5> QED
          BY <1>4, <2>2, <3>1
      <4>2. at[first] + at[y0] < at[first] + at[y]
        <5>1. at[y0] < at[y] /\ at[y0] \in Nat /\ at[y] \in Nat /\ at[first] \in Nat
          BY <4>1
        <5> QED
          BY <5>1
      <4> HIDE DEF Ordered
      <4> QED
        BY <2>3, <3>1, <4>1, <4>2
    <3> QED
      BY <3>1
  <2>5. y # first
    <3>1. ASSUME y = first PROVE FALSE
      <4>1. PICK x0 \in K : <<x0, x>> \in N /\ ~Ordered(first, x0)
        <5>1. ~Ordered(first, x)
          BY <2>2, <3>1
        <5> HIDE DEF Ordered
        <5> QED
          BY <1>4, <5>1
      <4>2. at[x0] + at[first] < at[x] + at[first]
        <5>1. at[x0] < at[x] /\ at[x0] \in Nat /\ at[x] \in Nat /\ at[first] \in Nat
          BY <4>1
        <5> QED
          BY <5>1
      <4>3. Ordered(x0, first)
        <5> HIDE DEF Ordered
        <5> QED
          BY <2>3, <3>1, <4>2
      <4> QED
        BY <1>2, <4>1, <4>3
    <3> QED
      BY <3>1
  <2>6. PICK x0 \in K : <<x0, x>> \in N
    BY <2>4
  <2>7. PICK y0 \in K : <<y0, y>> \in N
    BY <2>5
  <2>8. /\ at[x0] + at[y0] < at[x] + at[y] /\ at[x0] + at[y] < at[x] + at[y]
        /\ at[x] + at[y0] < at[x] + at[y]
    <3>1. at[y0] < at[y] /\ at[x0] < at[x] /\ at[x] \in Nat /\ at[y] \in Nat
          /\ at[x0] \in Nat /\ at[y0] \in Nat
      BY <2>6, <2>7
    <3> QED
      BY <3>1
  <2> HIDE DEF Ordered
  <2>9. Ordered(x0, y0) /\ Ordered(x0, y) /\ Ordered(x, y0)
    BY <2>3, <2>8
  <2> QED
    BY <1>5, <2>2, <2>6, <2>7, <2>9
<1>7. Ordered(p, q)
  <2>1. at[p] + at[q] \in Nat
    OBVIOUS
  <2>2. at[p] + at[q] \notin Bad
    BY <1>6
  <2> HIDE DEF Ordered
  <2> QED
    BY <2>1, <2>2
<1> QED
  BY <1>7

\* Separators are skipped forwards.
LEMMA SkipForward ==
  ASSUME NEW text \in Seq(Lexeme), NEW k \in Place(text)
  PROVE  SkipCommas(text, k) \in Place(text) /\ k <= SkipCommas(text, k)
<1> DEFINE n == Len(text)
           j == SkipCommas(text, k)
<1>1. n \in Nat /\ k \in Nat /\ 1 <= k /\ k <= n + 1
  BY DEF Place
<1>2. j \in k..(n + 1)
  BY <1>1, SkipInText
<1> HIDE DEF n, j
<1>3. j \in 1..(n + 1) /\ k <= j
  BY <1>1, <1>2
<1> QED
  BY <1>3 DEF n, j, Place

\* Why a value can be read: it is a word, or its container was read and closes.
FromWord(text, i, j, t) == IsWord(text, i) /\ j = i + 1 /\ t = << <<"word", text[i]>> >>

FromArray(text, max, d, i, j, t) ==
  /\ Starts(text, i, {"["}) /\ ~TooDeep(d, max)
  /\ \E k \in Place(text), v \in Seq(Seq(Token)) :
       /\ ArrayUpTo(d + 1, i, k, v) \in Reads(text, max) /\ Starts(text, k, {"]"})
       /\ j = k + 1 /\ t = ArrayText(v)

FromObject(text, max, d, i, j, t) ==
  /\ Starts(text, i, {"{"}) /\ ~TooDeep(d, max)
  /\ \E k \in Place(text), e \in Seq(Entry) :
       /\ ObjectUpTo(d + 1, i, k, e) \in Reads(text, max) /\ Starts(text, k, {"}"})
       /\ j = k + 1 /\ t = EntriesText(e)

ValueGrounds(text, max, d, i, j, t) ==
  /\ i < j
  /\ FromWord(text, i, j, t) \/ FromArray(text, max, d, i, j, t)
                             \/ FromObject(text, max, d, i, j, t)

\* Why an array can be read so far: it opened, or a value was read.
AnotherValue(text, max, d, i, j, v) ==
  \E k, l \in Place(text), w \in Seq(Seq(Token)), t \in Seq(Token) :
    /\ ArrayUpTo(d, i, k, w) \in Reads(text, max) /\ Value(d, k, l, t) \in Reads(text, max)
    /\ j = SkipCommas(text, l) /\ v = Append(w, t)

ArrayGrounds(text, max, d, i, j, v) ==
  /\ Starts(text, i, {"["}) /\ i + 1 <= j
  /\ \E c \in Nat : d = c + 1 /\ ~TooDeep(c, max)
  /\ (j = i + 1 /\ v = << >>) \/ AnotherValue(text, max, d, i, j, v)

\* Likewise an object, which begins behind its brace if it has one.
FirstKey(text, i) == IF i = 0 THEN SkipCommas(text, 1) ELSE i + 1

AnotherMember(text, max, d, i, j, e) ==
  \E k, l \in Place(text), g \in Seq(Entry), t \in Seq(Token) :
    /\ ObjectUpTo(d, i, k, g) \in Reads(text, max) /\ IsWord(text, k)
    /\ Value(d, k + 1, l, t) \in Reads(text, max)
    /\ j = SkipCommas(text, l) /\ e = Put(g, text[k], t)

ObjectGrounds(text, max, d, i, j, e) ==
  /\ FirstKey(text, i) <= j
  /\ i = 0 => /\ d = 1 /\ SkipCommas(text, 1) <= Len(text)
              /\ ~Starts(text, SkipCommas(text, 1), Open)
  /\ i # 0 => /\ Starts(text, i, {"{"})
              /\ \E c \in Nat : d = c + 1 /\ ~TooDeep(c, max)
  /\ (j = FirstKey(text, i) /\ e = << >>) \/ AnotherMember(text, max, d, i, j, e)

\* The readings that have such grounds.
Grounded(text, max) ==
  LET At == Place(text)
      Sound(r) ==
        \/ \E d \in Nat, i, j \in At, t \in Seq(Token) :
             r = Value(d, i, j, t) /\ ValueGrounds(text, max, d, i, j, t)
        \/ \E d \in Nat, i, j \in At, v \in Seq(Seq(Token)) :
             r = ArrayUpTo(d, i, j, v) /\ ArrayGrounds(text, max, d, i, j, v)
        \/ \E d \in Nat, i \in At \cup {0}, j \in At, e \in Seq(Entry) :
             r = ObjectUpTo(d, i, j, e) /\ ObjectGrounds(text, max, d, i, j, e)
  IN  {r \in Reads(text, max) : Sound(r)}

\* What these readings are.
LEMMA GroundedParts ==
  ASSUME NEW text, NEW max
  PROVE  /\ \A d, i, j, t : Value(d, i, j, t) \in Grounded(text, max) <=>
              /\ d \in Nat /\ i \in Place(text) /\ j \in Place(text) /\ t \in Seq(Token)
              /\ Value(d, i, j, t) \in Reads(text, max) /\ ValueGrounds(text, max, d, i, j, t)
         /\ \A d, i, j, v : ArrayUpTo(d, i, j, v) \in Grounded(text, max) <=>
              /\ d \in Nat /\ i \in Place(text) /\ j \in Place(text) /\ v \in Seq(Seq(Token))
              /\ ArrayUpTo(d, i, j, v) \in Reads(text, max)
              /\ ArrayGrounds(text, max, d, i, j, v)
         /\ \A d, i, j, e : ObjectUpTo(d, i, j, e) \in Grounded(text, max) <=>
              /\ d \in Nat /\ i \in Place(text) \cup {0} /\ j \in Place(text) /\ e \in Seq(Entry)
              /\ ObjectUpTo(d, i, j, e) \in Reads(text, max)
              /\ ObjectGrounds(text, max, d, i, j, e)
<1> DEFINE At == Place(text)
           V(r) == \E d \in Nat, i, j \in At, t \in Seq(Token) :
                     r = Value(d, i, j, t) /\ ValueGrounds(text, max, d, i, j, t)
           A(r) == \E d \in Nat, i, j \in At, v \in Seq(Seq(Token)) :
                     r = ArrayUpTo(d, i, j, v) /\ ArrayGrounds(text, max, d, i, j, v)
           O(r) == \E d \in Nat, i \in At \cup {0}, j \in At, e \in Seq(Entry) :
                     r = ObjectUpTo(d, i, j, e) /\ ObjectGrounds(text, max, d, i, j, e)
<1>1. \A r : r \in Grounded(text, max) <=> r \in Reads(text, max) /\ (V(r) \/ A(r) \/ O(r))
  BY DEF Grounded
<1>2. \A d, i, j, x : ~A(Value(d, i, j, x)) /\ ~O(Value(d, i, j, x))
  BY DEF Value, ArrayUpTo, ObjectUpTo
<1>3. \A d, i, j, x : ~V(ArrayUpTo(d, i, j, x)) /\ ~O(ArrayUpTo(d, i, j, x))
  BY DEF Value, ArrayUpTo, ObjectUpTo
<1>4. \A d, i, j, x : ~V(ObjectUpTo(d, i, j, x)) /\ ~A(ObjectUpTo(d, i, j, x))
  BY DEF Value, ArrayUpTo, ObjectUpTo
<1>5. \A d, i, j, t : V(Value(d, i, j, t)) <=>
        /\ d \in Nat /\ i \in At /\ j \in At /\ t \in Seq(Token)
        /\ ValueGrounds(text, max, d, i, j, t)
  <2>1. \A d, i, j, t, a, b, c, u :
          Value(d, i, j, t) = Value(a, b, c, u) => d = a /\ i = b /\ j = c /\ t = u
    BY DEF Value
  <2> QED
    BY <2>1
<1>6. \A d, i, j, v : A(ArrayUpTo(d, i, j, v)) <=>
        /\ d \in Nat /\ i \in At /\ j \in At /\ v \in Seq(Seq(Token))
        /\ ArrayGrounds(text, max, d, i, j, v)
  <2>1. \A d, i, j, t, a, b, c, u :
          ArrayUpTo(d, i, j, t) = ArrayUpTo(a, b, c, u) => d = a /\ i = b /\ j = c /\ t = u
    BY DEF ArrayUpTo
  <2> QED
    BY <2>1
<1>7. \A d, i, j, e : O(ObjectUpTo(d, i, j, e)) <=>
        /\ d \in Nat /\ i \in At \cup {0} /\ j \in At /\ e \in Seq(Entry)
        /\ ObjectGrounds(text, max, d, i, j, e)
  <2>1. \A d, i, j, t, a, b, c, u :
          ObjectUpTo(d, i, j, t) = ObjectUpTo(a, b, c, u) => d = a /\ i = b /\ j = c /\ t = u
    BY DEF ObjectUpTo
  <2> DEFINE From == At \cup {0}
  <2> HIDE DEF At
  <2>2. \A r : O(r) <=> \E d \in Nat, i \in From, j \in At, e \in Seq(Entry) :
                          r = ObjectUpTo(d, i, j, e) /\ ObjectGrounds(text, max, d, i, j, e)
    OBVIOUS
  <2> HIDE DEF From, O
  <2>3. \A d, i, j, e : O(ObjectUpTo(d, i, j, e)) <=>
          /\ d \in Nat /\ i \in From /\ j \in At /\ e \in Seq(Entry)
          /\ ObjectGrounds(text, max, d, i, j, e)
    BY <2>1, <2>2
  <2> QED
    BY <2>3 DEF From
<1> HIDE DEF V, A, O
<1> QED
  BY <1>1, <1>2, <1>3, <1>4, <1>5, <1>6, <1>7 DEF At

\* The readings with grounds follow the rules.
LEMMA GroundedRules ==
  ASSUME NEW text \in Seq(Lexeme), NEW max \in Nat
  PROVE  Rules(Grounded(text, max), text, max)
<1> DEFINE G == Grounded(text, max)
           R == Reads(text, max)
           At == Place(text)
<1>1. /\ \A d, i, j, t : Value(d, i, j, t) \in G <=>
           /\ d \in Nat /\ i \in At /\ j \in At /\ t \in Seq(Token)
           /\ Value(d, i, j, t) \in R /\ ValueGrounds(text, max, d, i, j, t)
      /\ \A d, i, j, v : ArrayUpTo(d, i, j, v) \in G <=>
           /\ d \in Nat /\ i \in At /\ j \in At /\ v \in Seq(Seq(Token))
           /\ ArrayUpTo(d, i, j, v) \in R /\ ArrayGrounds(text, max, d, i, j, v)
      /\ \A d, i, j, e : ObjectUpTo(d, i, j, e) \in G <=>
           /\ d \in Nat /\ i \in At \cup {0} /\ j \in At /\ e \in Seq(Entry)
           /\ ObjectUpTo(d, i, j, e) \in R /\ ObjectGrounds(text, max, d, i, j, e)
  BY GroundedParts
<1>2. /\ \A k \in At : k \in Nat /\ k # 0
      /\ \A i \in At : i <= Len(text) => i + 1 \in At
      /\ Len(text) \in Nat
  <2>1. \A k \in At : k # 0
    BY DEF Place
  <2> QED
    BY <2>1, Places
<1>3. /\ \A k \in At : SkipCommas(text, k) \in At /\ k <= SkipCommas(text, k)
      /\ SkipCommas(text, 1) \in At
  BY SkipForward, Places
<1>4. WordRule(R, text) /\ ArrayRule(R, text, max) /\ ObjectRule(R, text, max)
  BY ReadsRules DEF Rules
<1>5. \A c \in Nat : c + 1 \in Nat /\ c < c + 1 /\ c <= c
  OBVIOUS
<1>6. << >> \in Seq(Seq(Token)) /\ << >> \in Seq(Entry) /\ 0 \in Nat /\ 1 \in Nat
  BY EmptySeq
<1>7. \A c, d \in Nat : c + 1 = d + 1 => c = d
  OBVIOUS
<1> HIDE DEF G, R, At
<1>8. WordRule(G, text)
  <2> SUFFICES ASSUME NEW d \in Nat, NEW i \in At, IsWord(text, i)
               PROVE  Value(d, i, i + 1, << <<"word", text[i]>> >>) \in G
    BY DEF WordRule, At
  <2> DEFINE t == << <<"word", text[i]>> >>
  <2>1. i <= Len(text) /\ text[i] \in Scanned
    BY DEF IsWord
  <2>2. t \in Seq(Token)
    BY <2>1, Tokens
  <2>3. FromWord(text, i, i + 1, t)
    BY DEF FromWord
  <2>4. Value(d, i, i + 1, t) \in R
    BY <1>4 DEF WordRule, At
  <2> HIDE DEF t
  <2>5. ValueGrounds(text, max, d, i, i + 1, t)
    BY <1>2, <1>5, <2>3 DEF ValueGrounds
  <2>6. Value(d, i, i + 1, t) \in G
    BY <1>1, <1>2, <2>1, <2>2, <2>4, <2>5
  <2> QED
    BY <2>6 DEF t
<1>9. ArrayRule(G, text, max)
  <2>1. ASSUME NEW d \in Nat, NEW i \in At, Starts(text, i, {"["}), ~TooDeep(d, max)
        PROVE  ArrayUpTo(d + 1, i, i + 1, << >>) \in G
    <3>1. i + 1 \in At
      BY <1>2, <2>1 DEF Starts
    <3>2. ArrayUpTo(d + 1, i, i + 1, << >>) \in R
      BY <1>4, <2>1 DEF ArrayRule, At
    <3>3. i + 1 <= i + 1
      BY <1>2, <1>5
    <3>4. ArrayGrounds(text, max, d + 1, i, i + 1, << >>)
      BY <2>1, <3>3 DEF ArrayGrounds
    <3> QED
      BY <1>1, <1>5, <1>6, <3>1, <3>2, <3>4
  <2>2. ASSUME NEW d \in Nat, NEW i \in At, NEW j \in At, NEW k \in At,
               NEW v \in Seq(Seq(Token)), NEW t \in Seq(Token),
               ArrayUpTo(d, i, j, v) \in G, Value(d, j, k, t) \in G
        PROVE  ArrayUpTo(d, i, SkipCommas(text, k), Append(v, t)) \in G
    <3> DEFINE l == SkipCommas(text, k)
               w == Append(v, t)
    <3>1. /\ ArrayUpTo(d, i, j, v) \in R /\ Value(d, j, k, t) \in R
          /\ ArrayGrounds(text, max, d, i, j, v) /\ j < k
      BY <1>1, <2>2 DEF ValueGrounds
    <3>2. l \in At /\ k <= l
      BY <1>3
    <3>3. ArrayUpTo(d, i, l, w) \in R
      BY <1>4, <3>1 DEF ArrayRule, At
    <3>4. w \in Seq(Seq(Token))
      BY AppendProperties
    <3>5. AnotherValue(text, max, d, i, l, w)
      BY <3>1 DEF AnotherValue, At, R
    <3> HIDE DEF l, w
    <3>6. i + 1 <= l
      <4>1. i + 1 <= j
        BY <3>1 DEF ArrayGrounds
      <4>2. i \in Nat /\ j \in Nat /\ k \in Nat /\ l \in Nat
        BY <1>2, <3>2
      <4> QED
        BY <3>1, <3>2, <4>1, <4>2
    <3>7. ArrayGrounds(text, max, d, i, l, w)
      BY <3>1, <3>5, <3>6 DEF ArrayGrounds
    <3>8. ArrayUpTo(d, i, l, w) \in G
      BY <1>1, <3>2, <3>3, <3>4, <3>7
    <3> QED
      BY <3>8 DEF l, w
  <2>3. ASSUME NEW d \in Nat, NEW i \in At, NEW j \in At, NEW v \in Seq(Seq(Token)),
               ArrayUpTo(d + 1, i, j, v) \in G, Starts(text, j, {"]"})
        PROVE  Value(d, i, j + 1, ArrayText(v)) \in G
    <3>1. ArrayUpTo(d + 1, i, j, v) \in R /\ ArrayGrounds(text, max, d + 1, i, j, v)
      BY <1>1, <2>3
    <3>2. j + 1 \in At /\ ArrayText(v) \in Seq(Token)
      BY <1>2, <2>3, ArrayTextType DEF Starts
    <3>3. Value(d, i, j + 1, ArrayText(v)) \in R
      BY <1>4, <2>3, <3>1 DEF ArrayRule, At
    <3>4. Starts(text, i, {"["}) /\ ~TooDeep(d, max) /\ i + 1 <= j
      BY <1>7, <3>1 DEF ArrayGrounds
    <3>5. FromArray(text, max, d, i, j + 1, ArrayText(v))
      BY <2>3, <3>1, <3>4 DEF FromArray, At, R
    <3>6. i < j + 1
      <4>1. i \in Nat /\ j \in Nat
        BY <1>2
      <4> QED
        BY <3>4, <4>1
    <3>7. ValueGrounds(text, max, d, i, j + 1, ArrayText(v))
      BY <3>5, <3>6 DEF ValueGrounds
    <3> QED
      BY <1>1, <3>2, <3>3, <3>7
  <2> QED
    BY <2>1, <2>2, <2>3 DEF ArrayRule, At
<1>10. ObjectRule(G, text, max)
  <2>1. ASSUME NEW d \in Nat, NEW i \in At, Starts(text, i, {"{"}), ~TooDeep(d, max)
        PROVE  ObjectUpTo(d + 1, i, i + 1, << >>) \in G
    <3>1. i + 1 \in At
      BY <1>2, <2>1 DEF Starts
    <3>2. ObjectUpTo(d + 1, i, i + 1, << >>) \in R
      BY <1>4, <2>1 DEF ObjectRule, At
    <3>3. i # 0 /\ FirstKey(text, i) = i + 1 /\ i + 1 <= i + 1
      BY <1>2, <1>5 DEF FirstKey
    <3>4. ObjectGrounds(text, max, d + 1, i, i + 1, << >>)
      BY <2>1, <3>3 DEF ObjectGrounds
    <3> QED
      BY <1>1, <1>5, <1>6, <3>1, <3>2, <3>4
  <2>2. ASSUME SkipCommas(text, 1) <= Len(text), ~Starts(text, SkipCommas(text, 1), Open)
        PROVE  ObjectUpTo(1, 0, SkipCommas(text, 1), << >>) \in G
    <3> DEFINE l == SkipCommas(text, 1)
    <3>1. ObjectUpTo(1, 0, l, << >>) \in R
      BY <1>4, <2>2 DEF ObjectRule
    <3>2. l \in At /\ l <= l /\ FirstKey(text, 0) = l
      BY <1>2, <1>3, <1>5 DEF FirstKey
    <3>3. ObjectGrounds(text, max, 1, 0, l, << >>)
      BY <2>2, <3>2 DEF ObjectGrounds
    <3> HIDE DEF l
    <3>4. ObjectUpTo(1, 0, l, << >>) \in G
      BY <1>1, <1>6, <3>1, <3>2, <3>3
    <3> QED
      BY <3>4 DEF l
  <2>3. ASSUME NEW d \in Nat, NEW i \in At \cup {0}, NEW j \in At, NEW k \in At,
               NEW e \in Seq(Entry), NEW t \in Seq(Token),
               ObjectUpTo(d, i, j, e) \in G, IsWord(text, j), Value(d, j + 1, k, t) \in G
        PROVE  ObjectUpTo(d, i, SkipCommas(text, k), Put(e, text[j], t)) \in G
    <3> DEFINE l == SkipCommas(text, k)
               g == Put(e, text[j], t)
    <3>1. /\ ObjectUpTo(d, i, j, e) \in R /\ Value(d, j + 1, k, t) \in R
          /\ ObjectGrounds(text, max, d, i, j, e) /\ j + 1 < k
      BY <1>1, <2>3 DEF ValueGrounds
    <3>2. l \in At /\ k <= l
      BY <1>3
    <3>3. ObjectUpTo(d, i, l, g) \in R
      BY <1>4, <2>3, <3>1 DEF ObjectRule, At
    <3>4. g \in Seq(Entry)
      BY <2>3, PutType DEF Entry, IsWord
    <3>5. AnotherMember(text, max, d, i, l, g)
      BY <2>3, <3>1 DEF AnotherMember, At, R
    <3> HIDE DEF l, g
    <3>6. FirstKey(text, i) <= l
      <4>1. FirstKey(text, i) <= j
        BY <3>1 DEF ObjectGrounds
      <4>2. j \in Nat /\ k \in Nat /\ l \in Nat
        BY <1>2, <3>2
      <4>3. FirstKey(text, i) \in Nat
        <5>1. CASE i = 0
          BY <1>2, <1>3, <5>1 DEF FirstKey
        <5>2. CASE i \in At
          BY <1>2, <5>2 DEF FirstKey
        <5> QED
          BY <5>1, <5>2
      <4> QED
        BY <3>1, <3>2, <4>1, <4>2, <4>3
    <3>7. ObjectGrounds(text, max, d, i, l, g)
      BY <3>1, <3>5, <3>6 DEF ObjectGrounds
    <3>8. ObjectUpTo(d, i, l, g) \in G
      BY <1>1, <3>2, <3>3, <3>4, <3>7
    <3> QED
      BY <3>8 DEF l, g
  <2>4. ASSUME NEW d \in Nat, NEW i \in At, NEW j \in At, NEW e \in Seq(Entry),
               ObjectUpTo(d + 1, i, j, e) \in G, Starts(text, j, {"}"})
        PROVE  Value(d, i, j + 1, EntriesText(e)) \in G
    <3>1. ObjectUpTo(d + 1, i, j, e) \in R /\ ObjectGrounds(text, max, d + 1, i, j, e)
      BY <1>1, <2>4
    <3>2. j + 1 \in At /\ EntriesText(e) \in Seq(Token)
      BY <1>2, <2>4, EntriesTextType DEF Starts
    <3>3. Value(d, i, j + 1, EntriesText(e)) \in R
      BY <1>4, <2>4, <3>1 DEF ObjectRule, At
    <3>4. Starts(text, i, {"{"}) /\ ~TooDeep(d, max) /\ i + 1 <= j
      <4>1. i # 0
        BY <1>2
      <4> QED
        BY <1>7, <3>1, <4>1 DEF ObjectGrounds, FirstKey
    <3>5. FromObject(text, max, d, i, j + 1, EntriesText(e))
      BY <2>4, <3>1, <3>4 DEF FromObject, At, R
    <3>6. i < j + 1
      <4>1. i \in Nat /\ j \in Nat
        BY <1>2
      <4>2. i + 1 <= j
        BY <3>4
      <4> QED
        BY <4>1, <4>2
    <3>7. ValueGrounds(text, max, d, i, j + 1, EntriesText(e))
      BY <3>5, <3>6 DEF ValueGrounds
    <3> QED
      BY <1>1, <3>2, <3>3, <3>7
  <2> QED
    BY <2>1, <2>2, <2>3, <2>4 DEF ObjectRule, At
<1> QED
  BY <1>8, <1>9, <1>10 DEF Rules, G

\* So every reading has grounds.
LEMMA Grounds ==
  ASSUME NEW text \in Seq(Lexeme), NEW max \in Nat
  PROVE  /\ \A d, i, j, t : Value(d, i, j, t) \in Reads(text, max) =>
              /\ d \in Nat /\ i \in Place(text) /\ j \in Place(text) /\ t \in Seq(Token)
              /\ ValueGrounds(text, max, d, i, j, t)
         /\ \A d, i, j, v : ArrayUpTo(d, i, j, v) \in Reads(text, max) =>
              /\ d \in Nat /\ i \in Place(text) /\ j \in Place(text) /\ v \in Seq(Seq(Token))
              /\ ArrayGrounds(text, max, d, i, j, v)
         /\ \A d, i, j, e : ObjectUpTo(d, i, j, e) \in Reads(text, max) =>
              /\ d \in Nat /\ i \in Place(text) \cup {0} /\ j \in Place(text) /\ e \in Seq(Entry)
              /\ ObjectGrounds(text, max, d, i, j, e)
<1>1. Grounded(text, max) \subseteq Judgement(text)
  BY DEF Grounded, Reads
<1>2. Reads(text, max) \subseteq Grounded(text, max)
  BY <1>1, GroundedRules DEF Reads
<1> QED
  BY <1>2, GroundedParts

\* At most one value can be read at a place, none can.
UniqueAt(text, max, i) ==
  \A d, j, k, t, u :
    Value(d, i, j, t) \in Reads(text, max) /\ Value(d, i, k, u) \in Reads(text, max)
      => j = k /\ t = u

NoneAt(text, max, d, i) == \A j, t : Value(d, i, j, t) \notin Reads(text, max)

\* An array with its values so far is one of a sequence of readings, each of
\* which leaves no choice; so it comes to one end.
LEMMA ArrayEnd ==
  ASSUME NEW text \in Seq(Lexeme), NEW max \in Nat, NEW i \in Place(text),
         \A k \in Place(text) : k > i => UniqueAt(text, max, k),
         NEW d, NEW j, NEW k, NEW v, NEW w,
         ArrayUpTo(d, i, j, v) \in Reads(text, max), NoneAt(text, max, d, j),
         ArrayUpTo(d, i, k, w) \in Reads(text, max), NoneAt(text, max, d, k)
  PROVE  j = k /\ v = w
<1> DEFINE R == Reads(text, max)
           At == Place(text)
           Values == Seq(Seq(Token))
           K == {x \in At \X Values : ArrayUpTo(d, i, x[1], x[2]) \in R}
           Follows(x, y) == \E l \in At, t \in Seq(Token) :
                              /\ Value(d, x[1], l, t) \in R
                              /\ y[1] = SkipCommas(text, l) /\ y[2] = Append(x[2], t)
           N == {z \in K \X K : Follows(z[1], z[2])}
           at == [x \in K |-> x[1]]
           first == <<i + 1, << >> >>
<1>1. \A a, u : ArrayUpTo(d, i, a, u) \in R =>
        /\ d \in Nat /\ i \in At /\ a \in At /\ u \in Values
        /\ ArrayGrounds(text, max, d, i, a, u)
  BY Grounds
<1>2. \A a, b, t : Value(d, a, b, t) \in R => a \in At /\ b \in At /\ t \in Seq(Token) /\ a < b
  BY Grounds DEF ValueGrounds
<1>3. /\ \A a \in At : a \in Nat /\ SkipCommas(text, a) \in At /\ a <= SkipCommas(text, a)
      /\ i \in Nat
  BY SkipForward, Places
<1>4. \A a, u : <<a, u>> \in K <=> ArrayUpTo(d, i, a, u) \in R
  BY <1>1
<1>5. \A x \in K : x = <<x[1], x[2]>> /\ x[1] \in At /\ ArrayUpTo(d, i, x[1], x[2]) \in R
  OBVIOUS
<1>6. \A x, y : <<x, y>> \in N <=> x \in K /\ y \in K /\ Follows(x, y)
  OBVIOUS
<1>7. \A x \in K : at[x] = x[1]
  OBVIOUS
<1> HIDE DEF R, At, Values, K, N, at
<1>8. \A x \in K : at[x] \in Nat /\ i + 1 <= at[x]
  BY <1>1, <1>3, <1>5, <1>7 DEF ArrayGrounds
<1>9. first \in K
  <2>1. PICK c \in Nat : d = c + 1 /\ ~TooDeep(c, max)
    BY <1>1 DEF ArrayGrounds, R
  <2>2. Starts(text, i, {"["})
    BY <1>1 DEF ArrayGrounds, R
  <2>3. ArrayUpTo(c + 1, i, i + 1, << >>) \in R
    BY <2>1, <2>2, ReadsRules DEF Rules, ArrayRule, R
  <2> QED
    BY <1>4, <2>1, <2>3
<1>10. \A x \in K : at[first] <= at[x]
  BY <1>7, <1>8, <1>9
<1>11. ASSUME NEW x, NEW y, <<x, y>> \in N PROVE x \in K /\ y \in K /\ at[x] < at[y]
  <2>1. x \in K /\ y \in K /\ Follows(x, y)
    BY <1>6, <1>11
  <2>2. PICK l \in At, t \in Seq(Token) :
          Value(d, x[1], l, t) \in R /\ y[1] = SkipCommas(text, l)
    BY <2>1
  <2>3. x[1] < l /\ l <= y[1]
    BY <1>2, <1>3, <2>2
  <2>4. x[1] \in Nat /\ l \in Nat /\ y[1] \in Nat
    BY <1>3, <1>5, <2>1
  <2>5. x[1] < y[1]
    BY <2>3, <2>4
  <2> QED
    BY <1>7, <2>1, <2>5
<1>12. ASSUME NEW x, NEW y, NEW z, <<x, y>> \in N, <<x, z>> \in N PROVE y = z
  <2>1. x \in K /\ y \in K /\ z \in K /\ Follows(x, y) /\ Follows(x, z)
    BY <1>6, <1>12
  <2>2. PICK l \in At, t \in Seq(Token) :
          /\ Value(d, x[1], l, t) \in R
          /\ y[1] = SkipCommas(text, l) /\ y[2] = Append(x[2], t)
    BY <2>1
  <2>3. PICK m \in At, u \in Seq(Token) :
          /\ Value(d, x[1], m, u) \in R
          /\ z[1] = SkipCommas(text, m) /\ z[2] = Append(x[2], u)
    BY <2>1
  <2>4. UniqueAt(text, max, x[1])
    <3>1. x[1] > i /\ x[1] \in At
      <4>1. i + 1 <= x[1] /\ x[1] \in Nat
        BY <1>3, <1>5, <1>7, <1>8, <2>1
      <4>2. x[1] \in At
        BY <1>5, <2>1
      <4> QED
        BY <1>3, <4>1, <4>2
    <3> QED
      BY <3>1 DEF At
  <2>5. l = m /\ t = u
    BY <2>2, <2>3, <2>4 DEF UniqueAt, R
  <2>6. y[1] = z[1] /\ y[2] = z[2]
    BY <2>2, <2>3, <2>5
  <2> QED
    BY <1>5, <2>1, <2>6
<1>13. ASSUME NEW x \in K PROVE x = first \/ \E y \in K : <<y, x>> \in N
  <2>1. (x[1] = i + 1 /\ x[2] = << >>) \/ AnotherValue(text, max, d, i, x[1], x[2])
    BY <1>1, <1>5 DEF ArrayGrounds
  <2>2. CASE x[1] = i + 1 /\ x[2] = << >>
    BY <1>5, <2>2
  <2>3. CASE AnotherValue(text, max, d, i, x[1], x[2])
    <3>1. PICK a, l \in At, u \in Values, t \in Seq(Token) :
            /\ ArrayUpTo(d, i, a, u) \in R /\ Value(d, a, l, t) \in R
            /\ x[1] = SkipCommas(text, l) /\ x[2] = Append(u, t)
      BY <2>3 DEF AnotherValue, At, Values, R
    <3> DEFINE y == <<a, u>>
    <3>2. y \in K /\ y[1] = a /\ y[2] = u
      BY <1>4, <3>1
    <3>3. Follows(y, x)
      BY <3>1, <3>2
    <3> HIDE DEF y
    <3> QED
      BY <1>6, <3>2, <3>3
  <2> QED
    BY <2>1, <2>2, <2>3
<1>14. ASSUME NEW a, NEW u, ArrayUpTo(d, i, a, u) \in R, NoneAt(text, max, d, a)
       PROVE  <<a, u>> \in K /\ Ends(<<a, u>>, N)
  <2>1. <<a, u>> \in K
    BY <1>4, <1>14
  <2>2. \A z : ~Follows(<<a, u>>, z)
    BY <1>14 DEF NoneAt, R
  <2> QED
    BY <1>6, <2>1, <2>2 DEF Ends
<1> DEFINE p == <<j, v>>
           q == <<k, w>>
<1>15. p \in K /\ q \in K /\ Ends(p, N) /\ Ends(q, N)
  BY <1>14 DEF R
<1> HIDE DEF first, p, q
<1>16. Steps(K, at, first, N)
  BY <1>8, <1>9, <1>10, <1>11, <1>12, <1>13 DEF Steps
<1>17. p = q
  BY <1>15, <1>16, OneEnd
<1> QED
  BY <1>17 DEF p, q

\* Likewise an object: at its end there is no key, or no value behind it.
LEMMA ObjectEnd ==
  ASSUME NEW text \in Seq(Lexeme), NEW max \in Nat, NEW i \in Place(text) \cup {0},
         \A k \in Place(text) : k > i => UniqueAt(text, max, k),
         NEW d, NEW j, NEW k, NEW v, NEW w,
         ObjectUpTo(d, i, j, v) \in Reads(text, max),
         IsWord(text, j) => NoneAt(text, max, d, j + 1),
         ObjectUpTo(d, i, k, w) \in Reads(text, max),
         IsWord(text, k) => NoneAt(text, max, d, k + 1)
  PROVE  j = k /\ v = w
<1> DEFINE R == Reads(text, max)
           At == Place(text)
           Entries == Seq(Entry)
           K == {x \in At \X Entries : ObjectUpTo(d, i, x[1], x[2]) \in R}
           Follows(x, y) == \E l \in At, t \in Seq(Token) :
                              /\ IsWord(text, x[1]) /\ Value(d, x[1] + 1, l, t) \in R
                              /\ y[1] = SkipCommas(text, l) /\ y[2] = Put(x[2], text[x[1]], t)
           N == {z \in K \X K : Follows(z[1], z[2])}
           at == [x \in K |-> x[1]]
           begin == FirstKey(text, i)
           first == <<begin, << >> >>
<1>1. \A a, u : ObjectUpTo(d, i, a, u) \in R =>
        /\ d \in Nat /\ a \in At /\ u \in Entries
        /\ ObjectGrounds(text, max, d, i, a, u)
  BY Grounds
<1>2. \A a, b, t : Value(d, a, b, t) \in R => a \in At /\ b \in At /\ t \in Seq(Token) /\ a < b
  BY Grounds DEF ValueGrounds
<1>3. /\ \A a \in At : a \in Nat /\ SkipCommas(text, a) \in At /\ a <= SkipCommas(text, a)
      /\ 1 \in At
      /\ \A a \in At : a # 0
  <2>1. \A a \in At : a # 0
    BY DEF Place
  <2> QED
    BY <2>1, SkipForward, Places
<1>4. \A a, u : <<a, u>> \in K <=> ObjectUpTo(d, i, a, u) \in R
  BY <1>1
<1>5. \A x \in K : x = <<x[1], x[2]>> /\ x[1] \in At /\ ObjectUpTo(d, i, x[1], x[2]) \in R
  OBVIOUS
<1>6. \A x, y : <<x, y>> \in N <=> x \in K /\ y \in K /\ Follows(x, y)
  OBVIOUS
<1>7. \A x \in K : at[x] = x[1]
  OBVIOUS
<1> HIDE DEF R, At, Entries, K, N, at
<1>8. i \in Nat /\ begin \in Nat /\ i <= begin
  <2>1. CASE i = 0
    BY <1>3, <2>1 DEF FirstKey
  <2>2. CASE i # 0
    <3>1. i \in Nat
      BY <1>3, <2>2 DEF At
    <3> QED
      BY <2>2, <3>1 DEF FirstKey
  <2> QED
    BY <2>1, <2>2
<1> HIDE DEF begin
<1>9. \A x \in K : at[x] \in Nat /\ begin <= at[x]
  BY <1>1, <1>3, <1>5, <1>7 DEF ObjectGrounds, begin
<1>10. first \in K
  <2>1. ObjectRule(R, text, max)
    BY ReadsRules DEF Rules, R
  <2>2. ObjectGrounds(text, max, d, i, j, v)
    BY <1>1 DEF R
  <2>3. ObjectUpTo(d, i, begin, << >>) \in R
    <3>1. CASE i = 0
      <4>1. begin = SkipCommas(text, 1) /\ d = 1
        BY <2>2, <3>1 DEF begin, FirstKey, ObjectGrounds
      <4> QED
        BY <2>1, <2>2, <3>1, <4>1 DEF ObjectRule, ObjectGrounds
    <3>2. CASE i # 0
      <4>1. begin = i + 1 /\ i \in Place(text)
        BY <3>2 DEF begin, FirstKey
      <4>2. PICK c \in Nat : d = c + 1 /\ ~TooDeep(c, max)
        BY <2>2, <3>2 DEF ObjectGrounds
      <4>3. Starts(text, i, {"{"})
        BY <2>2, <3>2 DEF ObjectGrounds
      <4> QED
        BY <2>1, <4>1, <4>2, <4>3 DEF ObjectRule
    <3> QED
      BY <3>1, <3>2
  <2> QED
    BY <1>4, <2>3
<1>11. \A x \in K : at[first] <= at[x]
  BY <1>7, <1>9, <1>10
<1>12. ASSUME NEW x, NEW y, <<x, y>> \in N PROVE x \in K /\ y \in K /\ at[x] < at[y]
  <2>1. x \in K /\ y \in K /\ Follows(x, y)
    BY <1>6, <1>12
  <2>2. PICK l \in At, t \in Seq(Token) :
          Value(d, x[1] + 1, l, t) \in R /\ y[1] = SkipCommas(text, l)
    BY <2>1
  <2>3. x[1] + 1 < l /\ l <= y[1]
    BY <1>2, <1>3, <2>2
  <2>4. x[1] \in Nat /\ l \in Nat /\ y[1] \in Nat
    BY <1>3, <1>5, <2>1
  <2>5. x[1] < y[1]
    BY <2>3, <2>4
  <2> QED
    BY <1>7, <2>1, <2>5
<1>13. ASSUME NEW x, NEW y, NEW z, <<x, y>> \in N, <<x, z>> \in N PROVE y = z
  <2>1. x \in K /\ y \in K /\ z \in K /\ Follows(x, y) /\ Follows(x, z)
    BY <1>6, <1>13
  <2>2. PICK l \in At, t \in Seq(Token) :
          /\ Value(d, x[1] + 1, l, t) \in R
          /\ y[1] = SkipCommas(text, l) /\ y[2] = Put(x[2], text[x[1]], t)
    BY <2>1
  <2>3. PICK m \in At, u \in Seq(Token) :
          /\ Value(d, x[1] + 1, m, u) \in R
          /\ z[1] = SkipCommas(text, m) /\ z[2] = Put(x[2], text[x[1]], u)
    BY <2>1
  <2>4. UniqueAt(text, max, x[1] + 1)
    <3>1. x[1] + 1 > i
      <4>1. begin <= x[1] /\ x[1] \in Nat
        BY <1>3, <1>5, <1>7, <1>9, <2>1
      <4> QED
        BY <1>8, <4>1
    <3>2. x[1] + 1 \in At
      BY <1>2, <2>2
    <3> QED
      BY <3>1, <3>2 DEF At
  <2>5. l = m /\ t = u
    BY <2>2, <2>3, <2>4 DEF UniqueAt, R
  <2>6. y[1] = z[1] /\ y[2] = z[2]
    BY <2>2, <2>3, <2>5
  <2> QED
    BY <1>5, <2>1, <2>6
<1>14. ASSUME NEW x \in K PROVE x = first \/ \E y \in K : <<y, x>> \in N
  <2>1. (x[1] = begin /\ x[2] = << >>) \/ AnotherMember(text, max, d, i, x[1], x[2])
    BY <1>1, <1>5 DEF ObjectGrounds, begin
  <2>2. CASE x[1] = begin /\ x[2] = << >>
    BY <1>5, <2>2
  <2>3. CASE AnotherMember(text, max, d, i, x[1], x[2])
    <3>1. PICK a, l \in At, u \in Entries, t \in Seq(Token) :
            /\ ObjectUpTo(d, i, a, u) \in R /\ IsWord(text, a) /\ Value(d, a + 1, l, t) \in R
            /\ x[1] = SkipCommas(text, l) /\ x[2] = Put(u, text[a], t)
      BY <2>3 DEF AnotherMember, At, Entries, R
    <3> DEFINE y == <<a, u>>
    <3>2. y \in K /\ y[1] = a /\ y[2] = u
      BY <1>4, <3>1
    <3>3. Follows(y, x)
      BY <3>1, <3>2
    <3> HIDE DEF y
    <3> QED
      BY <1>6, <3>2, <3>3
  <2> QED
    BY <2>1, <2>2, <2>3
<1>15. ASSUME NEW a, NEW u, ObjectUpTo(d, i, a, u) \in R,
              IsWord(text, a) => NoneAt(text, max, d, a + 1)
       PROVE  <<a, u>> \in K /\ Ends(<<a, u>>, N)
  <2>1. <<a, u>> \in K
    BY <1>4, <1>15
  <2>2. \A z : ~Follows(<<a, u>>, z)
    BY <1>15 DEF NoneAt, R
  <2> QED
    BY <1>6, <2>1, <2>2 DEF Ends
<1> DEFINE p == <<j, v>>
           q == <<k, w>>
<1>16. p \in K /\ q \in K /\ Ends(p, N) /\ Ends(q, N)
  BY <1>15 DEF R
<1> HIDE DEF first, p, q
<1>17. Steps(K, at, first, N)
  BY <1>9, <1>10, <1>11, <1>12, <1>13, <1>14 DEF Steps
<1>18. p = q
  BY <1>16, <1>17, OneEnd
<1> QED
  BY <1>18 DEF p, q

\* What a value begins with says which kind it is.
LEMMA OneKind ==
  /\ \A s, i : IsWord(s, i) => ~Starts(s, i, {"["}) /\ ~Starts(s, i, {"{"}) /\ ~Starts(s, i, Open)
  /\ \A s, i : IsWord(s, i) => ~Starts(s, i, {"]"}) /\ ~Starts(s, i, {"}"})
  /\ \A s, i : Starts(s, i, Open) <=> Starts(s, i, {"["}) \/ Starts(s, i, {"{"})
  /\ \A s, i : Starts(s, i, {"["}) => ~Starts(s, i, {"{"})
  /\ \A s, i : Starts(s, i, Open) => ~Starts(s, i, {"]"}) /\ ~Starts(s, i, {"}"})
<1>1. \A w \in Scanned : w \notin {"[", "{", "]", "}"}
  BY WordAssumption DEF Scanned, Open, Close
<1> HIDE DEF Scanned
<1> QED
  BY <1>1 DEF IsWord, Starts, Open

\* No value begins with a closing bracket, one too deep, or a word that does not scan.
LEMMA NoValue ==
  ASSUME NEW text \in Seq(Lexeme), NEW max \in Nat, NEW d, NEW i,
         ~IsWord(text, i), Starts(text, i, Open) => TooDeep(d, max)
  PROVE  NoneAt(text, max, d, i)
<1> SUFFICES ASSUME NEW j, NEW t, Value(d, i, j, t) \in Reads(text, max) PROVE FALSE
  BY DEF NoneAt
<1>1. ValueGrounds(text, max, d, i, j, t)
  BY Grounds
<1>2. /\ Starts(text, i, {"["}) => Starts(text, i, Open)
      /\ Starts(text, i, {"{"}) => Starts(text, i, Open)
  BY OneKind
<1> QED
  BY <1>1, <1>2 DEF ValueGrounds, FromWord, FromArray, FromObject

\* A closing bracket is the end of the readings it closes.
LEMMA Closes ==
  ASSUME NEW text \in Seq(Lexeme), NEW max \in Nat, NEW d, NEW i
  PROVE  /\ Starts(text, i, {"]"}) => NoneAt(text, max, d, i)
         /\ Starts(text, i, {"}"}) => ~IsWord(text, i)
<1>1. Starts(text, i, {"]"}) => ~IsWord(text, i) /\ ~Starts(text, i, Open)
  BY OneKind
<1>2. Starts(text, i, {"}"}) => ~IsWord(text, i)
  BY OneKind
<1> QED
  BY <1>1, <1>2, NoValue

\* At each place of a text and within as many containers at most one value can
\* be read.
LEMMA Unique ==
  ASSUME NEW text \in Seq(Lexeme), NEW max \in Nat
  PROVE  \A i \in Place(text) : UniqueAt(text, max, i)
<1> DEFINE R == Reads(text, max)
           n == Len(text) + 1
           Bad == {m \in Nat : \E i \in Place(text) : m = n - i /\ ~UniqueAt(text, max, i)}
<1>1. Len(text) \in Nat /\ n \in Nat /\ \A i \in Place(text) : i \in Nat /\ i <= n /\ n - i \in Nat
  <2>1. Len(text) \in Nat
    OBVIOUS
  <2> QED
    BY <2>1 DEF Place
<1>2. Bad = {}
  <2> SUFFICES ASSUME Bad # {} PROVE FALSE
    OBVIOUS
  <2>1. PICK m \in Bad : \A k \in Bad : m <= k
    <3>1. Bad \subseteq Nat
      OBVIOUS
    <3> HIDE DEF Bad
    <3> QED
      BY <3>1, Least
  <2>2. PICK i \in Place(text) : m = n - i /\ ~UniqueAt(text, max, i)
    OBVIOUS
  <2>3. ASSUME NEW k \in Place(text), k > i PROVE UniqueAt(text, max, k)
    <3>1. n - k \in Nat /\ ~(m <= n - k)
      <4> HIDE DEF n, Bad
      <4>1. k \in Nat /\ i \in Nat /\ n \in Nat /\ n - k \in Nat
        BY <1>1
      <4> QED
        BY <2>2, <2>3, <4>1
    <3>2. n - k \notin Bad
      <4> HIDE DEF Bad
      <4> QED
        BY <2>1, <3>1
    <3> QED
      BY <3>1, <3>2
  <2>4. PICK d, j, k, t, u :
          Value(d, i, j, t) \in R /\ Value(d, i, k, u) \in R /\ ~(j = k /\ t = u)
    BY <2>2 DEF UniqueAt
  <2> HIDE DEF Bad
  <2>5. ValueGrounds(text, max, d, i, j, t) /\ ValueGrounds(text, max, d, i, k, u)
    BY <2>4, Grounds
  <2>6. CASE IsWord(text, i)
    <3>1. FromWord(text, i, j, t) /\ FromWord(text, i, k, u)
      BY <2>5, <2>6, OneKind DEF ValueGrounds, FromArray, FromObject
    <3> QED
      BY <2>4, <3>1 DEF FromWord
  <2>7. CASE Starts(text, i, {"["})
    <3>1. FromArray(text, max, d, i, j, t) /\ FromArray(text, max, d, i, k, u)
      BY <2>5, <2>7, OneKind DEF ValueGrounds, FromWord, FromObject
    <3>2. PICK a \in Place(text), v \in Seq(Seq(Token)) :
            /\ ArrayUpTo(d + 1, i, a, v) \in R /\ Starts(text, a, {"]"})
            /\ j = a + 1 /\ t = ArrayText(v)
      BY <3>1 DEF FromArray
    <3>3. PICK b \in Place(text), w \in Seq(Seq(Token)) :
            /\ ArrayUpTo(d + 1, i, b, w) \in R /\ Starts(text, b, {"]"})
            /\ k = b + 1 /\ u = ArrayText(w)
      BY <3>1 DEF FromArray
    <3>4. NoneAt(text, max, d + 1, a) /\ NoneAt(text, max, d + 1, b)
      BY <3>2, <3>3, Closes
    <3>5. a = b /\ v = w
      BY <2>3, <3>2, <3>3, <3>4, ArrayEnd
    <3> QED
      BY <2>4, <3>2, <3>3, <3>5
  <2>8. CASE Starts(text, i, {"{"})
    <3>1. FromObject(text, max, d, i, j, t) /\ FromObject(text, max, d, i, k, u)
      BY <2>5, <2>8, OneKind DEF ValueGrounds, FromWord, FromArray
    <3>2. PICK a \in Place(text), v \in Seq(Entry) :
            /\ ObjectUpTo(d + 1, i, a, v) \in R /\ Starts(text, a, {"}"})
            /\ j = a + 1 /\ t = EntriesText(v)
      BY <3>1 DEF FromObject
    <3>3. PICK b \in Place(text), w \in Seq(Entry) :
            /\ ObjectUpTo(d + 1, i, b, w) \in R /\ Starts(text, b, {"}"})
            /\ k = b + 1 /\ u = EntriesText(w)
      BY <3>1 DEF FromObject
    <3>4. ~IsWord(text, a) /\ ~IsWord(text, b)
      BY <3>2, <3>3, Closes
    <3>5. a = b /\ v = w
      BY <2>3, <3>2, <3>3, <3>4, ObjectEnd
    <3> QED
      BY <2>4, <3>2, <3>3, <3>5
  <2> QED
    BY <2>5, <2>6, <2>7, <2>8 DEF ValueGrounds, FromWord, FromArray, FromObject
<1> QED
  <2> TAKE i \in Place(text)
  <2>1. n - i \in Nat /\ n - i \notin Bad
    BY <1>1, <1>2
  <2> QED
    BY <2>1

\* Where an array cannot go on and does not close it is no value.
LEMMA ArrayStuck ==
  ASSUME NEW text \in Seq(Lexeme), NEW max \in Nat, NEW d, NEW i, NEW j, NEW v,
         ArrayUpTo(d + 1, i, j, v) \in Reads(text, max), NoneAt(text, max, d + 1, j),
         ~Starts(text, j, {"]"})
  PROVE  NoneAt(text, max, d, i)
<1> SUFFICES ASSUME NEW k, NEW t, Value(d, i, k, t) \in Reads(text, max) PROVE FALSE
  BY DEF NoneAt
<1>1. i \in Place(text) /\ Starts(text, i, {"["})
  BY Grounds DEF ArrayGrounds
<1>2. ValueGrounds(text, max, d, i, k, t)
  BY Grounds
<1>3. FromArray(text, max, d, i, k, t)
  BY <1>1, <1>2, OneKind DEF ValueGrounds, FromWord, FromObject
<1>4. PICK b \in Place(text), w \in Seq(Seq(Token)) :
        ArrayUpTo(d + 1, i, b, w) \in Reads(text, max) /\ Starts(text, b, {"]"})
  BY <1>3 DEF FromArray
<1>5. NoneAt(text, max, d + 1, b)
  BY <1>4, Closes
<1>6. j = b
  BY <1>1, <1>4, <1>5, Unique, ArrayEnd
<1> QED
  BY <1>4, <1>6

\* The object without braces has no place.
LEMMA PlaceNotZero == \A text \in Seq(Lexeme) : 0 \notin Place(text)
<1> TAKE text \in Seq(Lexeme)
<1>1. Len(text) \in Nat
  OBVIOUS
<1> QED
  BY <1>1 DEF Place

\* Likewise an object with braces.
LEMMA ObjectStuck ==
  ASSUME NEW text \in Seq(Lexeme), NEW max \in Nat, NEW d, NEW i \in Place(text), NEW j, NEW e,
         ObjectUpTo(d + 1, i, j, e) \in Reads(text, max),
         IsWord(text, j) => NoneAt(text, max, d + 1, j + 1), ~Starts(text, j, {"}"})
  PROVE  NoneAt(text, max, d, i)
<1> SUFFICES ASSUME NEW k, NEW t, Value(d, i, k, t) \in Reads(text, max) PROVE FALSE
  BY DEF NoneAt
<1>1. i # 0
  BY PlaceNotZero
<1>2. Starts(text, i, {"{"})
  BY <1>1, Grounds DEF ObjectGrounds
<1>3. ValueGrounds(text, max, d, i, k, t)
  BY Grounds
<1>4. FromObject(text, max, d, i, k, t)
  BY <1>2, <1>3, OneKind DEF ValueGrounds, FromWord, FromArray
<1>5. PICK b \in Place(text), w \in Seq(Entry) :
        ObjectUpTo(d + 1, i, b, w) \in Reads(text, max) /\ Starts(text, b, {"}"})
  BY <1>4 DEF FromObject
<1>6. ~IsWord(text, b)
  BY <1>5, Closes
<1>7. j = b
  BY <1>5, <1>6, Unique, ObjectEnd
<1> QED
  BY <1>5, <1>7

\* Likewise the object without braces.
LEMMA ElidedStuck ==
  ASSUME NEW text \in Seq(Lexeme), NEW max \in Nat, NEW j, NEW e,
         ObjectUpTo(1, 0, j, e) \in Reads(text, max),
         IsWord(text, j) => NoneAt(text, max, 1, j + 1), j <= Len(text)
  PROVE  NoElided(text, max)
<1> SUFFICES ASSUME NEW g, ObjectUpTo(1, 0, Len(text) + 1, g) \in Reads(text, max) PROVE FALSE
  BY DEF NoElided
<1>1. Len(text) \in Nat
  OBVIOUS
<1>2. ~(Len(text) + 1 <= Len(text))
  BY <1>1
<1>3. ~IsWord(text, Len(text) + 1)
  BY <1>2 DEF IsWord
<1>4. j = Len(text) + 1
  BY <1>3, Unique, ObjectEnd
<1> QED
  BY <1>2, <1>4

\* A value at p is within as many containers as are around it.  The place of
\* the object without braces is 0.
Dead(text, max, d, p) == IF p = 0 THEN NoElided(text, max) ELSE NoneAt(text, max, d, p)

\* Container i, which began at P[i], was read up to P[i + 1], or up to its key.
ArrayRead(text, max, P, i) ==
  P[i] \in Place(text) /\ \E v : ArrayUpTo(i, P[i], P[i + 1], v) \in Reads(text, max)

ObjectRead(text, max, P, i, f) ==
  LET j == IF f.key = NoKey THEN P[i + 1] ELSE P[i + 1] - 1
  IN  /\ f.kind = "object" => P[i] \in Place(text)
      /\ f.kind = "elided" => i = 1 /\ P[i] = 0
      /\ \E e : ObjectUpTo(i, P[i], j, e) \in Reads(text, max)
      /\ f.key # NoKey => IsWord(text, j)

ReadUpTo(text, max, P, i, f) ==
  IF f.kind = "array" THEN ArrayRead(text, max, P, i) ELSE ObjectRead(text, max, P, i, f)

Trail(s, here, P, text, max) ==
  /\ P[1] = IF s # << >> /\ s[1].kind = "elided" THEN 0 ELSE SkipCommas(text, 1)
  /\ P[Len(s) + 1] = here
  /\ \A i \in 1..Len(s) : ReadUpTo(text, max, P, i, s[i])

\* A value that cannot be read has no container around it either.
LEMMA AroundStuck ==
  ASSUME NEW text \in Seq(Lexeme), NEW max \in Nat, NEW P, NEW i \in Nat, i # 0,
         NEW f \in Frame, ReadUpTo(text, max, P, i, f),
         f.kind = "array" => ~Starts(text, P[i + 1], {"]"}),
         f.kind # "array" => f.key # NoKey,
         P[i + 1] \in Nat, NoneAt(text, max, i, P[i + 1])
  PROVE  Dead(text, max, i - 1, P[i])
<1> DEFINE h == i - 1
<1>1. h \in Nat /\ i = h + 1
  OBVIOUS
<1> HIDE DEF h
<1>2. CASE f.kind = "array"
  <2>1. PICK v : ArrayUpTo(h + 1, P[i], P[i + 1], v) \in Reads(text, max)
    BY <1>1, <1>2 DEF ReadUpTo, ArrayRead
  <2>2. NoneAt(text, max, h, P[i])
    BY <1>1, <1>2, <2>1, ArrayStuck
  <2>3. P[i] # 0
    BY <1>2, PlaceNotZero DEF ReadUpTo, ArrayRead
  <2> QED
    BY <2>2, <2>3 DEF Dead, h
<1>3. CASE f.kind # "array"
  <2> DEFINE j == P[i + 1] - 1
  <2>1. j + 1 = P[i + 1]
    OBVIOUS
  <2> HIDE DEF j
  <2>2. ObjectRead(text, max, P, i, f) /\ f.key # NoKey
    BY <1>3 DEF ReadUpTo
  <2>3. PICK e : ObjectUpTo(h + 1, P[i], j, e) \in Reads(text, max)
    BY <1>1, <2>2 DEF ObjectRead, j
  <2>4. IsWord(text, j) /\ ~Starts(text, j, {"}"}) /\ j <= Len(text)
    <3>1. IsWord(text, j)
      BY <2>2 DEF ObjectRead, j
    <3> QED
      BY <3>1, OneKind DEF IsWord
  <2>5. NoneAt(text, max, h + 1, j + 1)
    BY <1>1, <2>1
  <2>6. CASE f.kind = "object"
    <3>1. P[i] \in Place(text) /\ P[i] # 0
      BY <2>2, <2>6, PlaceNotZero DEF ObjectRead
    <3>2. NoneAt(text, max, h, P[i])
      BY <2>3, <2>4, <2>5, <3>1, ObjectStuck
    <3> QED
      BY <3>1, <3>2 DEF Dead, h
  <2>7. CASE f.kind = "elided"
    <3>1. i = 1 /\ P[i] = 0 /\ h + 1 = 1
      BY <1>1, <2>2, <2>7 DEF ObjectRead
    <3>2. NoElided(text, max)
      BY <2>3, <2>4, <2>5, <3>1, ElidedStuck
    <3> QED
      BY <3>1, <3>2 DEF Dead
  <2> QED
    BY <1>3, <2>6, <2>7, FrameFields
<1> QED
  BY <1>2, <1>3

\* A container around another does not end where that one begins.
LEMMA OpensInside ==
  ASSUME NEW text \in Seq(Lexeme), NEW max \in Nat, NEW P, NEW i, NEW f \in Frame,
         ReadUpTo(text, max, P, i, f), f.kind # "elided"
  PROVE  ~Starts(text, P[i], {"]"}) /\ P[i] \in Place(text) /\ P[i] \in Nat
<1>1. P[i] \in Place(text)
  BY FrameFields DEF ReadUpTo, ArrayRead, ObjectRead
<1>2. P[i] # 0 /\ P[i] \in Nat
  BY <1>1, PlaceNotZero, Places
<1>3. Starts(text, P[i], {"["}) \/ Starts(text, P[i], {"{"})
  <2>1. CASE f.kind = "array"
    BY <2>1, Grounds DEF ReadUpTo, ArrayRead, ArrayGrounds
  <2>2. CASE f.kind # "array"
    <3>1. \E j, e : ObjectUpTo(i, P[i], j, e) \in Reads(text, max)
      BY <2>2 DEF ReadUpTo, ObjectRead
    <3> QED
      BY <1>2, <3>1, Grounds DEF ObjectGrounds
  <2> QED
    BY <2>1, <2>2
<1> QED
  BY <1>1, <1>2, <1>3, OneKind

\* What cannot be read somewhere inside cannot be read from the outside.
LEMMA DeadOutside ==
  ASSUME NEW text \in Seq(Lexeme), NEW max \in Nat, NEW s \in Seq(Frame), Waiting(s),
         \A i \in 1..Len(s) : s[i].kind = "elided" => i = 1,
         NEW P, NEW here, Trail(s, here, P, text, max),
         NEW k \in 1..Len(s), Dead(text, max, k - 1, P[k])
  PROVE  Dead(text, max, 0, P[1])
<1> DEFINE n == Len(s)
           D(m) == Dead(text, max, m - 1, P[m])
           T == {m \in 1..n : D(m)}
<1>1. n \in Nat /\ \A i \in 1..n : s[i] \in Frame
  OBVIOUS
<1>2. \A i \in 1..n : ReadUpTo(text, max, P, i, s[i])
  BY DEF Trail
<1>3. \A i \in 1..(n - 1) : s[i].kind # "array" => s[i].key # NoKey
  BY DEF Waiting
<1> HIDE DEF n
<1>5. ASSUME NEW m \in 2..n, D(m) PROVE D(m - 1)
  <2> DEFINE i == m - 1
  <2>1. i \in Nat /\ i # 0 /\ i \in 1..n /\ i \in 1..(n - 1) /\ i + 1 = m /\ m \in 1..n /\ m # 1
    BY <1>1
  <2> HIDE DEF i
  <2>2. s[m].kind # "elided"
    BY <2>1 DEF n
  <2>3. ~Starts(text, P[m], {"]"}) /\ P[m] \in Place(text) /\ P[m] \in Nat /\ P[m] # 0
    <3>1. ReadUpTo(text, max, P, m, s[m]) /\ s[m] \in Frame
      BY <1>1, <1>2, <2>1
    <3> QED
      BY <2>2, <3>1, OpensInside, PlaceNotZero
  <2>4. NoneAt(text, max, i, P[i + 1])
    <3>1. NoneAt(text, max, m - 1, P[m])
      BY <1>5, <2>3 DEF Dead
    <3> QED
      BY <2>1, <3>1 DEF i
  <2>5. ReadUpTo(text, max, P, i, s[i]) /\ s[i] \in Frame
    BY <1>1, <1>2, <2>1
  <2>6. Dead(text, max, i - 1, P[i])
    BY <1>3, <2>1, <2>3, <2>4, <2>5, AroundStuck
  <2> QED
    BY <2>6 DEF i
<1>6. CASE k \in 1..n
  <2>1. T # {} /\ T \subseteq Nat
    BY <1>1, <1>6
  <2>2. PICK m \in T : \A l \in T : m <= l
    <3> HIDE DEF T
    <3> QED
      BY <2>1, Least
  <2>3. m \in 1..n /\ D(m)
    OBVIOUS
  <2>4. m = 1
    <3> SUFFICES ASSUME m # 1 PROVE FALSE
      OBVIOUS
    <3>1. m \in 2..n /\ m - 1 \in 1..n /\ ~(m <= m - 1)
      BY <1>1, <2>3
    <3>2. D(m - 1)
      <4> HIDE DEF D
      <4> QED
        BY <1>5, <2>3, <3>1
    <3> HIDE DEF D
    <3>3. m - 1 \in T
      BY <3>1, <3>2
    <3> QED
      BY <2>2, <3>1, <3>3
  <2> QED
    BY <2>3, <2>4
<1> QED
  BY <1>6 DEF n

\* A layout is a trail.
LEMMA LayoutTrail ==
  ASSUME NEW text, NEW max, NEW s \in Seq(Frame), NEW here,
         \A i \in 1..Len(s) : s[i].kind = "elided" => i = 1,
         NEW C, NEW P, Layout(s, here, C, P, text, max)
  PROVE  Trail(s, here, P, text, max)
<1>1. /\ P[1] = IF s # << >> /\ s[1].kind = "elided" THEN 0 ELSE SkipCommas(text, 1)
      /\ P[Len(s) + 1] = here
      /\ \A i \in 1..Len(s) : Fits(text, max, C, P, i, s[i])
  BY DEF Layout
<1>2. ASSUME NEW i \in 1..Len(s) PROVE ReadUpTo(text, max, P, i, s[i])
  <2>1. CASE s[i].kind = "array"
    <3>1. ArrayFits(text, max, C, P, i)
      BY <1>1, <2>1 DEF Fits
    <3>2. ArrayRead(text, max, P, i)
      BY <3>1 DEF ArrayFits, ArrayRead
    <3> QED
      BY <2>1, <3>2 DEF ReadUpTo
  <2>2. CASE s[i].kind # "array"
    <3>1. ObjectFits(text, max, C, P, i, s[i])
      BY <1>1, <2>2 DEF Fits
    <3>2. s[i].kind = "elided" => i = 1 /\ P[i] = 0
      <4>1. s # << >>
        BY EmptySeq
      <4> QED
        BY <1>1, <4>1
    <3>3. ObjectRead(text, max, P, i, s[i])
      BY <3>1, <3>2 DEF ObjectFits, ObjectRead
    <3> QED
      BY <2>2, <3>3 DEF ReadUpTo
  <2> QED
    BY <2>1, <2>2
<1> QED
  BY <1>1, <1>2 DEF Trail

\* How far a container is read is about the places next to it.
LEMMA ReadKept ==
  ASSUME NEW text, NEW max, NEW P, NEW Q, NEW i, NEW f,
         P[i] = Q[i], P[i + 1] = Q[i + 1], ReadUpTo(text, max, P, i, f)
  PROVE  ReadUpTo(text, max, Q, i, f)
<1>1. CASE f.kind = "array"
  BY <1>1 DEF ReadUpTo, ArrayRead
<1>2. CASE f.kind # "array"
  <2>1. ObjectRead(text, max, P, i, f)
    BY <1>2 DEF ReadUpTo
  <2>2. ObjectRead(text, max, Q, i, f)
    BY <2>1 DEF ObjectRead
  <2> QED
    BY <1>2, <2>2 DEF ReadUpTo
<1> QED
  BY <1>1, <1>2

\* A trail that goes on inside an array.
LEMMA TrailTaken ==
  ASSUME NEW text \in Seq(Lexeme), NEW max \in Nat, NEW s \in Seq(Frame), s # << >>,
         s[Len(s)].kind = "array", NEW here, NEW P, Trail(s, here, P, text, max),
         NEW next, NEW t, Value(Len(s), here, next, t) \in Reads(text, max)
  PROVE  \E Q : Trail(s, SkipCommas(text, next), Q, text, max)
<1> DEFINE n == Len(s)
           after == SkipCommas(text, next)
           Q == [i \in 1..(n + 1) |-> IF i = n + 1 THEN after ELSE P[i]]
<1>1. n \in Nat /\ n # 0
  BY EmptySeq
<1>2. /\ P[1] = IF s # << >> /\ s[1].kind = "elided" THEN 0 ELSE SkipCommas(text, 1)
      /\ P[n + 1] = here
      /\ \A i \in 1..n : ReadUpTo(text, max, P, i, s[i])
  BY DEF Trail
<1> HIDE DEF n, after
<1>3. \A i \in 1..(n + 1) : Q[i] = IF i = n + 1 THEN after ELSE P[i]
  OBVIOUS
<1> HIDE DEF Q
<1>4. Q[1] = P[1] /\ Q[n + 1] = after /\ Q[n] = P[n] /\ n \in 1..n
  <2>1. 1 \in 1..(n + 1) /\ 1 # n + 1 /\ n + 1 \in 1..(n + 1) /\ n \in 1..(n + 1) /\ n # n + 1
        /\ n \in 1..n
    BY <1>1
  <2> QED
    BY <1>3, <2>1
<1>5. ArrayRead(text, max, Q, n)
  <2>1. P[n] \in Place(text) /\ \E v : ArrayUpTo(n, P[n], here, v) \in Reads(text, max)
    <3>1. ReadUpTo(text, max, P, n, s[n]) /\ s[n].kind = "array"
      BY <1>2, <1>4 DEF n
    <3> QED
      BY <1>2, <3>1 DEF ReadUpTo, ArrayRead
  <2>2. PICK v : ArrayUpTo(n, P[n], here, v) \in Reads(text, max)
    BY <2>1
  <2>3. /\ v \in Seq(Seq(Token)) /\ here \in Place(text) /\ next \in Place(text)
        /\ t \in Seq(Token)
    BY <2>2, Grounds
  <2>4. ArrayUpTo(n, P[n], after, Append(v, t)) \in Reads(text, max)
    <3>1. ArrayRule(Reads(text, max), text, max)
      BY ReadsRules DEF Rules
    <3>2. Value(n, here, next, t) \in Reads(text, max)
      BY DEF n
    <3> QED
      BY <1>1, <2>1, <2>2, <2>3, <3>1, <3>2 DEF ArrayRule, after
  <2> QED
    BY <1>4, <2>1, <2>4 DEF ArrayRead
<1>6. ASSUME NEW i \in 1..n PROVE ReadUpTo(text, max, Q, i, s[i])
  <2>1. CASE i = n
    BY <1>5, <2>1 DEF ReadUpTo, n
  <2>2. CASE i # n
    <3>1. i \in 1..(n + 1) /\ i # n + 1 /\ i + 1 \in 1..(n + 1) /\ i + 1 # n + 1
      BY <1>1, <2>2
    <3> QED
      BY <1>2, <1>3, <3>1, ReadKept
  <2> QED
    BY <2>1, <2>2
<1>7. Trail(s, after, Q, text, max)
  BY <1>2, <1>4, <1>6 DEF Trail, n
<1> QED
  BY <1>7 DEF after

\* A trail that enters an array.
LEMMA TrailPushed ==
  ASSUME NEW text \in Seq(Lexeme), NEW max \in Nat, NEW s \in Seq(Frame),
         NEW f \in Frame, f.kind = "array", NEW here \in Place(text), NEW P,
         Trail(s, here, P, text, max),
         Starts(text, here, {"["}), ~TooDeep(Len(s), max)
  PROVE  \E Q : Trail(Append(s, f), here + 1, Q, text, max)
<1> DEFINE n == Len(s)
           z == Append(s, f)
           Q == [i \in 1..(n + 1 + 1) |-> IF i = n + 1 + 1 THEN here + 1 ELSE P[i]]
<1>1. n \in Nat /\ Len(z) = n + 1 /\ z[n + 1] = f /\ \A i \in 1..n : z[i] = s[i]
  OBVIOUS
<1>2. /\ P[1] = IF s # << >> /\ s[1].kind = "elided" THEN 0 ELSE SkipCommas(text, 1)
      /\ P[n + 1] = here
      /\ \A i \in 1..n : ReadUpTo(text, max, P, i, s[i])
  BY DEF Trail
<1>3. s = << >> \/ n # 0
  BY EmptySeq
<1>4. z # << >>
  <2>1. Len(<< >>) = 0 /\ n + 1 # 0
    BY <1>1
  <2> QED
    BY <1>1, <2>1, Zenon
<1> HIDE DEF n, z
<1>5. \A i \in 1..(n + 1 + 1) : Q[i] = IF i = n + 1 + 1 THEN here + 1 ELSE P[i]
  OBVIOUS
<1> HIDE DEF Q
<1>6. Q[1] = P[1] /\ Q[n + 1] = here /\ Q[n + 1 + 1] = here + 1
  <2>1. 1 \in 1..(n + 1 + 1) /\ 1 # n + 1 + 1 /\ n + 1 \in 1..(n + 1 + 1) /\ n + 1 # n + 1 + 1
        /\ n + 1 + 1 \in 1..(n + 1 + 1)
    BY <1>1
  <2> QED
    BY <1>2, <1>5, <2>1
<1>7. P[1] = IF z # << >> /\ z[1].kind = "elided" THEN 0 ELSE SkipCommas(text, 1)
  <2>1. CASE n = 0
    <3>1. z[1] = f /\ s = << >>
      <4>1. s = << >>
        BY <2>1, EmptySeq DEF n
      <4> QED
        BY <1>1, <2>1, <4>1
    <3> QED
      BY <1>2, <3>1
  <2>2. CASE n # 0
    <3>1. 1 \in 1..n
      BY <1>1, <2>2
    <3>2. z[1] = s[1] /\ s # << >>
      BY <1>1, <3>1, EmptySeq DEF n
    <3> QED
      BY <1>2, <1>4, <3>2
  <2> QED
    BY <2>1, <2>2
<1>8. ArrayRead(text, max, Q, n + 1)
  <2>1. ArrayRule(Reads(text, max), text, max)
    BY ReadsRules DEF Rules
  <2>2. ArrayUpTo(n + 1, here, here + 1, << >>) \in Reads(text, max)
    BY <1>1, <2>1 DEF ArrayRule, n
  <2> QED
    BY <1>6, <2>2 DEF ArrayRead
<1>9. ASSUME NEW i \in 1..(n + 1) PROVE ReadUpTo(text, max, Q, i, z[i])
  <2>1. CASE i = n + 1
    BY <1>1, <1>8, <2>1 DEF ReadUpTo
  <2>2. CASE i # n + 1
    <3>1. i \in 1..n /\ i \in 1..(n + 1 + 1) /\ i # n + 1 + 1
          /\ i + 1 \in 1..(n + 1 + 1) /\ i + 1 # n + 1 + 1
      BY <1>1, <2>2
    <3> QED
      BY <1>1, <1>2, <1>5, <3>1, ReadKept
  <2> QED
    BY <2>1, <2>2
<1>10. Trail(z, here + 1, Q, text, max)
  BY <1>1, <1>6, <1>7, <1>9 DEF Trail
<1> QED
  BY <1>10 DEF z

\* A trail as far as around the innermost container.
LEMMA TrailOuter ==
  ASSUME NEW text, NEW max, NEW s \in Seq(Frame), NEW f \in Frame, f.kind # "elided",
         NEW z \in Seq(Frame), Len(z) = Len(s) + 1, z[Len(s) + 1] = f,
         \A i \in 1..Len(s) : s[i] = z[i],
         NEW here, NEW P, Trail(z, here, P, text, max)
  PROVE  /\ Trail(s, P[Len(s) + 1], P, text, max)
         /\ P[Len(s) + 1 + 1] = here /\ ReadUpTo(text, max, P, Len(s) + 1, f)
<1> DEFINE n == Len(s)
<1>1. n \in Nat
  OBVIOUS
<1>2. /\ P[1] = IF z # << >> /\ z[1].kind = "elided" THEN 0 ELSE SkipCommas(text, 1)
      /\ P[n + 1 + 1] = here
      /\ \A i \in 1..(n + 1) : ReadUpTo(text, max, P, i, z[i])
  BY DEF Trail
<1> HIDE DEF n
<1>3. n + 1 \in 1..(n + 1) /\ \A i \in 1..n : i \in 1..(n + 1)
  BY <1>1
<1>4. P[1] = IF s # << >> /\ s[1].kind = "elided" THEN 0 ELSE SkipCommas(text, 1)
  <2>1. CASE n = 0
    <3>1. s = << >> /\ z[1] = f
      <4>1. s = << >>
        BY <2>1, EmptySeq DEF n
      <4> QED
        BY <2>1, <4>1 DEF n
    <3> QED
      BY <1>2, <3>1
  <2>2. CASE n # 0
    <3>1. 1 \in 1..n
      BY <1>1, <2>2
    <3>2. z[1] = s[1] /\ s # << >> /\ z # << >>
      <4>1. Len(<< >>) = 0 /\ n + 1 # 0
        BY <1>1
      <4>2. s # << >> /\ z # << >>
        BY <2>2, <4>1, Zenon DEF n
      <4> QED
        BY <3>1, <4>2 DEF n
    <3> QED
      BY <1>2, <3>2
  <2> QED
    BY <2>1, <2>2
<1>5. \A i \in 1..n : ReadUpTo(text, max, P, i, s[i])
  BY <1>2, <1>3 DEF n
<1>6. Trail(s, P[n + 1], P, text, max)
  BY <1>4, <1>5 DEF Trail, n
<1>7. ReadUpTo(text, max, P, n + 1, f)
  BY <1>2, <1>3 DEF n
<1> QED
  BY <1>2, <1>6, <1>7 DEF n

\* While the text is read there is a trail.
TrailInv == Reading => \E P : Trail(stack, pos, P, src, limit)

\* A value that an array takes in.
LEMMA DeliverTrail ==
  ASSUME src \in Seq(Lexeme), limit \in Nat, src' = src, limit' = limit,
         NEW frames \in Seq(Frame), NEW d, NEW text, NEW next,
         Deliver(frames, d, text, next), Reading', InArray',
         NEW P, NEW here, Trail(frames, here, P, src, limit),
         NEW t, Value(Len(frames), here, next, t) \in Reads(src, limit)
  PROVE  TrailInv'
<1> DEFINE n == Len(frames)
           top == frames[n]
           m == SetMember(top.members, top.key, top.from, Len(Bytes(d)) + Len(text))
           taken == [top EXCEPT !.key = NoKey, !.members = m]
           array == n > 0 /\ top.kind = "array"
<1>1. /\ stack' = IF n = 0 \/ array THEN frames ELSE [frames EXCEPT ![n] = taken]
      /\ pos' = IF n = 0 THEN next ELSE SkipCommas(src, next)
  BY DEF Deliver
<1>2. n \in Nat /\ (n = 0 <=> frames = << >>)
  BY EmptySeq
<1>3. stack' # << >> /\ stack'[Len(stack')].kind = "array"
  BY DEF InArray, Top
<1>4. n # 0
  BY <1>1, <1>2, <1>3
<1>5. top.kind = "array"
  <2> SUFFICES ASSUME top.kind # "array" PROVE FALSE
    OBVIOUS
  <2>1. n \in 1..n /\ top \in Frame
    BY <1>2, <1>4
  <2>2. taken.kind = top.kind
    BY <2>1, TakenFields
  <2> HIDE DEF taken
  <2>3. stack' = [frames EXCEPT ![n] = taken]
    BY <1>1, <1>4
  <2>4. Len(stack') = n /\ stack'[n] = taken
    BY <2>1, <2>3
  <2> QED
    BY <1>3, <2>2, <2>4
<1>6. stack' = frames /\ pos' = SkipCommas(src, next)
  BY <1>1, <1>2, <1>4, <1>5
<1>7. \E Q : Trail(frames, SkipCommas(src, next), Q, src, limit)
  BY <1>2, <1>4, <1>5, TrailTaken
<1> QED
  BY <1>6, <1>7 DEF TrailInv

\* What is around the innermost container, when that closes.
LEMMA TrailAround ==
  ASSUME WriterInv, stack # << >>, Top.kind # "elided", NEW P, Trail(stack, pos, P, src, limit)
  PROVE  LET n == Len(Outer)
         IN  /\ n \in Nat /\ Outer \in Seq(Frame)
             /\ Trail(Outer, P[n + 1], P, src, limit)
             /\ ReadUpTo(src, limit, P, n + 1, Top) /\ P[n + 1 + 1] = pos
<1> DEFINE e == IF Top.kind = "array" THEN depth ELSE depth - 1
           n == Len(Outer)
<1>1. Popped(Outer, e) /\ Top \in Frame
  BY OuterKept
<1>2. Outer \in Seq(Frame) /\ n \in Nat /\ n = Len(stack) - 1 /\ \A i \in 1..n : Outer[i] = stack[i]
  BY <1>1 DEF Popped
<1>3. stack \in Seq(Frame) /\ Len(stack) \in Nat
  BY Parts
<1>4. Len(stack) = n + 1
  <2> HIDE DEF n
  <2> QED
    BY <1>2, <1>3
<1>5. stack[n + 1] = Top
  BY <1>4 DEF Top
<1> HIDE DEF n, e
<1>6. /\ Trail(Outer, P[n + 1], P, src, limit)
      /\ P[n + 1 + 1] = pos /\ ReadUpTo(src, limit, P, n + 1, Top)
  <2>1. /\ Len(stack) = Len(Outer) + 1 /\ stack[Len(Outer) + 1] = Top
        /\ \A i \in 1..Len(Outer) : Outer[i] = stack[i]
    BY <1>2, <1>4, <1>5 DEF n
  <2>2. /\ Trail(Outer, P[Len(Outer) + 1], P, src, limit)
        /\ P[Len(Outer) + 1 + 1] = pos /\ ReadUpTo(src, limit, P, Len(Outer) + 1, Top)
    BY <1>1, <1>2, <1>3, <2>1, TrailOuter
  <2> QED
    BY <2>2 DEF n
<1> QED
  BY <1>2, <1>6 DEF n

\* A value that ends closes what it began with.
LEMMA ClosedValue ==
  ASSUME NEW text \in Seq(Lexeme), NEW max \in Nat, NEW P, NEW n \in Nat, NEW f \in Frame,
         ReadUpTo(text, max, P, n + 1, f), f.kind # "elided",
         NEW here, P[n + 1 + 1] = here,
         f.kind = "array" => Starts(text, here, {"]"}),
         f.kind = "object" => f.key = NoKey /\ Starts(text, here, {"}"})
  PROVE  \E t : Value(n, P[n + 1], here + 1, t) \in Reads(text, max)
<1>1. CASE f.kind = "array"
  <2>1. PICK v : ArrayUpTo(n + 1, P[n + 1], here, v) \in Reads(text, max)
    BY <1>1 DEF ReadUpTo, ArrayRead
  <2>2. P[n + 1] \in Place(text) /\ here \in Place(text) /\ v \in Seq(Seq(Token))
    BY <2>1, Grounds
  <2>3. ArrayRule(Reads(text, max), text, max)
    BY ReadsRules DEF Rules
  <2>4. Value(n, P[n + 1], here + 1, ArrayText(v)) \in Reads(text, max)
    BY <1>1, <2>1, <2>2, <2>3 DEF ArrayRule
  <2> QED
    BY <2>4
<1>2. CASE f.kind = "object"
  <2>1. ObjectRead(text, max, P, n + 1, f)
    BY <1>2 DEF ReadUpTo
  <2>2. P[n + 1] \in Place(text) /\ \E e : ObjectUpTo(n + 1, P[n + 1], here, e) \in Reads(text, max)
    BY <1>2, <2>1 DEF ObjectRead
  <2>3. PICK e : ObjectUpTo(n + 1, P[n + 1], here, e) \in Reads(text, max)
    BY <2>2
  <2>4. here \in Place(text) /\ e \in Seq(Entry)
    BY <2>3, Grounds
  <2>5. ObjectRule(Reads(text, max), text, max)
    BY ReadsRules DEF Rules
  <2>6. Value(n, P[n + 1], here + 1, EntriesText(e)) \in Reads(text, max)
    BY <1>2, <2>2, <2>3, <2>4, <2>5 DEF ObjectRule
  <2> QED
    BY <2>6
<1> QED
  BY <1>1, <1>2, FrameFields

\* Whatever the writer reads, it has a trail.
LEMMA StepTrail ==
  ASSUME WriterInv, WriterInv', MeaningInv', TrailInv, [Next]_vars
  PROVE  TrailInv'
<1>1. CASE UNCHANGED vars
  BY <1>1 DEF vars, TrailInv, Reading
<1>2. CASE Live'
  <2>1. PICK C, P : Layout(stack', pos', C, P, src', limit')
    BY <1>2 DEF MeaningInv
  <2>2. stack' \in Seq(Frame) /\ \A i \in 1..Len(stack') : stack'[i].kind = "elided" => i = 1
    BY DEF WriterInv, TypeOK, ElidedOutside
  <2>3. Trail(stack', pos', P, src', limit')
    BY <2>1, <2>2, LayoutTrail
  <2> QED
    BY <2>3 DEF TrailInv
<1>3. CASE ~Live' /\ Next
  <2> SUFFICES ASSUME Reading' PROVE TrailInv'
    BY DEF TrailInv
  <2>1. InArray' /\ phase' \in {"value", "elided"}
    BY <1>3 DEF Live, Reading
  <2>2. stack' # << >> /\ stack'[Len(stack')].kind = "array"
    BY <2>1 DEF InArray, Top
  <2>3. src \in Seq(Lexeme) /\ limit \in Nat /\ stack \in Seq(Frame)
    BY Parts
  <2>4. CASE StartText
    <3>1. \/ stack' = << ObjectFrame("elided", 0) >>
          \/ stack' = stack /\ phase = "start"
      BY <2>4 DEF StartText
    <3>2. phase = "start" => stack = << >>
      BY DEF WriterInv, OpenWhileReading
    <3>3. ObjectFrame("elided", 0).kind = "elided"
      BY DEF ObjectFrame
    <3> QED
      BY <2>2, <3>1, <3>2, <3>3
  <2>5. CASE ReadKey
    BY <2>2, <2>5, KeyRead
  <2>6. CASE OpenObject
    <3> DEFINE f == ObjectFrame("object", Target)
    <3>1. stack' = Append(stack, f) /\ f.kind = "object"
      BY <2>6 DEF OpenObject, ObjectFrame
    <3> HIDE DEF f
    <3>2. stack'[Len(stack')] = f
      BY <2>3, <3>1
    <3> QED
      BY <2>2, <3>1, <3>2
  <2>7. CASE OpenArray
    <3> DEFINE f == [kind |-> "array", out |-> Target]
    <3>1. /\ stack' = Append(stack, f) /\ pos' = pos + 1 /\ src' = src /\ limit' = limit
          /\ Starts(src, pos, {"["}) /\ ~TooDeep(nesting, limit) /\ Reading
      BY <2>7 DEF OpenArray
    <3>2. nesting = Len(stack) /\ pos \in Place(src)
      BY <3>1, ReadingFacts
    <3>3. f \in Frame /\ f.kind = "array"
      <4>1. Target \in Nat
        BY TargetInnermost, Parts
      <4> QED
        BY <4>1 DEF Frame
    <3> HIDE DEF f
    <3>4. PICK P : Trail(stack, pos, P, src, limit)
      BY <3>1 DEF TrailInv
    <3>5. \E Q : Trail(Append(stack, f), pos + 1, Q, src, limit)
      BY <2>3, <3>1, <3>2, <3>3, <3>4, TrailPushed
    <3> QED
      BY <3>1, <3>5 DEF TrailInv
  <2>8. CASE WriteWord
    <3>1. /\ Reading /\ IsWord(src, pos) /\ src' = src /\ limit' = limit
          /\ Deliver(stack, Target, << <<"word", src[pos]>> >>, pos + 1)
      BY <2>8 DEF WriteWord
    <3>2. PICK P : Trail(stack, pos, P, src, limit)
      BY <3>1 DEF TrailInv
    <3>3. Value(Len(stack), pos, pos + 1, << <<"word", src[pos]>> >>) \in Reads(src, limit)
      <4>1. WordRule(Reads(src, limit), src)
        BY <2>3, ReadsRules DEF Rules
      <4>2. Len(stack) \in Nat /\ pos \in Place(src)
        BY <3>1, Parts, ReadingFacts
      <4> QED
        BY <3>1, <4>1, <4>2 DEF WordRule
    <3> QED
      BY <2>1, <2>3, <3>1, <3>2, <3>3, DeliverTrail
  <2>9. CASE CloseArray \/ CloseObject
    <3> DEFINE n == Len(Outer)
    <3>1. /\ Reading /\ stack # << >> /\ src' = src /\ limit' = limit /\ Top.kind # "elided"
          /\ Top.kind = "array" => Starts(src, pos, {"]"})
          /\ Top.kind = "object" => Top.key = NoKey /\ Starts(src, pos, {"}"})
      BY <2>9 DEF CloseArray, CloseObject, InArray, InObject
    <3>2. \E text : Deliver(Outer, Top.out, text, pos + 1)
      BY <2>9 DEF CloseArray, CloseObject
    <3>3. PICK P : Trail(stack, pos, P, src, limit)
      BY <3>1 DEF TrailInv
    <3>4. /\ n \in Nat /\ Outer \in Seq(Frame)
          /\ Trail(Outer, P[n + 1], P, src, limit)
          /\ ReadUpTo(src, limit, P, n + 1, Top) /\ P[n + 1 + 1] = pos
      BY <3>1, <3>3, TrailAround
    <3>5. Top \in Frame
      BY <3>1, OuterKept
    <3>6. \E t : Value(n, P[n + 1], pos + 1, t) \in Reads(src, limit)
      <4> HIDE DEF n
      <4> QED
        BY <2>3, <3>1, <3>4, <3>5, ClosedValue
    <3> QED
      BY <2>1, <2>3, <3>1, <3>2, <3>4, <3>6, DeliverTrail
  <2>10. CASE FallBack
    BY <2>2, <2>10 DEF FallBack
  <2>11. CASE BadKey \/ BadValue \/ TooDeepValue
    <3>1. phase' \in {"syntax", "deep"}
      BY <2>11 DEF BadKey, BadValue, TooDeepValue, Fail
    <3> QED
      BY <2>1, <3>1
  <2>12. CASE FinishElided \/ FinishValue \/ UnwindContainer \/ ElidedTooDeep \/ GiveUp
    <3>1. phase' \in {"ok", "syntax", "deep", "failed deep", "failed syntax"}
      BY <2>12 DEF FinishElided, FinishValue, UnwindContainer, ElidedTooDeep, GiveUp, Unwinding
    <3> QED
      BY <2>1, <3>1
  <2> QED
    BY <1>3, <2>4, <2>5, <2>6, <2>7, <2>8, <2>9, <2>10, <2>11, <2>12 DEF Next
<1> QED
  BY <1>1, <1>2, <1>3

\* No value is the whole text.
NoSingle(text, max) ==
  \A j, t : Value(0, SkipCommas(text, 1), j, t) \in Reads(text, max)
              => ~(SkipCommas(text, j) > Len(text))

\* The innermost container, as the trail has it.
LEMMA TrailTop ==
  ASSUME WriterInv, Reading, stack # << >>, NEW P, Trail(stack, pos, P, src, limit)
  PROVE  LET n == Len(stack)
         IN  /\ n \in Nat /\ n # 0 /\ n \in 1..n /\ P[n + 1] = pos /\ pos \in Nat
             /\ stack[n] = Top /\ Top \in Frame /\ ReadUpTo(src, limit, P, n, Top)
<1> DEFINE n == Len(stack)
<1>1. n \in Nat /\ n # 0 /\ n \in 1..n /\ pos \in Nat
  BY Parts, ReadingFacts
<1>2. P[n + 1] = pos /\ \A i \in 1..n : ReadUpTo(src, limit, P, i, stack[i])
  BY DEF Trail
<1>3. stack[n] = Top /\ Top \in Frame
  BY OuterKept DEF Top
<1> QED
  BY <1>1, <1>2, <1>3

\* What is stuck in the innermost container is stuck from the outside.
LEMMA StackStuck ==
  ASSUME WriterInv, Reading, stack # << >>, NEW P, Trail(stack, pos, P, src, limit),
         Dead(src, limit, Len(stack) - 1, P[Len(stack)])
  PROVE  Dead(src, limit, 0, P[1])
<1>1. Len(stack) \in 1..Len(stack)
  BY ReadingFacts
<1>2. \A i \in 1..Len(stack) : stack[i].kind = "elided" => i = 1
  BY DEF WriterInv, ElidedOutside
<1> QED
  BY <1>1, <1>2, Parts, DeadOutside

\* No value where one is due.
LEMMA ValueStuck ==
  ASSUME WriterInv, Reading, ValueDue, NEW P, Trail(stack, pos, P, src, limit),
         NoneAt(src, limit, Len(stack), pos), InArray => ~Starts(src, pos, {"]"})
  PROVE  Dead(src, limit, 0, P[1])
<1>1. CASE stack = << >>
  <2>1. Len(stack) = 0 /\ Len(stack) + 1 = 1
    BY <1>1
  <2>2. P[1] = pos
    BY <2>1 DEF Trail
  <2>3. pos # 0
    BY Parts, ReadingFacts, PlaceNotZero
  <2> QED
    BY <2>1, <2>2, <2>3 DEF Dead
<1>2. CASE stack # << >>
  <2> DEFINE n == Len(stack)
  <2>1. /\ n \in Nat /\ n # 0 /\ P[n + 1] = pos /\ pos \in Nat
        /\ Top \in Frame /\ ReadUpTo(src, limit, P, n, Top)
    BY <1>2, TrailTop
  <2>2. /\ Top.kind = "array" => ~Starts(src, P[n + 1], {"]"})
        /\ Top.kind # "array" => Top.key # NoKey
    BY <1>2, <2>1, DueWaits DEF InArray
  <2>3. NoneAt(src, limit, n, P[n + 1])
    BY <2>1
  <2>4. src \in Seq(Lexeme) /\ limit \in Nat
    BY Parts
  <2> HIDE DEF n
  <2>5. Dead(src, limit, n - 1, P[n])
    BY <2>1, <2>2, <2>3, <2>4, AroundStuck
  <2> QED
    BY <1>2, <2>5, StackStuck DEF n
<1> QED
  BY <1>1, <1>2

\* No key where one is due.
LEMMA KeyStuck ==
  ASSUME WriterInv, BadKey, NEW P, Trail(stack, pos, P, src, limit)
  PROVE  Dead(src, limit, 0, P[1])
<1> DEFINE n == Len(stack)
           h == n - 1
<1>1. /\ Reading /\ stack # << >> /\ Top.kind # "array" /\ Top.key = NoKey /\ ~IsWord(src, pos)
      /\ Top.kind = "object" => ~Starts(src, pos, {"}"})
      /\ Top.kind = "elided" => pos <= Len(src)
  BY DEF BadKey, InObject
<1>2. /\ n \in Nat /\ n # 0 /\ P[n + 1] = pos /\ Top \in Frame /\ ReadUpTo(src, limit, P, n, Top)
  BY <1>1, TrailTop
<1>3. ObjectRead(src, limit, P, n, Top)
  BY <1>1, <1>2 DEF ReadUpTo
<1>4. \E e : ObjectUpTo(n, P[n], pos, e) \in Reads(src, limit)
  BY <1>1, <1>2, <1>3 DEF ObjectRead
<1>5. src \in Seq(Lexeme) /\ limit \in Nat
  BY Parts
<1>6. h \in Nat /\ n = h + 1
  BY <1>2
<1> HIDE DEF n, h
<1>7. CASE Top.kind = "object"
  <2>1. P[n] \in Place(src) /\ P[n] # 0
    BY <1>3, <1>5, <1>7, PlaceNotZero DEF ObjectRead
  <2>2. NoneAt(src, limit, h, P[n])
    BY <1>1, <1>4, <1>5, <1>6, <1>7, <2>1, ObjectStuck
  <2>3. Dead(src, limit, h, P[n])
    BY <2>1, <2>2 DEF Dead
  <2> QED
    BY <1>1, <2>3, StackStuck DEF n, h
<1>8. CASE Top.kind = "elided"
  <2>1. n = 1 /\ P[1] = 0
    BY <1>3, <1>8 DEF ObjectRead
  <2>2. NoElided(src, limit)
    BY <1>1, <1>4, <1>5, <1>8, <2>1, ElidedStuck
  <2> QED
    BY <2>1, <2>2 DEF Dead
<1> QED
  BY <1>1, <1>2, <1>7, <1>8, FrameFields

\* So it does not pass a lexeme that is no comma.
LEMMA SkipStops ==
  ASSUME NEW s, Len(s) \in Nat, NEW i \in Nat, NEW k \in Nat, i <= k, k <= Len(s)
  PROVE  s[k] # "," => SkipCommas(s, i) <= k
<1> DEFINE n == Len(s)
           j == SkipCommas(s, i)
<1>1. j \in i..(n + 1) /\ \A l \in i..(j - 1) : s[l] = ","
  <2>1. i <= n + 1
    <3>1. n \in Nat /\ i <= k /\ k <= n
      OBVIOUS
    <3> HIDE DEF n
    <3> QED
      BY <3>1
  <2> QED
    BY <2>1, SkipPasses
<1>2. n \in Nat /\ i <= k /\ j \in i..(n + 1)
  BY <1>1
<1> HIDE DEF n, j
<1>3. ASSUME ~(j <= k) PROVE k \in i..(j - 1)
  <2>1. j \in Int /\ i \in Int /\ k \in Int
    BY <1>2
  <2> QED
    BY <1>2, <1>3, <2>1
<1>4. ~(j <= k) => s[k] = ","
  BY <1>1, <1>3
<1> QED
  BY <1>4 DEF j

\* A container is read forwards.
LEMMA ReadForward ==
  ASSUME NEW text \in Seq(Lexeme), NEW max \in Nat, NEW P, NEW i, NEW f \in Frame,
         ReadUpTo(text, max, P, i, f), P[i + 1] \in Nat
  PROVE  IF f.kind = "elided" THEN SkipCommas(text, 1) <= P[i + 1] ELSE P[i] <= P[i + 1]
<1>1. CASE f.kind = "array"
  <2>1. P[i] \in Place(text) /\ \E v : ArrayUpTo(i, P[i], P[i + 1], v) \in Reads(text, max)
    BY <1>1 DEF ReadUpTo, ArrayRead
  <2>2. P[i] + 1 <= P[i + 1] /\ P[i] \in Nat
    BY <2>1, Grounds, Places DEF ArrayGrounds
  <2>3. P[i] <= P[i + 1]
    BY <2>2
  <2> QED
    BY <1>1, <2>3
<1>2. CASE f.kind # "array"
  <2> DEFINE j == IF f.key = NoKey THEN P[i + 1] ELSE P[i + 1] - 1
  <2>1. /\ f.kind = "object" => P[i] \in Place(text)
        /\ f.kind = "elided" => P[i] = 0
        /\ \E e : ObjectUpTo(i, P[i], j, e) \in Reads(text, max)
    BY <1>2 DEF ReadUpTo, ObjectRead
  <2>2. j <= P[i + 1]
    OBVIOUS
  <2> HIDE DEF j
  <2>3. j \in Nat /\ FirstKey(text, P[i]) <= j
    BY <2>1, Grounds, Places DEF ObjectGrounds
  <2>4. CASE f.kind = "elided"
    <3>1. SkipCommas(text, 1) <= j /\ SkipCommas(text, 1) \in Nat
      BY <2>1, <2>3, <2>4, Places DEF FirstKey
    <3>2. SkipCommas(text, 1) <= P[i + 1]
      BY <2>2, <2>3, <3>1
    <3> QED
      BY <2>4, <3>2
  <2>5. CASE f.kind = "object"
    <3>1. P[i] + 1 <= j /\ P[i] \in Nat
      BY <2>1, <2>3, <2>5, Places, PlaceNotZero DEF FirstKey
    <3>2. P[i] <= P[i + 1]
      BY <2>2, <2>3, <3>1
    <3> QED
      BY <2>5, <3>2
  <2> QED
    BY <1>2, <2>4, <2>5, FrameFields
<1> QED
  BY <1>1, <1>2

\* So nothing is read in front of the first lexeme that counts.
LEMMA TrailForward ==
  ASSUME NEW text \in Seq(Lexeme), NEW max \in Nat, NEW s \in Seq(Frame), s # << >>,
         \A i \in 1..Len(s) : s[i].kind = "elided" => i = 1, s[1].kind = "elided",
         NEW here \in Nat, NEW P, Trail(s, here, P, text, max)
  PROVE  SkipCommas(text, 1) <= here
<1> DEFINE n == Len(s)
           start == SkipCommas(text, 1)
           T == {m \in 2..(n + 1) : ~(start <= P[m])}
<1>1. n \in Nat /\ n # 0 /\ start \in Nat /\ \A i \in 1..n : s[i] \in Frame
  BY EmptySeq, Places
<1>2. P[n + 1] = here /\ \A i \in 1..n : ReadUpTo(text, max, P, i, s[i])
  BY DEF Trail
<1>3. \A i \in 1..n : i # 1 => s[i].kind # "elided"
  OBVIOUS
<1> HIDE DEF n, start
<1>4. ASSUME NEW m \in 2..(n + 1) PROVE P[m] \in Nat
  <2>1. CASE m = n + 1
    BY <1>2, <2>1
  <2>2. CASE m # n + 1
    <3>1. m \in 1..n /\ m # 1
      BY <1>1, <2>2
    <3> QED
      BY <1>1, <1>2, <1>3, <3>1, OpensInside
  <2> QED
    BY <2>1, <2>2
<1>5. T = {}
  <2> SUFFICES ASSUME T # {} PROVE FALSE
    OBVIOUS
  <2>1. PICK m \in T : \A l \in T : m <= l
    <3>1. T \subseteq Nat
      BY <1>1
    <3> HIDE DEF T
    <3> QED
      BY <3>1, Least
  <2>2. m \in 2..(n + 1) /\ ~(start <= P[m])
    OBVIOUS
  <2> DEFINE i == m - 1
  <2>3. i \in 1..n /\ m = i + 1 /\ ~(m <= i) /\ (i # 1 => i \in 2..(n + 1))
    BY <1>1, <2>2
  <2> HIDE DEF i
  <2>4. ReadUpTo(text, max, P, i, s[i]) /\ s[i] \in Frame /\ P[i + 1] \in Nat
    BY <1>1, <1>2, <1>4, <2>2, <2>3
  <2>5. CASE i = 1
    <3>1. start <= P[i + 1]
      BY <2>4, <2>5, ReadForward DEF start
    <3> QED
      BY <2>2, <2>3, <3>1
  <2>6. CASE i # 1
    <3>1. P[i] <= P[i + 1]
      BY <1>3, <2>3, <2>4, <2>6, ReadForward
    <3>2. P[i] \in Nat
      BY <1>4, <2>3, <2>6
    <3>3. start <= P[i]
      <4>1. i \notin T
        BY <2>1, <2>3
      <4> QED
        BY <2>3, <2>6, <4>1
    <3>4. start <= P[i + 1]
      BY <1>1, <2>4, <3>1, <3>2, <3>3
    <3> QED
      BY <2>2, <2>3, <3>4
  <2> QED
    BY <2>5, <2>6
<1>6. n + 1 \in 2..(n + 1)
  BY <1>1
<1> QED
  BY <1>2, <1>5, <1>6 DEF start

ElidedFirst == stack # << >> /\ stack[1].kind = "elided"

\* A text without braces that nests too deep is no single value either: that
\* would be a word, with only commas behind it.
LEMMA DeepSingle ==
  ASSUME WriterInv, Reading, ElidedFirst, Starts(src, pos, Open),
         NEW P, Trail(stack, pos, P, src, limit)
  PROVE  NoSingle(src, limit)
<1> DEFINE start == SkipCommas(src, 1)
<1>1. /\ src \in Seq(Lexeme) /\ limit \in Nat /\ stack \in Seq(Frame) /\ Len(src) \in Nat
      /\ pos \in Nat /\ pos <= Len(src) /\ start \in Place(src) /\ start \in Nat
  BY Parts, Places DEF Starts
<1>2. \A i \in 1..Len(stack) : stack[i].kind = "elided" => i = 1
  BY DEF WriterInv, ElidedOutside
<1>3. start <= pos
  BY <1>1, <1>2, TrailForward DEF ElidedFirst
<1>4. ~Starts(src, start, Open)
  <2>1. 1 \in 1..Len(stack) /\ stack[1] \in Frame
    <3>1. Len(stack) \in Nat /\ Len(stack) # 0
      BY <1>1, EmptySeq DEF ElidedFirst
    <3>2. 1 \in 1..Len(stack)
      BY <3>1
    <3> QED
      BY <1>1, <3>2
  <2>2. ObjectRead(src, limit, P, 1, stack[1])
    BY <2>1 DEF Trail, ReadUpTo, ElidedFirst
  <2>3. P[1] = 0 /\ \E j, e : ObjectUpTo(1, P[1], j, e) \in Reads(src, limit)
    BY <2>2 DEF ObjectRead, ElidedFirst
  <2> QED
    BY <1>1, <2>3, Grounds DEF ObjectGrounds
<1> HIDE DEF start
<1>5. start # pos
  BY <1>4
<1>6. start + 1 \in Nat /\ start + 1 <= pos
  BY <1>1, <1>3, <1>5
<1>7. src[pos] # ","
  <2>1. "," \notin Open
    BY DEF Open
  <2> QED
    BY <2>1 DEF Starts
<1>8. SkipCommas(src, start + 1) <= pos
  BY <1>1, <1>6, <1>7, SkipStops
<1>9. ~(SkipCommas(src, start + 1) > Len(src))
  <2>1. start + 1 \in Place(src)
    <3>1. start <= Len(src)
      BY <1>1, <1>6
    <3> QED
      BY <1>1, <3>1, Places
  <2>2. SkipCommas(src, start + 1) \in Nat
    BY <1>1, <2>1, Places
  <2> QED
    BY <1>1, <1>8, <2>2
<1>10. ASSUME NEW j, NEW t, Value(0, start, j, t) \in Reads(src, limit)
       PROVE  j = start + 1
  <2>1. ValueGrounds(src, limit, 0, start, j, t)
    BY <1>1, <1>10, Grounds
  <2> QED
    BY <1>4, <2>1, OneKind DEF ValueGrounds, FromWord, FromArray, FromObject
<1> QED
  BY <1>9, <1>10 DEF NoSingle, start

\* While a value is read, and on the way to an error, it is settled what the text
\* is not.
RefusalInv ==
  /\ TrailInv
  /\ phase \in {"value", "end"} => NoElided(src, limit)
  /\ phase = "syntax" => NoElided(src, limit) /\ (ElidedFirst \/ NoSingle(src, limit))
  /\ phase \in {"deep", "failed syntax", "failed deep"} =>
       NoElided(src, limit) /\ NoSingle(src, limit)

\* What is stuck from the outside.
LEMMA OutsideStuck ==
  ASSUME WriterInv, RefusalInv, Reading, NEW P, Trail(stack, pos, P, src, limit),
         Dead(src, limit, 0, P[1])
  PROVE  NoElided(src, limit) /\ (ElidedFirst \/ NoSingle(src, limit))
<1>1. P[1] = IF ElidedFirst THEN 0 ELSE SkipCommas(src, 1)
  BY DEF Trail, ElidedFirst
<1>2. SkipCommas(src, 1) # 0
  BY Parts, Places, PlaceNotZero
<1>3. CASE ElidedFirst
  BY <1>1, <1>3 DEF Dead
<1>4. CASE ~ElidedFirst
  <2>1. phase = "value"
    BY <1>4 DEF Reading, ElidedFirst, WriterInv, ElidedOutside
  <2>2. NoneAt(src, limit, 0, SkipCommas(src, 1))
    BY <1>1, <1>2, <1>4 DEF Dead
  <2> QED
    BY <2>1, <2>2 DEF RefusalInv, NoneAt, NoSingle
<1> QED
  BY <1>3, <1>4

\* A step that only reads on settles nothing.
LEMMA ReadingOn ==
  ASSUME RefusalInv, TrailInv', src' = src, limit' = limit, phase' = phase, Reading
  PROVE  RefusalInv'
  BY DEF RefusalInv, Reading

\* A key or a value cannot be read.
LEMMA FailRefuses ==
  ASSUME WriterInv, RefusalInv, TrailInv', BadKey \/ BadValue \/ TooDeepValue
  PROVE  RefusalInv'
<1>1. /\ Reading /\ src' = src /\ limit' = limit /\ stack' = stack
      /\ phase' = IF TooDeepValue THEN "deep" ELSE "syntax"
  <2>1. CASE TooDeepValue
    BY <2>1 DEF TooDeepValue, Fail
  <2>2. CASE ~TooDeepValue
    BY <2>2 DEF BadKey, BadValue, Fail
  <2> QED
    BY <2>1, <2>2
<1>2. PICK P : Trail(stack, pos, P, src, limit)
  BY <1>1 DEF RefusalInv, TrailInv
<1>3. src \in Seq(Lexeme) /\ limit \in Nat /\ nesting = Len(stack)
  BY <1>1, Parts, ReadingFacts
<1>4. Dead(src, limit, 0, P[1])
  <2>1. CASE BadKey
    BY <1>2, <2>1, KeyStuck
  <2>2. CASE BadValue \/ TooDeepValue
    <3>1. /\ ValueDue /\ ~IsWord(src, pos)
          /\ Starts(src, pos, Open) => TooDeep(nesting, limit)
          /\ InArray => ~Starts(src, pos, {"]"})
      BY <2>2, OneKind DEF BadValue, TooDeepValue
    <3>2. NoneAt(src, limit, Len(stack), pos)
      BY <1>3, <3>1, NoValue
    <3> QED
      BY <1>1, <1>2, <3>1, <3>2, ValueStuck
  <2> QED
    BY <2>1, <2>2
<1>5. NoElided(src, limit) /\ (ElidedFirst \/ NoSingle(src, limit))
  BY <1>1, <1>2, <1>4, OutsideStuck
<1>6. TooDeepValue => NoSingle(src, limit)
  <2>1. TooDeepValue => Starts(src, pos, Open)
    BY DEF TooDeepValue
  <2> QED
    BY <1>1, <1>2, <1>5, <2>1, DeepSingle
<1> QED
  BY <1>1, <1>5, <1>6 DEF RefusalInv, ElidedFirst

\* A value that is read while no object without braces is around it.
LEMMA DeliverRefuses ==
  ASSUME RefusalInv, TrailInv', src' = src, limit' = limit, Reading,
         phase' = phase \/ (phase' = "end" /\ phase = "value")
  PROVE  RefusalInv'
  BY DEF RefusalInv, Reading

\* Leaving a container does not change what the outermost one is.
LEMMA UnwindKeepsFirst ==
  ASSUME WriterInv, UnwindContainer
  PROVE  ElidedFirst => ElidedFirst'
<1>1. stack # << >> /\ Top.kind # "elided" /\ stack' = Outer
  BY DEF UnwindContainer
<1>2. Outer \in Seq(Frame) /\ Len(Outer) = Len(stack) - 1 /\ \A i \in 1..Len(Outer) : Outer[i] = stack[i]
  BY <1>1, OuterKept DEF Popped
<1>3. Len(stack) \in Nat /\ Len(stack) # 0
  BY <1>1, Parts, EmptySeq
<1>4. CASE Len(stack) = 1
  BY <1>1, <1>4 DEF ElidedFirst, Top
<1>5. CASE Len(stack) # 1
  <2>1. 1 \in 1..Len(Outer)
    BY <1>2, <1>3, <1>5
  <2>2. Outer # << >> /\ Outer[1] = stack[1]
    BY <1>2, <2>1, EmptySeq
  <2> QED
    BY <1>1, <2>2 DEF ElidedFirst
<1> QED
  BY <1>4, <1>5

\* Every step settles no more than it may.
LEMMA StepRefusal ==
  ASSUME WriterInv, WriterInv', MeaningInv, MeaningInv', RefusalInv, [Next]_vars
  PROVE  RefusalInv'
<1>1. TrailInv'
  BY StepTrail DEF RefusalInv
<1>2. src \in Seq(Lexeme) /\ limit \in Nat
  BY Parts
<1>3. CASE UNCHANGED vars
  BY <1>1, <1>3 DEF vars, RefusalInv, ElidedFirst
<1>4. CASE StartText
  <2> DEFINE start == SkipCommas(src, 1)
             elided == start <= Len(src) /\ ~Starts(src, start, Open)
  <2>1. src' = src /\ limit' = limit /\ phase' = IF elided THEN "elided" ELSE "value"
    BY <1>4 DEF StartText
  <2>2. ~elided => NoElided(src, limit)
    BY <1>2, Grounds DEF ObjectGrounds, NoElided
  <2> QED
    BY <1>1, <2>1, <2>2 DEF RefusalInv
<1>5. CASE ReadKey \/ OpenObject \/ OpenArray
  <2>1. src' = src /\ limit' = limit /\ phase' = phase /\ Reading
    BY <1>5 DEF ReadKey, OpenObject, OpenArray
  <2> QED
    BY <1>1, <2>1, ReadingOn
<1>6. CASE BadKey \/ BadValue \/ TooDeepValue
  BY <1>1, <1>6, FailRefuses
<1>7. CASE WriteWord
  <2>1. /\ src' = src /\ limit' = limit /\ Reading
        /\ phase' = IF Len(stack) = 0 THEN "end" ELSE phase
    BY <1>7 DEF WriteWord, Deliver
  <2>2. Len(stack) = 0 => phase = "value"
    BY <2>1, EmptySeq, Parts DEF Reading, WriterInv, ElidedOutside
  <2> QED
    BY <1>1, <2>1, <2>2, DeliverRefuses
<1>8. CASE CloseArray \/ CloseObject
  <2>1. /\ src' = src /\ limit' = limit /\ Reading /\ stack # << >> /\ Top.kind # "elided"
        /\ phase' = IF Len(Outer) = 0 THEN "end" ELSE phase
    BY <1>8 DEF CloseArray, CloseObject, Deliver, InArray, InObject
  <2>2. Len(Outer) = 0 => phase = "value"
    BY <2>1, OuterKept, EmptySeq DEF Reading, Popped
  <2> QED
    BY <1>1, <2>1, <2>2, DeliverRefuses
<1>9. CASE FinishElided
  <2>1. phase' = "ok"
    BY <1>9 DEF FinishElided
  <2> QED
    BY <1>1, <2>1 DEF RefusalInv
<1>10. CASE FinishValue
  <2>1. /\ phase = "end" /\ pos' = SkipCommas(src, pos) /\ src' = src /\ limit' = limit
        /\ phase' = IF pos' > Len(src) THEN "ok" ELSE "failed syntax"
    BY <1>10 DEF FinishValue
  <2>2. PICK t : Value(0, SkipCommas(src, 1), pos, t) \in Reads(src, limit)
    BY <2>1 DEF MeaningInv
  <2>3. ~(SkipCommas(src, pos) > Len(src)) => NoSingle(src, limit)
    <3>1. UniqueAt(src, limit, SkipCommas(src, 1))
      BY <1>2, Places, Unique
    <3> QED
      BY <2>2, <3>1 DEF UniqueAt, NoSingle
  <2> QED
    BY <1>1, <2>1, <2>3 DEF RefusalInv
<1>11. CASE UnwindContainer
  <2>1. src' = src /\ limit' = limit /\ phase' = phase /\ phase \in {"syntax", "deep"}
    BY <1>11 DEF UnwindContainer, Unwinding
  <2>2. ElidedFirst => ElidedFirst'
    BY <1>11, UnwindKeepsFirst
  <2> QED
    BY <1>1, <2>1, <2>2 DEF RefusalInv
<1>12. CASE ElidedTooDeep
  <2>1. src' = src /\ limit' = limit /\ phase = "deep" /\ phase' = "failed deep"
    BY <1>12 DEF ElidedTooDeep
  <2> QED
    BY <1>1, <2>1 DEF RefusalInv
<1>13. CASE FallBack
  <2>1. src' = src /\ limit' = limit /\ phase = "syntax" /\ phase' = "value"
    BY <1>13 DEF FallBack
  <2> QED
    BY <1>1, <2>1 DEF RefusalInv
<1>14. CASE GiveUp
  <2>1. src' = src /\ limit' = limit /\ phase \in {"syntax", "deep"} /\ stack = << >>
        /\ phase' \in {"failed deep", "failed syntax"}
    BY <1>14 DEF GiveUp, Unwinding
  <2> QED
    BY <1>1, <2>1 DEF RefusalInv, ElidedFirst
<1> QED
  BY <1>3, <1>4, <1>5, <1>6, <1>7, <1>8, <1>9, <1>10, <1>11, <1>12, <1>13, <1>14 DEF Next

\* A text has one meaning at most.
LEMMA OneMeaning ==
  ASSUME NEW text \in Seq(Lexeme), NEW max \in Nat, NEW t, NEW u,
         Means(text, max, t), Means(text, max, u)
  PROVE  t = u
<1> DEFINE start == SkipCommas(text, 1)
<1>1. CASE NoElided(text, max)
  <2>1. /\ \E j \in Place(text) : Value(0, start, j, t) \in Reads(text, max)
        /\ \E j \in Place(text) : Value(0, start, j, u) \in Reads(text, max)
    BY <1>1 DEF Means, NoElided
  <2>2. UniqueAt(text, max, start)
    BY Places, Unique
  <2> QED
    BY <2>1, <2>2 DEF UniqueAt
<1>2. CASE ~NoElided(text, max)
  <2>1. PICK v \in Seq(Entry), w \in Seq(Entry) :
          /\ ObjectUpTo(1, 0, Len(text) + 1, v) \in Reads(text, max) /\ t = EntriesText(v)
          /\ ObjectUpTo(1, 0, Len(text) + 1, w) \in Reads(text, max) /\ u = EntriesText(w)
    BY <1>2 DEF Means
  <2>2. ~IsWord(text, Len(text) + 1)
    <3>1. Len(text) \in Nat
      OBVIOUS
    <3>2. ~(Len(text) + 1 <= Len(text))
      BY <3>1
    <3> QED
      BY <3>2 DEF IsWord
  <2>3. v = w
    BY <2>1, <2>2, Unique, ObjectEnd
  <2> QED
    BY <2>1, <2>3
<1> QED
  BY <1>1, <1>2

\* What is neither has no meaning.
LEMMA Meaningless ==
  ASSUME NEW text, NEW max, NoElided(text, max), NoSingle(text, max)
  PROVE  \A t : ~Means(text, max, t)
  BY DEF Means, NoElided, NoSingle

\* The invariants of the writer and of its meaning hold together.
LEMMA MeaningInvariance == Spec => [](WriterInv /\ MeaningInv /\ RefusalInv)
<1>1. Init => WriterInv /\ MeaningInv /\ RefusalInv
  <2>1. Init => RefusalInv
    BY DEF Init, Unread, RefusalInv, TrailInv, Reading
  <2> QED
    BY <2>1, InitInv, InitMeaning
<1>2. WriterInv /\ MeaningInv /\ RefusalInv /\ [Next]_vars
        => WriterInv' /\ MeaningInv' /\ RefusalInv'
  <2> SUFFICES ASSUME WriterInv, MeaningInv, RefusalInv, [Next]_vars
               PROVE  WriterInv' /\ MeaningInv' /\ RefusalInv'
    OBVIOUS
  <2>1. WriterInv'
    BY StepInv
  <2>2. phase = "end" => NoElided(src, limit)
    BY DEF RefusalInv
  <2>3. MeaningInv'
    BY <2>1, <2>2, StepMeaning
  <2>4. RefusalInv'
    BY <2>1, <2>3, StepRefusal
  <2> QED
    BY <2>1, <2>3, <2>4
<1> QED
  BY <1>1, <1>2, PTL DEF Spec

\* An answer without an error is the one meaning of the text, written behind what
\* the caller had: for every text and every limit, whatever was tried in vain.
THEOREM WritesMeaning ==
  Spec => [](phase = "ok" => \E t \in Seq(Token) :
               /\ Means(src, limit, t) /\ dst = Already \o t
               /\ \A u : Means(src, limit, u) => u = t)
<1>1. WriterInv /\ MeaningInv =>
        (phase = "ok" => \E t \in Seq(Token) :
           /\ Means(src, limit, t) /\ dst = Already \o t
           /\ \A u : Means(src, limit, u) => u = t)
  BY Parts, OneMeaning DEF MeaningInv
<1> QED
  BY <1>1, MeaningInvariance, PTL

\* A refusal is right: whatever the text and the limit, and whatever error was
\* met first, the text has no meaning within the limit.
THEOREM RefusesRightly ==
  Spec => [](phase \in {"failed syntax", "failed deep"} => \A t : ~Means(src, limit, t))
<1>1. RefusalInv =>
        (phase \in {"failed syntax", "failed deep"} => \A t : ~Means(src, limit, t))
  BY Meaningless DEF RefusalInv
<1> QED
  BY <1>1, MeaningInvariance, PTL

-------------------------------------------------------------------------------
\* A write keeps the keys of an object distinct.
LEMMA PutDistinct ==
  ASSUME NEW J, NEW e \in Seq([key : Scanned, json : J]), NEW k \in Scanned, NEW t \in J,
         DistinctKeys(e)
  PROVE  DistinctKeys(Put(e, k, t))
<1> DEFINE E == [key : Scanned, json : J]
           n == Len(e)
           same == {i \in 1..n : e[i].key = k}
           f == CHOOSE i \in same : TRUE
           others == IF same = {} THEN e ELSE RemoveAt(e, f)
           m == Len(others)
           new == [key |-> k, json |-> t]
           put == Append(others, new)
<1>1. e \in Seq(E) /\ n \in Nat /\ DOMAIN e = 1..n /\ new \in E
  OBVIOUS
<1>2. \A i, j \in 1..n : e[i].key = e[j].key => i = j
  BY <1>1 DEF DistinctKeys
<1>3. Put(e, k, t) = put
  BY <1>1 DEF Put
<1> HIDE DEF E, n
<1>4. /\ others \in Seq(E) /\ \A i \in 1..m : others[i].key # k
      /\ \A i, j \in 1..m : others[i].key = others[j].key => i = j
  <2>1. CASE same = {}
    <3>1. others = e
      BY <2>1
    <3>2. \A i \in 1..n : e[i].key # k
      BY <2>1
    <3>3. /\ e \in Seq(E) /\ \A i \in 1..Len(e) : e[i].key # k
          /\ \A i, j \in 1..Len(e) : e[i].key = e[j].key => i = j
      BY <1>1, <1>2, <3>2 DEF n
    <3> HIDE DEF same, others
    <3> QED
      BY <3>1, <3>3, Zenon
  <2>2. CASE same # {}
    <3>1. f \in 1..n /\ e[f].key = k
      BY <2>2
    <3>2. others = RemoveAt(e, f)
      BY <2>2
    <3> HIDE DEF f, same, others
    <3>3. /\ others \in Seq(E) /\ m = n - 1
          /\ \A j \in 1..(n - 1) : others[j] = IF j < f THEN e[j] ELSE e[j + 1]
      BY <1>1, <3>1, <3>2, Removed DEF n
    <3> HIDE DEF m
    <3> DEFINE at(j) == IF j < f THEN j ELSE j + 1
    <3>4. \A j \in 1..m : at(j) \in 1..n /\ at(j) # f
      BY <1>1, <3>1, <3>3
    <3>5. \A i, j \in 1..m : at(i) = at(j) => i = j
      BY <1>1, <3>1, <3>3
    <3>6. \A j \in 1..m : others[j] = e[at(j)]
      BY <3>3
    <3> HIDE DEF at
    <3>7. ASSUME NEW i \in 1..m PROVE others[i].key # k
      <4>1. at(i) \in 1..n /\ at(i) # f /\ others[i] = e[at(i)]
        BY <3>4, <3>6
      <4> QED
        BY <1>2, <3>1, <4>1
    <3>8. ASSUME NEW i \in 1..m, NEW j \in 1..m, others[i].key = others[j].key PROVE i = j
      <4>1. at(i) \in 1..n /\ at(j) \in 1..n /\ e[at(i)].key = e[at(j)].key
        BY <3>4, <3>6, <3>8
      <4> QED
        BY <1>2, <3>5, <4>1
    <3> QED
      BY <3>3, <3>7, <3>8
  <2> QED
    BY <2>1, <2>2
<1> HIDE DEF others, new
<1>5. /\ m \in Nat /\ put \in Seq(E) /\ Len(put) = m + 1 /\ put[m + 1] = new
      /\ \A i \in 1..m : put[i] = others[i]
  BY <1>1, <1>4, AppendProperties
<1>6. DOMAIN put = 1..(m + 1)
  BY <1>5
<1> HIDE DEF put, m
<1>7. ASSUME NEW i \in 1..(m + 1), NEW j \in 1..(m + 1), put[i].key = put[j].key PROVE i = j
  <2>1. new.key = k
    BY DEF new
  <2>2. (i = m + 1 \/ i \in 1..m) /\ (j = m + 1 \/ j \in 1..m)
    BY <1>5
  <2> QED
    BY <1>4, <1>5, <1>7, <2>1, <2>2 DEF m
<1> QED
  BY <1>3, <1>6, <1>7 DEF DistinctKeys

\* JSON texts are texts, and they are closed under the rules of JSON.
LEMMA JsonClosed == Json \subseteq Seq(Token) /\ JsonRules(Json)
<1>1. \A t : t \in Json <=> t \in Seq(Token) /\ \A S \in SUBSET Seq(Token) : JsonRules(S) => t \in S
  BY DEF Json
<1>2. ASSUME NEW w \in Scanned PROVE << <<"word", w>> >> \in Json
  <2> DEFINE t == << <<"word", w>> >>
  <2>1. t \in Seq(Token)
    BY Tokens
  <2>2. ASSUME NEW S \in SUBSET Seq(Token), JsonRules(S) PROVE t \in S
    BY <2>2 DEF JsonRules
  <2> HIDE DEF t
  <2>3. t \in Json
    BY <1>1, <2>1, <2>2
  <2> QED
    BY <2>3 DEF t
<1> HIDE DEF Json
<1>3. ASSUME NEW S \in SUBSET Seq(Token), JsonRules(S) PROVE Json \subseteq S
  BY <1>1, <1>3
<1>4. Json \subseteq Seq(Token)
  BY <1>1
<1>5. ASSUME NEW v \in Seq(Json) PROVE ArrayText(v) \in Json
  <2>1. ArrayText(v) \in Seq(Token)
    <3>1. v \in Seq(Seq(Token))
      BY <1>4
    <3> QED
      BY <3>1, ArrayTextType
  <2>2. ASSUME NEW S \in SUBSET Seq(Token), JsonRules(S) PROVE ArrayText(v) \in S
    <3>1. Json \subseteq S
      BY <1>3, <2>2
    <3>2. v \in Seq(S)
      BY <3>1
    <3> QED
      BY <2>2, <3>2 DEF JsonRules
  <2> QED
    BY <1>1, <2>1, <2>2
<1>6. ASSUME NEW e \in Seq([key : Scanned, json : Json]), DistinctKeys(e)
      PROVE  EntriesText(e) \in Json
  <2>0. ASSUME NEW S, Json \subseteq S PROVE e \in Seq([key : Scanned, json : S])
    <3> DEFINE E == [key : Scanned, json : Json]
               F == [key : Scanned, json : S]
    <3>1. E \subseteq F
      BY <2>0
    <3>2. e \in Seq(E)
      OBVIOUS
    <3> HIDE DEF E, F
    <3>3. e \in Seq(F)
      BY <3>1, <3>2
    <3> QED
      BY <3>3 DEF F
  <2>1. EntriesText(e) \in Seq(Token)
    <3>1. e \in Seq(Entry)
      BY <1>4, <2>0 DEF Entry
    <3> QED
      BY <3>1, EntriesTextType
  <2>2. ASSUME NEW S \in SUBSET Seq(Token), JsonRules(S) PROVE EntriesText(e) \in S
    <3>1. Json \subseteq S
      BY <1>3, <2>2
    <3>2. e \in Seq([key : Scanned, json : S])
      BY <2>0, <3>1
    <3> QED
      BY <1>6, <2>2, <3>2 DEF JsonRules
  <2> QED
    BY <1>1, <2>1, <2>2
<1> QED
  BY <1>2, <1>4, <1>5, <1>6 DEF JsonRules

\* Entries with JSON values and distinct keys.
JsonEntries == {e \in Seq([key : Scanned, json : Json]) : DistinctKeys(e)}

\* The judgements of a text that speak of JSON.
JsonJudgement(text) ==
  LET At == Place(text)
  IN  {Value(d, i, j, t) : d \in Nat, i \in At, j \in At, t \in Json}
        \cup {ArrayUpTo(d, i, j, v) : d \in Nat, i \in At, j \in At, v \in Seq(Json)}
        \cup {ObjectUpTo(d, i, j, e) : d \in Nat, i \in At \cup {0}, j \in At, e \in JsonEntries}

\* A sequence over a set is one over a larger set.
LEMMA WiderSeq == \A S, T : S \subseteq T => Seq(S) \subseteq Seq(T)
  OBVIOUS

\* Entries with JSON values are entries.
LEMMA JsonEntriesAreEntries == JsonEntries \subseteq Seq(Entry)
<1> DEFINE E == [key : Scanned, json : Json]
<1>1. E \subseteq Entry
  BY JsonClosed DEF Entry
<1>2. JsonEntries \subseteq Seq(E)
  BY DEF JsonEntries
<1> HIDE DEF E
<1> QED
  BY <1>1, <1>2, WiderSeq

\* Membership of a judgement is membership of its content.
LEMMA JsonJudgements ==
  ASSUME NEW text
  PROVE  /\ \A d \in Nat, i, j \in Place(text) :
              \A t : Value(d, i, j, t) \in JsonJudgement(text) <=> t \in Json
         /\ \A d \in Nat, i, j \in Place(text) :
              \A v : ArrayUpTo(d, i, j, v) \in JsonJudgement(text) <=> v \in Seq(Json)
         /\ \A d \in Nat, i \in Place(text) \cup {0}, j \in Place(text) :
              \A e : ObjectUpTo(d, i, j, e) \in JsonJudgement(text) <=> e \in JsonEntries
<1> DEFINE At == Place(text)
           V == {Value(d, i, j, t) : d \in Nat, i \in At, j \in At, t \in Json}
           A == {ArrayUpTo(d, i, j, v) : d \in Nat, i \in At, j \in At, v \in Seq(Json)}
           O == {ObjectUpTo(d, i, j, e) :
                   d \in Nat, i \in At \cup {0}, j \in At, e \in JsonEntries}
<1>1. JsonJudgement(text) = V \cup A \cup O
  BY DEF JsonJudgement
<1>2. \A d, i, j, t : Value(d, i, j, t) \notin A /\ Value(d, i, j, t) \notin O
  BY DEF Value, ArrayUpTo, ObjectUpTo
<1>3. \A d, i, j, v : ArrayUpTo(d, i, j, v) \notin V /\ ArrayUpTo(d, i, j, v) \notin O
  BY DEF Value, ArrayUpTo, ObjectUpTo
<1>4. \A d, i, j, e : ObjectUpTo(d, i, j, e) \notin V /\ ObjectUpTo(d, i, j, e) \notin A
  BY DEF Value, ArrayUpTo, ObjectUpTo
<1>5. \A d, i, j, t : Value(d, i, j, t) \in V <=>
        d \in Nat /\ i \in At /\ j \in At /\ t \in Json
  BY DEF Value
<1>6. \A d, i, j, v : ArrayUpTo(d, i, j, v) \in A <=>
        d \in Nat /\ i \in At /\ j \in At /\ v \in Seq(Json)
  BY DEF ArrayUpTo
<1>7. \A d, i, j, e : ObjectUpTo(d, i, j, e) \in O <=>
        d \in Nat /\ i \in At \cup {0} /\ j \in At /\ e \in JsonEntries
  BY DEF ObjectUpTo
<1> HIDE DEF V, A, O, At
<1>8. /\ \A d, i, j, t : Value(d, i, j, t) \in JsonJudgement(text) <=>
           d \in Nat /\ i \in At /\ j \in At /\ t \in Json
      /\ \A d, i, j, v : ArrayUpTo(d, i, j, v) \in JsonJudgement(text) <=>
           d \in Nat /\ i \in At /\ j \in At /\ v \in Seq(Json)
      /\ \A d, i, j, e : ObjectUpTo(d, i, j, e) \in JsonJudgement(text) <=>
           d \in Nat /\ i \in At \cup {0} /\ j \in At /\ e \in JsonEntries
  BY <1>1, <1>2, <1>3, <1>4, <1>5, <1>6, <1>7
<1> QED
  BY <1>8 DEF At

\* The three sorts of judgement are judgements.
LEMMA JsonJudgementsAreJudgements == \A text : JsonJudgement(text) \subseteq Judgement(text)
<1> TAKE text
<1> DEFINE At == Place(text)
<1>1. Json \subseteq Seq(Token) /\ Seq(Json) \subseteq Seq(Seq(Token))
  BY JsonClosed, WiderSeq
<1>2. {Value(d, i, j, t) : d \in Nat, i \in At, j \in At, t \in Json} \subseteq Judgement(text)
  BY <1>1, JudgementTypes
<1>3. {ArrayUpTo(d, i, j, v) : d \in Nat, i \in At, j \in At, v \in Seq(Json)}
        \subseteq Judgement(text)
  BY <1>1, JudgementTypes
<1>4. {ObjectUpTo(d, i, j, e) : d \in Nat, i \in At \cup {0}, j \in At, e \in JsonEntries}
        \subseteq Judgement(text)
  BY JsonEntriesAreEntries, JudgementTypes
<1> QED
  BY <1>2, <1>3, <1>4 DEF JsonJudgement

\* They follow the rules of reading.
LEMMA JsonJudgementRules ==
  ASSUME NEW text \in Seq(Lexeme), NEW max \in Nat
  PROVE  Rules(JsonJudgement(text), text, max)
<1> DEFINE S == JsonJudgement(text)
           At == Place(text)
<1>1. /\ \A d \in Nat, i, j \in At : \A t : Value(d, i, j, t) \in S <=> t \in Json
      /\ \A d \in Nat, i, j \in At : \A v : ArrayUpTo(d, i, j, v) \in S <=> v \in Seq(Json)
      /\ \A d \in Nat, i \in At \cup {0}, j \in At :
           \A e : ObjectUpTo(d, i, j, e) \in S <=> e \in JsonEntries
  BY JsonJudgements
<1>2. /\ \A k \in At : k \in Nat /\ SkipCommas(text, k) \in At
      /\ \A i \in At : i <= Len(text) => i + 1 \in At
      /\ 1 \in At
  BY Places
<1>3. << >> \in Seq(Json) /\ << >> \in JsonEntries
  BY EmptySeq DEF JsonEntries, DistinctKeys
<1>4. \A d \in Nat : d + 1 \in Nat
  OBVIOUS
<1>5. 0 \in Nat /\ 1 \in Nat
  OBVIOUS
<1> HIDE DEF S, At
<1>6. WordRule(S, text)
  <2> SUFFICES ASSUME NEW d \in Nat, NEW i \in At, IsWord(text, i)
               PROVE  Value(d, i, i + 1, << <<"word", text[i]>> >>) \in S
    BY DEF WordRule, At
  <2> DEFINE t == << <<"word", text[i]>> >>
  <2>1. i <= Len(text) /\ text[i] \in Scanned
    BY DEF IsWord
  <2>2. t \in Json
    BY <2>1, JsonClosed DEF JsonRules
  <2> HIDE DEF t
  <2>3. Value(d, i, i + 1, t) \in S
    BY <1>1, <1>2, <2>1, <2>2
  <2> QED
    BY <2>3 DEF t
<1>7. ArrayRule(S, text, max)
  <2>1. ASSUME NEW d \in Nat, NEW i \in At, Starts(text, i, {"["})
        PROVE  ArrayUpTo(d + 1, i, i + 1, << >>) \in S
    <3>1. i + 1 \in At
      BY <1>2, <2>1 DEF Starts
    <3> QED
      BY <1>1, <1>3, <1>4, <3>1
  <2>2. ASSUME NEW d \in Nat, NEW i \in At, NEW j \in At, NEW k \in At,
               NEW v, NEW t, ArrayUpTo(d, i, j, v) \in S, Value(d, j, k, t) \in S
        PROVE  ArrayUpTo(d, i, SkipCommas(text, k), Append(v, t)) \in S
    <3>1. v \in Seq(Json) /\ t \in Json
      BY <1>1, <2>2
    <3>2. Append(v, t) \in Seq(Json)
      BY <3>1, AppendProperties
    <3> QED
      BY <1>1, <1>2, <3>2
  <2>3. ASSUME NEW d \in Nat, NEW i \in At, NEW j \in At, NEW v,
               ArrayUpTo(d + 1, i, j, v) \in S, Starts(text, j, {"]"})
        PROVE  Value(d, i, j + 1, ArrayText(v)) \in S
    <3>1. v \in Seq(Json)
      BY <1>1, <1>4, <2>3
    <3>2. ArrayText(v) \in Json
      BY <3>1, JsonClosed DEF JsonRules
    <3>3. j + 1 \in At
      BY <1>2, <2>3 DEF Starts
    <3> QED
      BY <1>1, <3>2, <3>3
  <2> QED
    BY <2>1, <2>2, <2>3 DEF ArrayRule, At
<1>8. ObjectRule(S, text, max)
  <2>1. ASSUME NEW d \in Nat, NEW i \in At, Starts(text, i, {"{"})
        PROVE  ObjectUpTo(d + 1, i, i + 1, << >>) \in S
    <3>1. i + 1 \in At
      BY <1>2, <2>1 DEF Starts
    <3> QED
      BY <1>1, <1>3, <1>4, <3>1
  <2>2. ObjectUpTo(1, 0, SkipCommas(text, 1), << >>) \in S
    BY <1>1, <1>2, <1>3, <1>5
  <2>3. ASSUME NEW d \in Nat, NEW i \in At \cup {0}, NEW j \in At, NEW k \in At,
               NEW e, NEW t,
               ObjectUpTo(d, i, j, e) \in S, IsWord(text, j), Value(d, j + 1, k, t) \in S
        PROVE  ObjectUpTo(d, i, SkipCommas(text, k), Put(e, text[j], t)) \in S
    <3>1. j + 1 \in At /\ text[j] \in Scanned
      BY <1>2, <2>3 DEF IsWord
    <3>2. e \in JsonEntries /\ t \in Json
      BY <1>1, <2>3, <3>1
    <3>3. e \in Seq([key : Scanned, json : Json]) /\ DistinctKeys(e)
      BY <3>2 DEF JsonEntries
    <3>4. Put(e, text[j], t) \in Seq([key : Scanned, json : Json])
      BY <3>1, <3>2, <3>3, PutType
    <3>5. DistinctKeys(Put(e, text[j], t))
      BY <3>1, <3>2, <3>3, PutDistinct
    <3>6. Put(e, text[j], t) \in JsonEntries
      BY <3>4, <3>5 DEF JsonEntries
    <3> QED
      BY <1>1, <1>2, <3>6
  <2>4. ASSUME NEW d \in Nat, NEW i \in At, NEW j \in At, NEW e,
               ObjectUpTo(d + 1, i, j, e) \in S, Starts(text, j, {"}"})
        PROVE  Value(d, i, j + 1, EntriesText(e)) \in S
    <3>1. e \in JsonEntries
      BY <1>1, <1>4, <2>4
    <3>2. EntriesText(e) \in Json
      BY <3>1, JsonClosed DEF JsonRules, JsonEntries
    <3>3. j + 1 \in At
      BY <1>2, <2>4 DEF Starts
    <3> QED
      BY <1>1, <3>2, <3>3
  <2> QED
    BY <2>1, <2>2, <2>3, <2>4 DEF ObjectRule, At
<1> QED
  BY <1>6, <1>7, <1>8 DEF Rules, S

\* What a text means is JSON.
LEMMA MeansJson ==
  ASSUME NEW text \in Seq(Lexeme), NEW max \in Nat, NEW t, Means(text, max, t)
  PROVE  t \in Json
<1> DEFINE S == JsonJudgement(text)
           At == Place(text)
<1>1. Reads(text, max) \subseteq S
  BY JsonJudgementsAreJudgements, JsonJudgementRules DEF Reads
<1>2. 0 \in Nat /\ 1 \in Nat /\ Len(text) + 1 \in At /\ SkipCommas(text, 1) \in At
  BY Places DEF Place
<1>3. /\ \A d \in Nat, i, j \in At : Value(d, i, j, t) \in S <=> t \in Json
      /\ \A d \in Nat, i \in At \cup {0}, j \in At :
           \A e : ObjectUpTo(d, i, j, e) \in S <=> e \in JsonEntries
  BY JsonJudgements
<1> HIDE DEF S, At
<1>4. CASE \E e \in Seq(Entry) :
             ObjectUpTo(1, 0, Len(text) + 1, e) \in Reads(text, max) /\ t = EntriesText(e)
  <2>1. PICK e \in Seq(Entry) :
          ObjectUpTo(1, 0, Len(text) + 1, e) \in Reads(text, max) /\ t = EntriesText(e)
    BY <1>4
  <2>2. e \in JsonEntries
    BY <1>1, <1>2, <1>3, <2>1
  <2> QED
    BY <2>1, <2>2, JsonClosed DEF JsonRules, JsonEntries
<1>5. CASE \E j \in At : Value(0, SkipCommas(text, 1), j, t) \in Reads(text, max)
  BY <1>1, <1>2, <1>3, <1>5
<1> QED
  BY <1>4, <1>5 DEF Means, At

\* Whatever ToJSON answers in the direct modes is JSON: an object has no key
\* twice, and commas and colons are where they belong.
THEOREM WritesJson == Spec => [](phase = "ok" => \E t \in Json : dst = Already \o t)
<1>1. WriterInv /\ MeaningInv => (phase = "ok" => \E t \in Json : dst = Already \o t)
  <2> SUFFICES ASSUME WriterInv, MeaningInv, phase = "ok"
               PROVE  \E t \in Json : dst = Already \o t
    OBVIOUS
  <2>1. PICK t \in Seq(Token) : Means(src, limit, t) /\ dst = Already \o t
    BY DEF MeaningInv
  <2>2. src \in Seq(Lexeme) /\ limit \in Nat
    BY DEF WriterInv, TypeOK
  <2> QED
    BY <2>1, <2>2, MeansJson
<1> QED
  BY <1>1, MeaningInvariance, PTL

-------------------------------------------------------------------------------
\* A code point becomes one code unit or two.
LEMMA UnitsType ==
  ASSUME NEW r \in Int
  PROVE  /\ CodeUnits(r) \in Seq(Int)
         /\ Len(CodeUnits(r)) \in {1, 2}
         /\ r \in 0..127 => CodeUnits(r) = << r >>
<1>1. CASE r > 65535
  <2> DEFINE high == 55296 + (r - 65536) \div 1024
             low == 56320 + ((r - 65536) % 1024)
  <2>1. high \in Int /\ low \in Int
    OBVIOUS
  <2>2. CodeUnits(r) = << high, low >> /\ r \notin 0..127
    BY <1>1 DEF CodeUnits
  <2> HIDE DEF high, low
  <2> QED
    BY <2>1, <2>2
<1>2. CASE r <= 65535
  BY <1>2 DEF CodeUnits
<1> QED
  BY <1>1, <1>2

\* The code units of the elements of a key, one by one.
UnitsOf(text) == [i \in DOMAIN text |-> CodeUnits(text[i])]

\* They are code units.
LEMMA UnitsOfType ==
  ASSUME NEW text \in Seq(Int)
  PROVE  /\ UnitsOf(text) \in Seq(Seq(Int)) /\ Len(UnitsOf(text)) = Len(text)
         /\ Len(text) \in Nat /\ Utf16(text) = FlattenSeq(UnitsOf(text))
         /\ \A i \in 1..Len(text) : UnitsOf(text)[i] = CodeUnits(text[i]) /\ text[i] \in Int
<1> DEFINE n == Len(text)
           s == [i \in 1..n |-> CodeUnits(text[i])]
<1>1. n \in Nat /\ DOMAIN text = 1..n /\ \A i \in 1..n : text[i] \in Int
  OBVIOUS
<1>2. \A i \in 1..n : CodeUnits(text[i]) \in Seq(Int)
  BY <1>1, UnitsType
<1>3. UnitsOf(text) = s
  BY <1>1 DEF UnitsOf
<1> HIDE DEF n
<1>4. s \in [1..n -> Seq(Int)]
  BY <1>2
<1>5. s \in Seq(Seq(Int)) /\ Len(s) = n
  BY <1>1, <1>4
<1>6. \A i \in 1..n : s[i] = CodeUnits(text[i])
  OBVIOUS
<1> HIDE DEF s
<1>7. Utf16(text) = FlattenSeq(UnitsOf(text))
  BY DEF Utf16, UnitsOf
<1> QED
  BY <1>1, <1>3, <1>5, <1>6, <1>7 DEF n

\* UTF-16 is a sequence of numbers.
LEMMA Utf16Type ==
  ASSUME NEW text \in Seq(Int)
  PROVE  Utf16(text) \in Seq(Int)
  BY UnitsOfType, FlattenType

\* UTF-16 of ASCII is the text itself: the short cut compares the same numbers.
LEMMA Utf16Ascii ==
  ASSUME NEW text \in Seq(Int), Ascii(text)
  PROVE  Utf16(text) = text
<1> DEFINE n == Len(text)
<1>1. n \in Nat /\ DOMAIN text = 1..n /\ \A i \in 1..n : text[i] \in Int
  OBVIOUS
<1>2. PICK u : Runs(u, UnitsOf(text), Int) /\ FlattenSeq(UnitsOf(text)) = u[n]
  BY UnitsOfType, FlattenRuns
<1> HIDE DEF n
<1>3. /\ u \in [0..n -> Seq(Int)] /\ u[0] = << >>
      /\ \A i \in 1..n : u[i] = u[i - 1] \o UnitsOf(text)[i]
  BY <1>2, UnitsOfType DEF Runs, n
<1>4. \A i \in 1..n : u[i] = u[i - 1] \o << text[i] >>
  <2> TAKE i \in 1..n
  <2>1. text[i] \in 0..127
    BY <1>1 DEF Ascii
  <2>2. UnitsOf(text)[i] = << text[i] >>
    BY <1>1, <2>1, UnitsOfType, UnitsType DEF n
  <2> QED
    BY <1>3, <2>2
<1> DEFINE good(m) == Len(u[m]) = m /\ \A i \in 1..m : u[m][i] = text[i]
           off == {m \in Nat : m \in 0..n /\ ~good(m)}
<1>5. off = {}
  <2> SUFFICES ASSUME off # {} PROVE FALSE
    OBVIOUS
  <2>1. PICK m \in off : \A k \in off : m <= k
    <3>1. off \subseteq Nat
      OBVIOUS
    <3> HIDE DEF off
    <3> QED
      BY <3>1, Least
  <2>2. m \in Nat /\ m \in 0..n /\ ~good(m)
    OBVIOUS
  <2>3. m # 0
    <3>1. good(0)
      BY <1>3, EmptySeq
    <3> HIDE DEF good
    <3> QED
      BY <2>2, <3>1
  <2>4. m - 1 \in 0..n /\ m - 1 \in Nat /\ ~(m <= m - 1) /\ m \in 1..n
    BY <1>1, <2>2, <2>3
  <2>5. good(m - 1)
    <3>1. m - 1 \notin off
      <4> HIDE DEF off
      <4> QED
        BY <2>1, <2>4
    <3> HIDE DEF good
    <3> QED
      BY <2>4, <3>1
  <2> DEFINE v == u[m - 1]
  <2>6. v \in Seq(Int) /\ u[m] = v \o << text[m] >>
    BY <1>3, <1>4, <2>4
  <2>7. Len(v) = m - 1 /\ \A i \in 1..(m - 1) : v[i] = text[i]
    BY <2>5
  <2> HIDE DEF v, off
  <2> DEFINE last == << text[m] >>
  <2>8. last \in Seq(Int) /\ Len(last) = 1 /\ last[1] = text[m]
    BY <1>1, <2>4
  <2>9. u[m] = v \o last
    BY <2>6
  <2> HIDE DEF last
  <2>10. /\ Len(v \o last) = Len(v) + Len(last)
         /\ \A i \in 1..(Len(v) + Len(last)) :
              (v \o last)[i] = IF i <= Len(v) THEN v[i] ELSE last[i - Len(v)]
    BY <2>6, <2>8, ConcatProperties
  <2>11. Len(v) + Len(last) = m
    BY <2>4, <2>7, <2>8
  <2>12. /\ Len(u[m]) = m
        /\ \A i \in 1..m : u[m][i] = IF i <= m - 1 THEN v[i] ELSE last[i - (m - 1)]
    BY <2>7, <2>9, <2>10, <2>11
  <2>13. ASSUME NEW i \in 1..m PROVE u[m][i] = text[i]
    <3>1. CASE i = m
      <4>1. ~(i <= m - 1) /\ i - (m - 1) = 1
        BY <2>4, <3>1
      <4> QED
        BY <2>12, <2>8, <3>1, <4>1
    <3>2. CASE i # m
      <4>1. i <= m - 1 /\ i \in 1..(m - 1)
        BY <2>4, <3>2
      <4> QED
        BY <2>7, <2>12, <4>1
    <3> QED
      BY <3>1, <3>2
  <2>14. good(m)
    BY <2>12, <2>13
  <2> HIDE DEF good
  <2> QED
    BY <2>2, <2>14
<1>6. good(n)
  <2>1. n \in 0..n /\ n \notin off
    BY <1>1, <1>5
  <2> HIDE DEF good
  <2> QED
    BY <1>1, <2>1
<1>7. u[n] \in Seq(Int)
  BY <1>1, <1>3
<1>8. u[n] = text
  BY <1>6, <1>7, SeqEqual DEF n
<1> QED
  BY <1>2, <1>8, UnitsOfType DEF n

\* So every two keys are compared by their UTF-16 code units.
LEMMA LessByUnits ==
  ASSUME NEW left \in Seq(Int), NEW right \in Seq(Int)
  PROVE  StringLess(left, right) <=> LessByElement(Utf16(left), Utf16(right))
  BY Utf16Ascii DEF StringLess

\* A comparison by element is irreflexive, transitive and total.
LEMMA ElementOrder ==
  ASSUME NEW a \in Seq(Int), NEW b \in Seq(Int), NEW c \in Seq(Int)
  PROVE  /\ ~LessByElement(a, a)
         /\ LessByElement(a, b) /\ LessByElement(b, c) => LessByElement(a, c)
         /\ a # b => LessByElement(a, b) \/ LessByElement(b, a)
<1>1. /\ Len(a) \in Nat /\ Len(b) \in Nat /\ Len(c) \in Nat
      /\ \A i \in 1..Len(a) : a[i] \in Int
      /\ \A i \in 1..Len(b) : b[i] \in Int
      /\ \A i \in 1..Len(c) : c[i] \in Int
  OBVIOUS
<1>2. ~LessByElement(a, a)
  BY <1>1 DEF LessByElement
<1>3. ASSUME LessByElement(a, b), LessByElement(b, c) PROVE LessByElement(a, c)
  <2>1. PICK n \in 0..Len(a) :
           /\ n < Len(b) /\ \A i \in 1..n : a[i] = b[i]
           /\ n = Len(a) \/ a[n + 1] < b[n + 1]
    BY <1>3 DEF LessByElement
  <2>2. PICK m \in 0..Len(b) :
           /\ m < Len(c) /\ \A i \in 1..m : b[i] = c[i]
           /\ m = Len(b) \/ b[m + 1] < c[m + 1]
    BY <1>3 DEF LessByElement
  <2>3. CASE n < m
    <3>1. n < Len(c) /\ n + 1 \in 1..m /\ \A i \in 1..n : i \in 1..m
      BY <1>1, <2>1, <2>2, <2>3
    <3>2. b[n + 1] = c[n + 1] /\ \A i \in 1..n : a[i] = c[i]
      BY <2>1, <2>2, <3>1
    <3> QED
      BY <2>1, <3>1, <3>2 DEF LessByElement
  <2>4. CASE m < n
    <3>1. m \in 0..Len(a) /\ m # Len(b) /\ m + 1 \in 1..n /\ \A i \in 1..m : i \in 1..n
      BY <1>1, <2>1, <2>2, <2>4
    <3>2. a[m + 1] = b[m + 1] /\ \A i \in 1..m : a[i] = c[i]
      BY <2>1, <2>2, <3>1
    <3>3. a[m + 1] < c[m + 1]
      BY <2>2, <3>1, <3>2
    <3> QED
      BY <2>2, <3>1, <3>2, <3>3 DEF LessByElement
  <2>5. CASE n = m
    <3>1. b[n + 1] < c[n + 1] /\ \A i \in 1..n : a[i] = c[i]
      BY <1>1, <2>1, <2>2, <2>5
    <3>2. n = Len(a) \/ a[n + 1] < c[n + 1]
      <4>1. ASSUME n # Len(a) PROVE a[n + 1] < c[n + 1]
        <5>1. /\ n + 1 \in 1..Len(a) /\ n + 1 \in 1..Len(b) /\ n + 1 \in 1..Len(c)
          BY <1>1, <2>1, <2>2, <2>5, <4>1
        <5>2. a[n + 1] \in Int /\ b[n + 1] \in Int /\ c[n + 1] \in Int
          BY <1>1, <5>1
        <5> QED
          BY <2>1, <3>1, <4>1, <5>2
      <4> QED
        BY <4>1
    <3> QED
      BY <2>2, <2>5, <3>1, <3>2 DEF LessByElement
  <2> QED
    BY <1>1, <2>1, <2>2, <2>3, <2>4, <2>5
<1>4. ASSUME a # b PROVE LessByElement(a, b) \/ LessByElement(b, a)
  <2> DEFINE D == {i \in Nat : i \in 1..Len(a) /\ i \in 1..Len(b) /\ a[i] # b[i]}
  <2>1. CASE D # {}
    <3>1. PICK d \in D : \A k \in D : d <= k
      <4>1. D \subseteq Nat
        OBVIOUS
      <4> HIDE DEF D
      <4> QED
        BY <2>1, <4>1, Least
    <3>2. d \in 1..Len(a) /\ d \in 1..Len(b) /\ a[d] # b[d] /\ a[d] \in Int /\ b[d] \in Int
      BY <1>1
    <3>3. ASSUME NEW i \in 1..(d - 1) PROVE a[i] = b[i]
      <4>1. i \in Nat /\ i \in 1..Len(a) /\ i \in 1..Len(b) /\ ~(d <= i)
        BY <1>1, <3>2
      <4>2. i \notin D
        <5> HIDE DEF D
        <5> QED
          BY <3>1, <4>1
      <4> QED
        BY <4>1, <4>2
    <3>4. /\ d - 1 \in 0..Len(a) /\ d - 1 \in 0..Len(b) /\ d - 1 < Len(a)
          /\ d - 1 < Len(b) /\ (d - 1) + 1 = d
      BY <1>1, <3>2
    <3>5. CASE a[d] < b[d]
      BY <3>3, <3>4, <3>5 DEF LessByElement
    <3>6. CASE b[d] < a[d]
      BY <3>3, <3>4, <3>6 DEF LessByElement
    <3> QED
      BY <3>2, <3>5, <3>6
  <2>2. CASE D = {}
    <3>1. \A i \in Nat : i \in 1..Len(a) /\ i \in 1..Len(b) => a[i] = b[i]
      BY <2>2
    <3> HIDE DEF D
    <3>2. CASE Len(a) < Len(b)
      <4>1. Len(a) \in 0..Len(a) /\ \A i \in 1..Len(a) : i \in Nat /\ i \in 1..Len(b)
        BY <1>1, <3>2
      <4> QED
        BY <3>1, <3>2, <4>1 DEF LessByElement
    <3>3. CASE Len(b) < Len(a)
      <4>1. Len(b) \in 0..Len(b) /\ \A i \in 1..Len(b) : i \in Nat /\ i \in 1..Len(a)
        BY <1>1, <3>3
      <4> QED
        BY <3>1, <3>3, <4>1 DEF LessByElement
    <3>4. CASE Len(a) = Len(b)
      <4>1. \A i \in 1..Len(a) : a[i] = b[i]
        BY <1>1, <3>1, <3>4
      <4> QED
        BY <1>4, <3>4, <4>1, SeqEqual
    <3> QED
      BY <1>1, <3>2, <3>3, <3>4
  <2> QED
    BY <2>1, <2>2
<1> QED
  BY <1>2, <1>3, <1>4

\* The order of keys is what the member tables assume of Before, for any keys,
\* those with bytes that are no UTF-8 and mixtures with ASCII included.
THEOREM KeysOrdered ==
  ASSUME NEW keys \in SUBSET Seq(Int)
  PROVE  LET before == {p \in keys \X keys : StringLess(p[1], p[2])}
         IN  /\ \A k \in keys : <<k, k>> \notin before
             /\ \A a, b, c \in keys :
                  <<a, b>> \in before /\ <<b, c>> \in before => <<a, c>> \in before
<1>1. \A k \in keys : ~StringLess(k, k)
  <2> TAKE k \in keys
  <2>1. k \in Seq(Int) /\ Utf16(k) \in Seq(Int)
    BY Utf16Type
  <2> QED
    BY <2>1, LessByUnits, ElementOrder
<1>2. ASSUME NEW a \in keys, NEW b \in keys, NEW c \in keys,
             StringLess(a, b), StringLess(b, c)
      PROVE  StringLess(a, c)
  <2>1. /\ a \in Seq(Int) /\ b \in Seq(Int) /\ c \in Seq(Int)
        /\ Utf16(a) \in Seq(Int) /\ Utf16(b) \in Seq(Int) /\ Utf16(c) \in Seq(Int)
    BY Utf16Type
  <2>2. LessByElement(Utf16(a), Utf16(b)) /\ LessByElement(Utf16(b), Utf16(c))
    BY <1>2, <2>1, LessByUnits
  <2>3. LessByElement(Utf16(a), Utf16(c))
    BY <2>1, <2>2, ElementOrder
  <2> QED
    BY <2>1, <2>3, LessByUnits
<1> QED
  BY <1>1, <1>2

\* The runs grow: each one starts with those before it.
LEMMA RunsGrow ==
  ASSUME NEW T, NEW parts \in Seq(Seq(T)), NEW u, Runs(u, parts, T),
         NEW i \in 0..Len(parts), NEW j \in i..Len(parts)
  PROVE  /\ Len(u[i]) \in Nat /\ Len(u[j]) \in Nat /\ Len(u[i]) <= Len(u[j])
         /\ \A k \in 1..Len(u[i]) : u[j][k] = u[i][k]
<1> DEFINE n == Len(parts)
           good(m) == Len(u[i]) <= Len(u[m]) /\ \A k \in 1..Len(u[i]) : u[m][k] = u[i][k]
           off == {m \in Nat : m \in i..n /\ ~good(m)}
<1>1. n \in Nat /\ i \in Nat /\ \A m \in 1..n : parts[m] \in Seq(T)
  OBVIOUS
<1>2. \A m \in 0..n : u[m] \in Seq(T) /\ Len(u[m]) \in Nat
  BY DEF Runs
<1>3. off = {}
  <2> SUFFICES ASSUME off # {} PROVE FALSE
    OBVIOUS
  <2>1. PICK m \in off : \A k \in off : m <= k
    <3>1. off \subseteq Nat
      OBVIOUS
    <3> HIDE DEF off
    <3> QED
      BY <3>1, Least
  <2>2. m \in Nat /\ m \in i..n /\ ~good(m)
    OBVIOUS
  <2>3. m # i
    BY <1>1, <1>2, <2>2
  <2>4. m - 1 \in i..n /\ m - 1 \in Nat /\ ~(m <= m - 1) /\ m \in 1..n /\ m - 1 \in 0..n
    <3> HIDE DEF good, n, off
    <3> QED
      BY <1>1, <2>2, <2>3
  <2>5. good(m - 1)
    <3>1. m - 1 \notin off
      <4> HIDE DEF off
      <4> QED
        BY <2>1, <2>4
    <3> HIDE DEF good
    <3> QED
      BY <2>4, <3>1
  <2> DEFINE v == u[m - 1]
             last == parts[m]
  <2>6. v \in Seq(T) /\ last \in Seq(T) /\ u[m] = v \o last
    BY <1>1, <1>2, <2>4 DEF Runs
  <2>7. Len(u[i]) <= Len(v) /\ \A k \in 1..Len(u[i]) : v[k] = u[i][k]
    BY <2>5
  <2> HIDE DEF v, last, off
  <2>8. /\ Len(v \o last) = Len(v) + Len(last)
        /\ \A k \in 1..(Len(v) + Len(last)) :
             (v \o last)[k] = IF k <= Len(v) THEN v[k] ELSE last[k - Len(v)]
    BY <2>6, ConcatProperties
  <2>9. Len(v) \in Nat /\ Len(last) \in Nat /\ Len(u[i]) \in Nat
    BY <1>1, <1>2, <2>6
  <2>10. Len(u[m]) = Len(v) + Len(last)
    BY <2>6, <2>8
  <2>11. Len(u[i]) <= Len(u[m])
    BY <2>7, <2>9, <2>10
  <2>12. ASSUME NEW k \in 1..Len(u[i]) PROVE u[m][k] = u[i][k]
    <3>1. k \in 1..(Len(v) + Len(last)) /\ k <= Len(v)
      BY <2>7, <2>9
    <3>2. u[m][k] = v[k]
      BY <2>6, <2>8, <3>1
    <3> QED
      BY <2>7, <3>2
  <2>13. good(m)
    BY <2>11, <2>12
  <2> HIDE DEF good
  <2> QED
    BY <2>2, <2>13
<1>4. good(j)
  <2>1. j \in i..n /\ j \in Nat
    BY <1>1
  <2>2. j \notin off
    <3> HIDE DEF off
    <3> QED
      BY <1>3
  <2> HIDE DEF good
  <2> QED
    BY <2>1, <2>2
<1>5. i \in 0..n /\ j \in 0..n
  BY <1>1
<1> QED
  BY <1>2, <1>4, <1>5

\* The code points of valid UTF-8.
Rune == {r \in Int : (0 <= r /\ r <= 55295) \/ (57344 <= r /\ r <= 1114111)}

\* They are numbers.
LEMMA RuneText ==
  ASSUME NEW a \in Seq(Rune)
  PROVE  a \in Seq(Int) /\ Len(a) \in Nat /\ \A i \in 1..Len(a) : a[i] \in Rune
<1> DEFINE n == Len(a)
<1>1. n \in Nat /\ a \in [1..n -> Rune]
  BY LenProperties
<1>2. Rune \subseteq Int
  BY SMT DEF Rune
<1> HIDE DEF n
<1>3. a \in [1..n -> Int]
  BY <1>1, <1>2
<1>4. a \in Seq(Int)
  BY <1>1, <1>3
<1> QED
  BY <1>1, <1>4 DEF n

\* What is left when code units start alike: the same code point.
LEMMA UnitsInjective ==
  ASSUME NEW r \in Rune, NEW q \in Rune, CodeUnits(r)[1] = CodeUnits(q)[1],
         Len(CodeUnits(r)) = 2 /\ Len(CodeUnits(q)) = 2 => CodeUnits(r)[2] = CodeUnits(q)[2]
  PROVE  r = q
<1> DEFINE Pair(x) == x > 65535
           High(x) == 55296 <= x /\ x <= 56319
           high(x) == 55296 + (x - 65536) \div 1024
           low(x) == 56320 + ((x - 65536) % 1024)
<1>1. ASSUME NEW x \in Rune
      PROVE  IF Pair(x) THEN CodeUnits(x) = << high(x), low(x) >> /\ High(high(x))
                        ELSE CodeUnits(x) = << x >> /\ ~High(x)
  <2>1. x \in Int /\ x >= 0 /\ x <= 1114111 /\ (x < 55296 \/ x > 56319)
    BY SMT DEF Rune
  <2>2. CASE Pair(x)
    <3>1. CodeUnits(x) = << high(x), low(x) >>
      BY <2>1, <2>2, SMT DEF CodeUnits
    <3>2. High(high(x))
      BY <2>1, <2>2, SMT
    <3> HIDE DEF high, low, Pair, High
    <3> QED
      BY <2>2, <3>1, <3>2
  <2>3. CASE ~Pair(x)
    <3>1. CodeUnits(x) = << x >>
      BY <2>1, <2>3, SMT DEF CodeUnits
    <3>2. ~High(x)
      BY <2>1, SMT
    <3> HIDE DEF high, low, Pair, High
    <3> QED
      BY <2>3, <3>1, <3>2
  <2> HIDE DEF high, low, Pair, High
  <2> QED
    BY <2>2, <2>3
<1>2. ASSUME Pair(r), Pair(q), high(r) = high(q), low(r) = low(q) PROVE r = q
  <2>1. r \in Int /\ q \in Int
    BY SMT DEF Rune
  <2> QED
    BY <1>2, <2>1, SMT
<1> HIDE DEF high, low, Pair, High
<1>3. CASE Pair(r) /\ Pair(q)
  <2>1. CodeUnits(r) = << high(r), low(r) >> /\ CodeUnits(q) = << high(q), low(q) >>
    BY <1>1, <1>3
  <2>2. high(r) = high(q) /\ low(r) = low(q)
    BY <2>1
  <2> QED
    BY <1>2, <1>3, <2>2
<1>4. CASE ~Pair(r) /\ ~Pair(q)
  <2>1. CodeUnits(r) = << r >> /\ CodeUnits(q) = << q >>
    BY <1>1, <1>4
  <2> QED
    BY <2>1
<1>5. CASE Pair(r) /\ ~Pair(q)
  <2>1. CodeUnits(r)[1] = high(r) /\ High(high(r))
    BY <1>1, <1>5
  <2>2. CodeUnits(q)[1] = q /\ ~High(q)
    BY <1>1, <1>5
  <2> QED
    BY <2>1, <2>2
<1>6. CASE ~Pair(r) /\ Pair(q)
  <2>1. CodeUnits(q)[1] = high(q) /\ High(high(q))
    BY <1>1, <1>6
  <2>2. CodeUnits(r)[1] = r /\ ~High(r)
    BY <1>1, <1>6
  <2> QED
    BY <2>1, <2>2
<1> QED
  BY <1>3, <1>4, <1>5, <1>6

\* Two texts with the same UTF-16 are the same up to the end of the shorter one.
LEMMA SameElements ==
  ASSUME NEW a \in Seq(Rune), NEW b \in Seq(Rune), Utf16(a) = Utf16(b)
  PROVE  \A i \in Nat : i \in 1..Len(a) /\ i \in 1..Len(b) => a[i] = b[i]
<1> DEFINE D == {i \in Nat : i \in 1..Len(a) /\ i \in 1..Len(b) /\ a[i] # b[i]}
<1>1. a \in Seq(Int) /\ b \in Seq(Int) /\ Len(a) \in Nat /\ Len(b) \in Nat
  BY RuneText
<1> DEFINE s == UnitsOf(a)
           t == UnitsOf(b)
           whole == Utf16(a)
<1>2. /\ s \in Seq(Seq(Int)) /\ Len(s) = Len(a)
      /\ \A i \in 1..Len(a) : s[i] = CodeUnits(a[i])
      /\ t \in Seq(Seq(Int)) /\ Len(t) = Len(b)
      /\ \A i \in 1..Len(b) : t[i] = CodeUnits(b[i])
      /\ FlattenSeq(s) = whole /\ FlattenSeq(t) = whole
  BY <1>1, UnitsOfType
<1> HIDE DEF s, t, whole
<1>3. PICK u : Runs(u, s, Int) /\ whole = u[Len(a)]
  BY <1>2, FlattenRuns
<1>4. PICK w : Runs(w, t, Int) /\ whole = w[Len(b)]
  BY <1>2, FlattenRuns
<1>5. SUFFICES ASSUME D # {} PROVE FALSE
  <2>1. ASSUME D = {} PROVE \A i \in Nat : i \in 1..Len(a) /\ i \in 1..Len(b) => a[i] = b[i]
    BY <2>1
  <2> HIDE DEF D
  <2> QED
    BY <2>1
<1>6. PICK d \in D : \A k \in D : d <= k
  <2>1. D \subseteq Nat
    OBVIOUS
  <2> HIDE DEF D
  <2> QED
    BY <1>5, <2>1, Least
<1>7. d \in 1..Len(a) /\ d \in 1..Len(b) /\ a[d] # b[d] /\ d \in Nat
  OBVIOUS
<1>8. ASSUME NEW i \in 1..(d - 1) PROVE s[i] = t[i]
  <2>1. i \in Nat /\ i \in 1..Len(a) /\ i \in 1..Len(b) /\ ~(d <= i)
    BY <1>1, <1>7
  <2>2. i \notin D
    <3> HIDE DEF D
    <3> QED
      BY <1>6, <2>1
  <2>3. a[i] = b[i]
    BY <2>1, <2>2
  <2> QED
    BY <1>2, <2>1, <2>3
<1> HIDE DEF D
<1>9. d - 1 \in 0..Len(a) /\ d - 1 \in 0..Len(b) /\ d \in 0..Len(a) /\ d \in 0..Len(b)
      /\ Len(a) \in d..Len(a) /\ Len(b) \in d..Len(b)
  BY <1>1, <1>7
<1> DEFINE p == u[d - 1]
           x == CodeUnits(a[d])
           y == CodeUnits(b[d])
<1>10. w[d - 1] = p
  <2>1. d - 1 \in 0..Len(s) /\ d - 1 \in 0..Len(t)
    BY <1>2, <1>9
  <2>2. u[d - 1] = w[d - 1]
    BY <1>2, <1>3, <1>4, <1>8, <2>1, RunsSame
  <2> QED
    BY <2>2
<1>11. u[d] = p \o x /\ w[d] = p \o y /\ p \in Seq(Int)
  BY <1>2, <1>3, <1>4, <1>7, <1>9, <1>10 DEF Runs
<1>12. /\ x \in Seq(Int) /\ Len(x) \in {1, 2} /\ y \in Seq(Int) /\ Len(y) \in {1, 2}
       /\ a[d] \in Rune /\ b[d] \in Rune
  <2>1. a[d] \in Int /\ b[d] \in Int /\ a[d] \in Rune /\ b[d] \in Rune
    BY <1>1, <1>7
  <2> QED
    BY <2>1, UnitsType
<1>13. /\ \A k \in 1..Len(u[d]) : whole[k] = u[d][k]
       /\ \A k \in 1..Len(w[d]) : whole[k] = w[d][k]
  <2>1. d \in 0..Len(s) /\ Len(s) \in d..Len(s) /\ whole = u[Len(s)]
    BY <1>2, <1>3, <1>9
  <2>2. \A k \in 1..Len(u[d]) : whole[k] = u[d][k]
    BY <1>2, <1>3, <2>1, RunsGrow
  <2>3. d \in 0..Len(t) /\ Len(t) \in d..Len(t) /\ whole = w[Len(t)]
    BY <1>2, <1>4, <1>9
  <2>4. \A k \in 1..Len(w[d]) : whole[k] = w[d][k]
    BY <1>2, <1>4, <2>3, RunsGrow
  <2> QED
    BY <2>2, <2>4
<1> HIDE DEF p, x, y
<1>14. /\ Len(p \o x) = Len(p) + Len(x) /\ Len(p \o y) = Len(p) + Len(y) /\ Len(p) \in Nat
       /\ \A k \in 1..(Len(p) + Len(x)) :
            (p \o x)[k] = IF k <= Len(p) THEN p[k] ELSE x[k - Len(p)]
       /\ \A k \in 1..(Len(p) + Len(y)) :
            (p \o y)[k] = IF k <= Len(p) THEN p[k] ELSE y[k - Len(p)]
  BY <1>11, <1>12, ConcatProperties
<1>15. ASSUME NEW k \in {1, 2}, k <= Len(x), k <= Len(y) PROVE x[k] = y[k]
  <2>1. Len(p) + k \in 1..(Len(p) + Len(x)) /\ Len(p) + k \in 1..(Len(p) + Len(y))
        /\ ~(Len(p) + k <= Len(p)) /\ (Len(p) + k) - Len(p) = k
    <3>1. Len(x) \in Nat /\ Len(y) \in Nat /\ k \in Nat /\ k >= 1 /\ Len(p) \in Nat
      BY <1>12, <1>14
    <3> QED
      BY <1>15, <3>1
  <2>2. whole[Len(p) + k] = x[k]
    BY <1>11, <1>13, <1>14, <2>1
  <2>3. whole[Len(p) + k] = y[k]
    BY <1>11, <1>13, <1>14, <2>1
  <2> QED
    BY <2>2, <2>3
<1>16. x[1] = y[1] /\ (Len(x) = 2 /\ Len(y) = 2 => x[2] = y[2])
  <2>1. \A k \in {1, 2} : k <= Len(x) /\ k <= Len(y) => x[k] = y[k]
    BY <1>15
  <2>2. Len(x) \in {1, 2} /\ Len(y) \in {1, 2}
    BY <1>12
  <2> QED
    BY <2>1, <2>2
<1>17. a[d] = b[d]
  BY <1>12, <1>16, UnitsInjective DEF x, y
<1> QED
  BY <1>7, <1>17

\* A text is not longer than another one with the same UTF-16.
LEMMA SameLength ==
  ASSUME NEW a \in Seq(Rune), NEW b \in Seq(Rune), Utf16(a) = Utf16(b)
  PROVE  ~(Len(a) < Len(b))
<1>1. a \in Seq(Int) /\ b \in Seq(Int) /\ Len(a) \in Nat /\ Len(b) \in Nat
  BY RuneText
<1> DEFINE s == UnitsOf(a)
           t == UnitsOf(b)
           n == Len(a)
<1>2. /\ s \in Seq(Seq(Int)) /\ Len(s) = n
      /\ \A i \in 1..n : s[i] = CodeUnits(a[i])
      /\ t \in Seq(Seq(Int)) /\ Len(t) = Len(b)
      /\ \A i \in 1..Len(b) : t[i] = CodeUnits(b[i]) /\ b[i] \in Int
      /\ FlattenSeq(s) = Utf16(a) /\ FlattenSeq(t) = Utf16(a)
  BY <1>1, UnitsOfType
<1> HIDE DEF s, t, n
<1>3. PICK u : Runs(u, s, Int) /\ Utf16(a) = u[n]
  BY <1>2, FlattenRuns
<1>4. PICK w : Runs(w, t, Int) /\ Utf16(a) = w[Len(b)]
  BY <1>2, FlattenRuns
<1>5. SUFFICES ASSUME n < Len(b) PROVE FALSE
  BY DEF n
<1>6. n \in Nat
  BY <1>1 DEF n
<1>7. n \in 0..n /\ n \in 0..Len(b) /\ n + 1 \in 1..Len(b) /\ n + 1 \in 0..Len(b)
      /\ Len(b) \in (n + 1)..Len(b) /\ (n + 1) - 1 = n
  BY <1>1, <1>5, <1>6
<1>8. \A i \in 1..n : s[i] = t[i]
  <2> TAKE i \in 1..n
  <2>1. i \in Nat /\ i \in 1..Len(a) /\ i \in 1..Len(b)
    BY <1>1, <1>5 DEF n
  <2>2. a[i] = b[i]
    BY <2>1, SameElements
  <2> QED
    BY <1>2, <2>1, <2>2
<1>9. w[n] = u[n]
  <2>1. n \in 0..Len(s) /\ n \in 0..Len(t)
    BY <1>2, <1>7
  <2> QED
    <3>1. \A k \in 1..n : s[k] = t[k]
      BY <1>8
    <3>2. s \in Seq(Seq(Int)) /\ t \in Seq(Seq(Int)) /\ Runs(u, s, Int) /\ Runs(w, t, Int)
      BY <1>2, <1>3, <1>4
    <3>3. u[n] = w[n]
      BY <2>1, <3>1, <3>2, RunsSame
    <3> QED
      BY <3>3
<1>10. w[n + 1] = w[n] \o t[n + 1] /\ w[n] \in Seq(Int)
  BY <1>2, <1>4, <1>7 DEF Runs
<1>11. t[n + 1] \in Seq(Int) /\ Len(t[n + 1]) \in {1, 2}
  BY <1>2, <1>7, UnitsType
<1>12. Len(w[n + 1]) = Len(w[n]) + Len(t[n + 1])
  BY <1>10, <1>11, ConcatProperties
<1>13. Len(w[n + 1]) <= Len(w[Len(b)])
  BY <1>2, <1>4, <1>7, RunsGrow
<1>14. Len(w[n]) \in Nat /\ Len(w[Len(b)]) = Len(w[n])
  <2>1. w[Len(b)] = w[n]
    BY <1>3, <1>4, <1>9
  <2> QED
    BY <1>10, <2>1, LenProperties
<1> DEFINE before == Len(w[n])
           more == Len(t[n + 1])
<1>15. before \in Nat /\ more \in {1, 2} /\ before + more <= before
  BY <1>11, <1>12, <1>13, <1>14
<1> HIDE DEF before, more
<1> QED
  BY <1>15

\* UTF-16 tells valid keys apart.
LEMMA Utf16Injective ==
  ASSUME NEW a \in Seq(Rune), NEW b \in Seq(Rune), Utf16(a) = Utf16(b)
  PROVE  a = b
<1>1. Len(a) \in Nat /\ Len(b) \in Nat /\ ~(Len(a) < Len(b)) /\ ~(Len(b) < Len(a))
  BY SameLength
<1>2. Len(a) = Len(b)
  BY <1>1
<1>3. \A i \in 1..Len(a) : i \in Nat /\ i \in 1..Len(b)
  BY <1>1, <1>2
<1>4. \A i \in 1..Len(a) : a[i] = b[i]
  BY <1>3, SameElements
<1> QED
  BY <1>2, <1>4, SeqEqual

\* Of two different valid keys one comes first: only bytes that are no UTF-8 tie.
THEOREM KeysTotal ==
  ASSUME NEW a \in Seq(Rune), NEW b \in Seq(Rune), a # b
  PROVE  StringLess(a, b) \/ StringLess(b, a)
<1>1. a \in Seq(Int) /\ b \in Seq(Int)
  BY RuneText
<1>2. Utf16(a) \in Seq(Int) /\ Utf16(b) \in Seq(Int) /\ Utf16(a) # Utf16(b)
  BY <1>1, Utf16Type, Utf16Injective
<1>3. LessByElement(Utf16(a), Utf16(b)) \/ LessByElement(Utf16(b), Utf16(a))
  BY <1>2, ElementOrder
<1> QED
  BY <1>1, <1>3, LessByUnits

\* Sorting is not stable and needs not be: different valid keys have one
\* arrangement, so the order of the members on the way in does not show in a
\* canonical text.
THEOREM OneArrangement ==
  ASSUME NEW keys \in Seq(Seq(Rune)),
         \A i, j \in DOMAIN keys : keys[i] = keys[j] => i = j,
         NEW p \in Arrangements(keys), NEW q \in Arrangements(keys)
  PROVE  p = q
<1> DEFINE n == Len(keys)
           D == 1..n
<1>1. n \in Nat /\ DOMAIN keys = D /\ \A i \in D : keys[i] \in Seq(Rune)
  OBVIOUS
<1>2. IsFiniteSet(D) /\ Cardinality(D) = n
  BY <1>1, FS_Interval
<1>3. \A f \in Arrangements(keys) :
        /\ f \in [D -> D] /\ \A i, j \in D : i # j => f[i] # f[j]
        /\ \A i, j \in D : i < j => ~StringLess(keys[f[j]], keys[f[i]])
  BY <1>1, <1>2 DEF Arrangements, SetToSeqs
<1> HIDE DEF D
<1>4. ASSUME NEW f \in Arrangements(keys), NEW v \in D PROVE \E i \in D : f[i] = v
  <2>1. f \in Injection(D, D)
    BY <1>3 DEF Injection, IsInjective
  <2>2. f \in Surjection(D, D)
    BY <1>2, <2>1, FS_Injection
  <2> QED
    BY <2>2 DEF Surjection
<1>5. /\ p \in [D -> D] /\ \A i, j \in D : i # j => p[i] # p[j]
      /\ \A i, j \in D : i < j => ~StringLess(keys[p[j]], keys[p[i]])
      /\ q \in [D -> D] /\ \A i, j \in D : i # j => q[i] # q[j]
      /\ \A i, j \in D : i < j => ~StringLess(keys[q[j]], keys[q[i]])
  BY <1>3
<1> DEFINE off == {i \in D : p[i] # q[i]}
<1>6. SUFFICES ASSUME off # {} PROVE FALSE
  <2>1. ASSUME off = {} PROVE p = q
    <3>1. \A i \in D : p[i] = q[i]
      BY <2>1
    <3> QED
      BY <1>5, <3>1
  <2> HIDE DEF off
  <2> QED
    BY <2>1
<1>7. PICK d \in off : \A k \in off : d <= k
  <2>1. off \subseteq Nat
    BY <1>1 DEF D
  <2> HIDE DEF off
  <2> QED
    BY <1>6, <2>1, Least
<1>8. d \in D /\ p[d] # q[d]
  OBVIOUS
<1>9. \A i \in D : i < d => p[i] = q[i]
  <2> TAKE i \in D
  <2>1. i < d => ~(d <= i)
    BY <1>1, <1>8 DEF D
  <2>2. i < d => i \notin off
    <3> HIDE DEF off
    <3> QED
      BY <1>7, <2>1
  <2> QED
    BY <2>2
<1> HIDE DEF off
<1>10. p[d] \in D /\ q[d] \in D
  BY <1>5, <1>8
<1>11. PICK j \in D : q[j] = p[d]
  BY <1>4, <1>10
<1>12. PICK k \in D : p[k] = q[d]
  BY <1>4, <1>10
<1>13. ~(j < d) /\ j # d /\ ~(k < d) /\ k # d
  BY <1>5, <1>8, <1>9, <1>11, <1>12
<1>14. d < j /\ d < k
  BY <1>1, <1>8, <1>13 DEF D
<1>15. ~StringLess(keys[p[d]], keys[q[d]])
  BY <1>5, <1>8, <1>11, <1>14
<1>16. ~StringLess(keys[q[d]], keys[p[d]])
  BY <1>5, <1>8, <1>12, <1>14
<1>17. keys[p[d]] \in Seq(Rune) /\ keys[q[d]] \in Seq(Rune) /\ keys[p[d]] # keys[q[d]]
  BY <1>1, <1>8, <1>10
<1> QED
  BY <1>15, <1>16, <1>17, KeysTotal
===============================================================================
