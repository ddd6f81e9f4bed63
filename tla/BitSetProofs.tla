------------------------------ MODULE BitSetProofs ------------------------------
(***************************************************************************)
(* For every largest bit and any number of ranges: the merge loop of       *)
(* canonicalBitSet keeps its ranges apart, and for a set that was parsed   *)
(* it neither loses nor adds a bit.                                        *)
(***************************************************************************)
EXTENDS BitSet, TLAPS

\* The ranges a parse has let through.
Whole(s) == \A i \in 1..Len(s) : s[i].first <= s[i].last

\* Sorting changes the order of the ranges and nothing else.
SortedWell ==
  phase \in {"merge", "done"} =>
    /\ \A i, j \in 1..Len(sorted) : i < j => sorted[i].first <= sorted[j].first
    /\ Bits(sorted) = Bits(given)

\* The canonical ranges have the bits of the ranges taken so far.
TakenBits == Bits(canonical) = {b \in Bit : \E i \in 1..taken : In(b, sorted[i])}

\* What is still to come begins no earlier than the last canonical range.
Ahead ==
  \A n \in 1..Len(canonical), i \in (taken + 1)..Len(sorted) :
    canonical[n].first <= sorted[i].first

BitsInv ==
  /\ TypeOK
  /\ Whole(given) /\ Whole(sorted)
  /\ SortedWell
  /\ TakenBits
  /\ Ahead
  /\ phase = "done" => taken = Len(sorted)

ApartInv == TypeOK /\ Separated

-------------------------------------------------------------------------------
\* The ends of a range are numbers.
LEMMA RangeNat == \A r \in Range : r.first \in Nat /\ r.last \in Nat
<1> QED
  BY MaxBitAssumption DEF Range, Bit

\* A range with its ends in order is a range, and its ends are in order.
LEMMA UprightRange ==
  ASSUME NEW r \in Range
  PROVE  Upright(r) \in Range /\ Upright(r).first <= Upright(r).last
  BY MaxBitAssumption DEF Upright, Range, Bit

\* The three ways the loop takes a range.
LEMMA MergeCases ==
  ASSUME TypeOK, Merge
  PROVE  /\ taken' = taken + 1 /\ taken' \in 1..Len(sorted)
         /\ UNCHANGED <<given, sorted, phase>> /\ phase = "merge"
         /\ sorted[taken + 1] \in Range
         /\ LET r == Upright(sorted[taken + 1])
                n == Len(canonical)
            IN  \/ /\ n = 0 \/ canonical[n].last + 1 < r.first
                   /\ canonical' = Append(canonical, r)
                \/ /\ n # 0 /\ r.first <= canonical[n].last + 1
                   /\ r.last > canonical[n].last
                   /\ canonical' = [canonical EXCEPT ![n].last = r.last]
                \/ /\ n # 0 /\ r.last <= canonical[n].last
                   /\ r.first <= canonical[n].last + 1
                   /\ canonical' = canonical
<1> DEFINE r == Upright(sorted[taken + 1])
           n == Len(canonical)
<1>1. taken' = taken + 1 /\ taken' \in 1..Len(sorted) /\ phase = "merge"
      /\ UNCHANGED <<given, sorted, phase>>
  BY DEF Merge, TypeOK
<1>2. sorted[taken + 1] \in Range
  BY <1>1 DEF TypeOK
<1>3. r \in Range
  BY <1>2, UprightRange
<1>4. canonical' =
        IF n = 0 \/ ~Touches(r, canonical[n]) THEN Append(canonical, r)
        ELSE IF r.last > canonical[n].last
             THEN [canonical EXCEPT ![n].last = r.last]
             ELSE canonical
  BY DEF Merge
<1>5. n # 0 => canonical[n] \in Range
  BY DEF TypeOK
<1> HIDE DEF r
<1>6. /\ r.first \in Nat /\ r.last \in Nat
      /\ n # 0 => canonical[n].last \in Nat /\ canonical[n].first \in Nat
  BY <1>3, <1>5, MaxBitAssumption DEF Range, Bit
<1> HIDE DEF n
<1>7. \/ /\ n = 0 \/ canonical[n].last + 1 < r.first
         /\ canonical' = Append(canonical, r)
      \/ /\ n # 0 /\ r.first <= canonical[n].last + 1
         /\ r.last > canonical[n].last
         /\ canonical' = [canonical EXCEPT ![n].last = r.last]
      \/ /\ n # 0 /\ r.last <= canonical[n].last
         /\ r.first <= canonical[n].last + 1
         /\ canonical' = canonical
  BY <1>4, <1>6 DEF Touches
<1> QED
  BY <1>1, <1>2, <1>7 DEF n, r

\* Extending the last range leaves the others alone.
LEMMA Extended ==
  ASSUME NEW s \in Seq(Range), Len(s) # 0, NEW l \in Bit
  PROVE  LET t == [s EXCEPT ![Len(s)].last = l]
         IN  /\ t \in Seq(Range) /\ Len(t) = Len(s)
             /\ \A i \in 1..(Len(s) - 1) : t[i] = s[i]
             /\ t[Len(s)].first = s[Len(s)].first /\ t[Len(s)].last = l
<1> DEFINE n == Len(s)
           t == [s EXCEPT ![n].last = l]
<1>1. n \in 1..n /\ s[n] \in Range
  OBVIOUS
<1>2. [s[n] EXCEPT !.last = l] \in Range
  BY <1>1 DEF Range
<1>3. t = [s EXCEPT ![n] = [s[n] EXCEPT !.last = l]]
  OBVIOUS
<1>4. t \in Seq(Range) /\ Len(t) = n
  BY <1>1, <1>2, <1>3
<1>5. t[n] = [s[n] EXCEPT !.last = l]
  BY <1>1, <1>3
<1>6. t[n].first = s[n].first /\ t[n].last = l
  BY <1>1, <1>5 DEF Range
<1>7. \A i \in 1..(n - 1) : t[i] = s[i]
  BY <1>3
<1> QED
  BY <1>4, <1>6, <1>7

\* Every step keeps the types.
LEMMA TypeStep == TypeOK /\ [Next]_vars => TypeOK'
<1> SUFFICES ASSUME TypeOK, [Next]_vars PROVE TypeOK'
  OBVIOUS
<1>1. ASSUME NEW r \in Range, ReadRange(r) PROVE TypeOK'
  BY <1>1 DEF ReadRange, TypeOK
<1>2. ASSUME NEW r \in Range, RejectRange(r) PROVE TypeOK'
  BY <1>2 DEF RejectRange, TypeOK
<1>3. CASE ReadAll
  BY <1>3 DEF ReadAll, TypeOK
<1>4. CASE Sort
  <2>1. PICK p \in Orders(Len(given)) :
          sorted' = [i \in 1..Len(given) |-> given[p[i]]]
    BY <1>4 DEF Sort
  <2>2. Len(given) \in Nat /\ p \in [1..Len(given) -> 1..Len(given)]
    BY <2>1 DEF Orders, TypeOK
  <2>3. \A i \in 1..Len(given) : given[p[i]] \in Range
    BY <2>2 DEF TypeOK
  <2>4. sorted' \in Seq(Range)
    BY <2>1, <2>2, <2>3
  <2> QED
    BY <1>4, <2>4 DEF Sort, TypeOK
<1>5. CASE Merge
  <2> DEFINE r == Upright(sorted[taken + 1])
             n == Len(canonical)
  <2>1. r \in Range
    BY <1>5, MergeCases, UprightRange
  <2>2. canonical' \in Seq(Range)
    <3>1. CASE canonical' = Append(canonical, r)
      BY <2>1, <3>1 DEF TypeOK
    <3>2. CASE n # 0 /\ canonical' = [canonical EXCEPT ![n].last = r.last]
      BY <2>1, <3>2, Extended DEF TypeOK, Range
    <3>3. CASE canonical' = canonical
      BY <3>3 DEF TypeOK
    <3> QED
      BY <1>5, <3>1, <3>2, <3>3, MergeCases
  <2> QED
    BY <1>5, <2>2, MergeCases DEF TypeOK
<1>6. CASE Finish
  BY <1>6 DEF Finish, TypeOK
<1>7. CASE UNCHANGED vars
  BY <1>7 DEF vars, TypeOK
<1> QED
  BY <1>1, <1>2, <1>3, <1>4, <1>5, <1>6, <1>7 DEF Next

\* The set the merge starts with is separated.
LEMMA EmptySeparated ==
  ASSUME canonical' = << >>
  PROVE  Separated'
<1>1. Len(canonical') = 0
  OBVIOUS
<1> QED
  BY <1>1 DEF Separated

\* Every step keeps the ranges apart: a range is added only behind a gap, and
\* extended only at the end of the set.
LEMMA ApartStep == ApartInv /\ [Next]_vars => ApartInv'
<1> SUFFICES ASSUME ApartInv, [Next]_vars PROVE Separated'
  BY TypeStep DEF ApartInv
<1> USE DEF ApartInv
<1>1. CASE UNCHANGED canonical
  BY <1>1 DEF Separated
<1>2. CASE Sort
  BY <1>2, EmptySeparated DEF Sort
<1>3. CASE Merge
  <2> DEFINE r == Upright(sorted[taken + 1])
             n == Len(canonical)
  <2>1. r \in Range /\ r.first <= r.last
    BY <1>3, MergeCases, UprightRange
  <2>2. /\ canonical \in Seq(Range) /\ n \in Nat
        /\ \A i \in 1..n : canonical[i].first \in Nat /\ canonical[i].last \in Nat
        /\ r.first \in Nat /\ r.last \in Nat
    <3>1. \A i \in 1..n : canonical[i] \in Range
      BY DEF TypeOK
    <3>2. canonical \in Seq(Range) /\ n \in Nat
      BY DEF TypeOK
    <3> HIDE DEF r, n
    <3> QED
      BY <2>1, <3>1, <3>2, RangeNat
  <2>3. /\ \A i \in 1..n : canonical[i].first <= canonical[i].last
        /\ \A i, j \in 1..n : i < j => canonical[i].last + 1 < canonical[j].first
    BY DEF Separated
  <2>4. CASE /\ n = 0 \/ canonical[n].last + 1 < r.first
             /\ canonical' = Append(canonical, r)
    <3> DEFINE t == canonical'
    <3>1. Len(t) = n + 1 /\ t[n + 1] = r /\ \A i \in 1..n : t[i] = canonical[i]
      BY <2>2, <2>4
    <3>2. \A i \in 1..n : canonical[i].last + 1 < r.first
      BY <2>2, <2>3, <2>4
    <3> HIDE DEF r, n, t
    <3>3. \A i \in 1..(n + 1) : t[i].first <= t[i].last
      BY <2>1, <2>2, <2>3, <3>1
    <3>4. ASSUME NEW i \in 1..(n + 1), NEW j \in 1..(n + 1), i < j
          PROVE  t[i].last + 1 < t[j].first
      <4>1. i \in 1..n
        BY <2>2, <3>4
      <4>2. CASE j = n + 1
        BY <3>1, <3>2, <4>1, <4>2
      <4>3. CASE j \in 1..n
        BY <2>3, <3>1, <3>4, <4>1, <4>3
      <4> QED
        BY <2>2, <4>2, <4>3
    <3> QED
      BY <3>1, <3>3, <3>4 DEF Separated, t
  <2>5. CASE /\ n # 0 /\ r.last > canonical[n].last
             /\ canonical' = [canonical EXCEPT ![n].last = r.last]
    <3> DEFINE t == canonical'
    <3>1. /\ Len(t) = n /\ \A i \in 1..(n - 1) : t[i] = canonical[i]
          /\ t[n].first = canonical[n].first /\ t[n].last = r.last
      BY <2>1, <2>2, <2>5, Extended DEF Range
    <3>2. n \in 1..n
      BY <2>2, <2>5
    <3> HIDE DEF r, n, t
    <3>3. \A i \in 1..n : t[i].first <= t[i].last
      BY <2>2, <2>3, <2>5, <3>1, <3>2
    <3>4. \A i, j \in 1..n : i < j => t[i].last + 1 < t[j].first
      BY <2>2, <2>3, <3>1, <3>2
    <3> QED
      BY <3>1, <3>3, <3>4 DEF Separated, t
  <2>6. CASE canonical' = canonical
    BY <2>6 DEF Separated
  <2> QED
    BY <1>3, <2>4, <2>5, <2>6, MergeCases
<1>4. CASE UNCHANGED vars
  BY <1>1, <1>4 DEF vars
<1> QED
  BY <1>1, <1>2, <1>3, <1>4 DEF Next, ReadRange, RejectRange, ReadAll, Finish

\* The invariant holds of every set, parsed or not.
LEMMA ApartAlways == Spec => []ApartInv
<1>1. Init => ApartInv
  <2> SUFFICES ASSUME Init PROVE ApartInv
    OBVIOUS
  <2>1. given \in Seq(Range)
    <3>1. CASE given = << >>
      BY <3>1
    <3>2. CASE given \in UNION {[1..n -> Range] : n \in 0..MaxRanges}
      <4>1. PICK n \in 0..MaxRanges : given \in [1..n -> Range]
        BY <3>2
      <4> QED
        BY <4>1, MaxRangesAssumption
    <3> QED
      BY <3>1, <3>2 DEF Init
  <2>2. Len(canonical) = 0
    BY DEF Init
  <2> QED
    BY <2>1, <2>2 DEF Init, ApartInv, TypeOK, Separated
<1> QED
  BY <1>1, ApartStep, PTL DEF Spec

\* Reading, sorting and merging keep the types of the loop's state: no range
\* leaves the bits there are, at the largest one either.
THEOREM TypeCorrect == Spec => []TypeOK
<1>1. ApartInv => TypeOK
  BY DEF ApartInv
<1> QED
  BY <1>1, ApartAlways, PTL

\* The ranges of a canonical set are always apart, parsed or not.
THEOREM AlwaysSeparated == Spec => []Separated
<1>1. ApartInv => Separated
  BY DEF ApartInv
<1> QED
  BY <1>1, ApartAlways, PTL

-------------------------------------------------------------------------------
\* Sorting a sequence of ranges changes none of its bits.
LEMMA SortBits ==
  ASSUME NEW s \in Seq(Range), NEW p \in Orders(Len(s))
  PROVE  Bits([i \in 1..Len(s) |-> s[p[i]]]) = Bits(s)
<1> DEFINE n == Len(s)
           t == [i \in 1..n |-> s[p[i]]]
<1>1. n \in Nat /\ p \in [1..n -> 1..n] /\ \A j \in 1..n : \E i \in 1..n : p[i] = j
  BY DEF Orders
<1>2. Len(t) = n
  BY <1>1
<1>3. ASSUME NEW b \in Bit, NEW i \in 1..n, In(b, t[i])
      PROVE  \E j \in 1..n : In(b, s[j])
  <2>1. p[i] \in 1..n /\ t[i] = s[p[i]]
    BY <1>1
  <2> QED
    BY <1>3, <2>1
<1>4. ASSUME NEW b \in Bit, NEW j \in 1..n, In(b, s[j])
      PROVE  \E i \in 1..n : In(b, t[i])
  <2>1. PICK i \in 1..n : p[i] = j
    BY <1>1
  <2>2. t[i] = s[j]
    BY <2>1
  <2> QED
    BY <1>4, <2>2
<1> HIDE DEF t
<1>5. Bits(t) = Bits(s)
  BY <1>2, <1>3, <1>4 DEF Bits
<1> QED
  BY <1>5 DEF t

\* One turn of the loop on upright ranges adds the bits of the range it takes.
LEMMA MergeBits ==
  ASSUME TypeOK, Whole(sorted), Separated, Ahead, Merge
  PROVE  Bits(canonical') =
           Bits(canonical) \cup {b \in Bit : In(b, sorted[taken + 1])}
<1> DEFINE r == sorted[taken + 1]
           n == Len(canonical)
           t == canonical'
<1>1. r \in Range /\ taken + 1 \in 1..Len(sorted) /\ taken \in Nat
  BY MergeCases DEF TypeOK
<1>2. r.first <= r.last /\ Upright(r) = r
  BY <1>1, MaxBitAssumption DEF Whole, Upright, Range, Bit
<1>3. /\ n \in Nat /\ canonical \in Seq(Range)
      /\ \A i \in 1..n : canonical[i].first \in Nat /\ canonical[i].last \in Nat
      /\ r.first \in Nat /\ r.last \in Nat
      /\ \A b \in Bit : b \in Nat
  <2>1. \A i \in 1..n : canonical[i] \in Range
    BY DEF TypeOK
  <2>2. n \in Nat /\ canonical \in Seq(Range)
    BY DEF TypeOK
  <2>3. \A b \in Bit : b \in Nat
    BY MaxBitAssumption DEF Bit
  <2> HIDE DEF r, n
  <2> QED
    BY <1>1, <2>1, <2>2, <2>3, RangeNat
<1>4. \A i \in 1..n : canonical[i].first <= canonical[i].last
  BY DEF Separated
<1>5. \A i \in 1..n : canonical[i].first <= r.first
  BY <1>1, <1>3 DEF Ahead
<1>6. CASE canonical' = Append(canonical, r)
  <2>1. Len(t) = n + 1 /\ t[n + 1] = r /\ \A i \in 1..n : t[i] = canonical[i]
    BY <1>3, <1>6
  <2> HIDE DEF r, n, t
  <2>2. \A b \in Bit : (\E i \in 1..(n + 1) : In(b, t[i]))
                       <=> (\E i \in 1..n : In(b, canonical[i])) \/ In(b, r)
    <3> SUFFICES ASSUME NEW b \in Bit
                 PROVE  (\E i \in 1..(n + 1) : In(b, t[i]))
                        <=> (\E i \in 1..n : In(b, canonical[i])) \/ In(b, r)
      OBVIOUS
    <3>1. ASSUME NEW i \in 1..(n + 1), In(b, t[i])
          PROVE  (\E j \in 1..n : In(b, canonical[j])) \/ In(b, r)
      <4>1. CASE i = n + 1
        BY <2>1, <3>1, <4>1
      <4>2. CASE i # n + 1
        <5>1. i \in 1..n
          BY <1>3, <4>2
        <5> QED
          BY <2>1, <3>1, <5>1
      <4> QED
        BY <4>1, <4>2
    <3>2. ASSUME NEW i \in 1..n, In(b, canonical[i])
          PROVE  \E j \in 1..(n + 1) : In(b, t[j])
      <4>1. i \in 1..(n + 1)
        BY <1>3
      <4> QED
        BY <2>1, <3>2, <4>1
    <3>3. ASSUME In(b, r) PROVE \E j \in 1..(n + 1) : In(b, t[j])
      <4>1. n + 1 \in 1..(n + 1)
        BY <1>3
      <4> QED
        BY <2>1, <3>3, <4>1
    <3> QED
      BY <3>1, <3>2, <3>3
  <2> QED
    BY <2>1, <2>2 DEF Bits, n, t, r
<1>7. CASE /\ n # 0 /\ r.first <= canonical[n].last + 1
           /\ r.last > canonical[n].last
           /\ canonical' = [canonical EXCEPT ![n].last = r.last]
  <2>1. /\ Len(t) = n /\ \A i \in 1..(n - 1) : t[i] = canonical[i]
        /\ t[n].first = canonical[n].first /\ t[n].last = r.last
    BY <1>1, <1>3, <1>7, Extended DEF Range
  <2>2. n \in 1..n
    BY <1>3, <1>7
  <2>3. \A b \in Bit : In(b, t[n]) <=> In(b, canonical[n]) \/ In(b, r)
    BY <1>2, <1>3, <1>4, <1>5, <1>7, <2>1, <2>2 DEF In
  <2> HIDE DEF r, n, t
  <2>4. \A b \in Bit : (\E i \in 1..n : In(b, t[i]))
                       <=> (\E i \in 1..n : In(b, canonical[i])) \/ In(b, r)
    BY <1>3, <2>1, <2>2, <2>3
  <2> QED
    BY <2>1, <2>4 DEF Bits, n, t, r
<1>8. CASE /\ n # 0 /\ r.last <= canonical[n].last
           /\ canonical' = canonical
  <2>1. n \in 1..n
    BY <1>3, <1>8
  <2>2. \A b \in Bit : In(b, r) => In(b, canonical[n])
    BY <1>2, <1>3, <1>4, <1>5, <1>8, <2>1 DEF In
  <2> HIDE DEF r, n
  <2> QED
    BY <1>8, <2>1, <2>2 DEF Bits, n, r
<1> QED
  BY <1>2, <1>6, <1>7, <1>8, MergeCases

\* The set the merge starts with has no bits, as the ranges taken so far.
LEMMA EmptyBits ==
  ASSUME canonical' = << >>, taken' = 0
  PROVE  TakenBits' /\ Ahead'
<1>1. Len(canonical') = 0
  OBVIOUS
<1>2. Bits(canonical') = {}
  BY <1>1 DEF Bits
<1> QED
  BY <1>1, <1>2 DEF TakenBits, Ahead

\* Sorting keeps every range upright and the bits the same.
LEMMA SortStep ==
  ASSUME BitsInv, Sort
  PROVE  Whole(sorted') /\ SortedWell'
<1> DEFINE n == Len(given)
<1>1. PICK p \in Orders(n) :
        /\ sorted' = [i \in 1..n |-> given[p[i]]]
        /\ \A i, j \in 1..n : i < j => NotAfter(given[p[i]], given[p[j]])
  BY DEF Sort
<1>2. given \in Seq(Range) /\ n \in Nat /\ p \in [1..n -> 1..n]
  BY <1>1 DEF Orders, BitsInv, TypeOK
<1>3. /\ Len(sorted') = n
      /\ \A i \in 1..n : sorted'[i] = given[p[i]] /\ p[i] \in 1..n
                         /\ given[p[i]] \in Range
  BY <1>1, <1>2
<1>4. Whole(sorted')
  BY <1>3 DEF BitsInv, Whole
<1>5. \A i, j \in 1..n : i < j => sorted'[i].first <= sorted'[j].first
  <2> SUFFICES ASSUME NEW i \in 1..n, NEW j \in 1..n, i < j
               PROVE  sorted'[i].first <= sorted'[j].first
    OBVIOUS
  <2>1. NotAfter(given[p[i]], given[p[j]])
    BY <1>1
  <2>2. given[p[i]].first \in Nat /\ given[p[j]].first \in Nat
    BY <1>3, MaxBitAssumption DEF Range, Bit
  <2>3. given[p[i]].first <= given[p[j]].first
    BY <2>1, <2>2 DEF NotAfter
  <2> QED
    BY <1>3, <2>3
<1>6. Bits(sorted') = Bits(given) /\ given' = given /\ Bits(given') = Bits(given)
  BY <1>1, <1>2, SortBits DEF Sort
<1> QED
  BY <1>3, <1>4, <1>5, <1>6 DEF SortedWell

\* A turn of the loop leaves what is still to come behind its last range.
LEMMA AheadStep ==
  ASSUME BitsInv, Merge
  PROVE  Ahead'
<1> DEFINE r == sorted[taken + 1]
           n == Len(canonical)
           t == canonical'
<1>1. /\ TypeOK /\ r \in Range /\ taken + 1 \in 1..Len(sorted) /\ taken \in Nat
      /\ taken' = taken + 1 /\ sorted' = sorted /\ phase = "merge"
  BY MergeCases DEF BitsInv, TypeOK
<1>2. Upright(r) = r
  BY <1>1, MaxBitAssumption DEF BitsInv, Whole, Upright, Range, Bit
<1>3. \A i \in (taken + 2)..Len(sorted) : r.first <= sorted[i].first
  BY <1>1 DEF BitsInv, SortedWell
<1>4. \A k \in 1..n, i \in (taken + 2)..Len(sorted) :
        canonical[k].first <= sorted[i].first
  BY <1>1 DEF BitsInv, Ahead
<1>5. canonical \in Seq(Range) /\ n \in Nat /\ r.last \in Bit
  BY <1>1 DEF TypeOK, Range
<1>6. ASSUME NEW k \in 1..Len(t), NEW i \in (taken + 2)..Len(sorted)
      PROVE  t[k].first <= sorted[i].first
  <2>1. CASE canonical' = Append(canonical, r)
    <3>1. Len(t) = n + 1 /\ t[n + 1] = r /\ \A l \in 1..n : t[l] = canonical[l]
      BY <1>5, <2>1
    <3> HIDE DEF r, n, t
    <3> QED
      BY <1>3, <1>4, <1>5, <1>6, <3>1
  <2>2. CASE n # 0 /\ canonical' = [canonical EXCEPT ![n].last = r.last]
    <3>1. /\ Len(t) = n /\ \A l \in 1..(n - 1) : t[l] = canonical[l]
          /\ t[n].first = canonical[n].first
      BY <1>5, <2>2, Extended
    <3> HIDE DEF r, n, t
    <3> QED
      BY <1>4, <1>5, <1>6, <3>1
  <2>3. CASE canonical' = canonical
    BY <1>4, <1>6, <2>3
  <2> QED
    BY <1>1, <1>2, <2>1, <2>2, <2>3, MergeCases
<1> HIDE DEF t, r, n
<1>7. (taken + 1) + 1 = taken + 2
  BY <1>1
<1> QED
  BY <1>1, <1>6, <1>7 DEF Ahead, t

\* Every step keeps the bits of the canonical set those of the ranges taken.
LEMMA BitsStep == BitsInv /\ Separated /\ [Next]_vars => BitsInv'
<1> SUFFICES ASSUME BitsInv, Separated, [Next]_vars PROVE BitsInv'
  OBVIOUS
<1>1. TypeOK /\ TypeOK'
  BY TypeStep DEF BitsInv
<1>2. ASSUME NEW r \in Range, ReadRange(r) PROVE BitsInv'
  <2>1. given \in Seq(Range) /\ Whole(given) /\ phase = "read"
    BY <1>2 DEF BitsInv, TypeOK, ReadRange
  <2>2. Whole(given')
    <3>1. Len(given') = Len(given) + 1 /\ given'[Len(given) + 1] = r
          /\ \A i \in 1..Len(given) : given'[i] = given[i]
      BY <1>2, <2>1 DEF ReadRange
    <3>2. r.first <= r.last
      BY <1>2 DEF ReadRange
    <3> QED
      BY <2>1, <3>1, <3>2 DEF Whole
  <2>3. UNCHANGED <<sorted, taken, canonical, phase>>
    BY <1>2 DEF ReadRange
  <2> QED
    BY <1>1, <2>1, <2>2, <2>3 DEF BitsInv, Whole, SortedWell, TakenBits, Ahead
<1>3. ASSUME \/ UNCHANGED vars \/ ReadAll \/ Finish
             \/ \E r \in Range : RejectRange(r)
      PROVE  BitsInv'
  <2>1. UNCHANGED <<given, sorted, taken, canonical>>
    BY <1>3 DEF vars, ReadAll, Finish, RejectRange
  <2>2. phase' = phase \/ phase' \in {"sort", "rejected"}
        \/ (phase = "merge" /\ phase' = "done" /\ taken = Len(sorted))
    BY <1>3 DEF vars, ReadAll, Finish, RejectRange
  <2>3. SortedWell' /\ (phase' = "done" => taken' = Len(sorted'))
    BY <2>1, <2>2 DEF BitsInv, SortedWell
  <2> QED
    BY <1>1, <2>1, <2>3 DEF BitsInv, Whole, TakenBits, Ahead
<1>4. CASE Sort
  <2>1. /\ canonical' = << >> /\ taken' = 0 /\ given' = given /\ phase' = "merge"
    BY <1>4 DEF Sort
  <2>2. Whole(given')
    BY <2>1 DEF BitsInv
  <2> QED
    BY <1>1, <1>4, <2>1, <2>2, SortStep, EmptyBits DEF BitsInv
<1>5. CASE Merge
  <2>1. /\ UNCHANGED <<given, sorted, phase>> /\ phase = "merge"
        /\ taken' = taken + 1 /\ taken \in Nat
    BY <1>1, <1>5, MergeCases DEF TypeOK
  <2>2. Bits(canonical') =
          Bits(canonical) \cup {b \in Bit : In(b, sorted[taken + 1])}
    BY <1>1, <1>5, MergeBits DEF BitsInv
  <2>3. {b \in Bit : \E i \in 1..(taken + 1) : In(b, sorted[i])} =
          {b \in Bit : \E i \in 1..taken : In(b, sorted[i])}
            \cup {b \in Bit : In(b, sorted[taken + 1])}
    <3>1. 1..(taken + 1) = (1..taken) \cup {taken + 1}
      BY <2>1
    <3> QED
      BY <3>1, Zenon
  <2>4. TakenBits'
    BY <2>1, <2>2, <2>3 DEF BitsInv, TakenBits
  <2>5. Whole(given') /\ Whole(sorted') /\ SortedWell' /\ phase' # "done"
    BY <2>1 DEF BitsInv, Whole, SortedWell
  <2> QED
    BY <1>1, <1>5, <2>4, <2>5, AheadStep DEF BitsInv
<1> QED
  BY <1>2, <1>3, <1>4, <1>5 DEF Next

\* A set that was parsed, whose every range has its ends in order, keeps exactly
\* its bits through the sort and the merge.
THEOREM ParsedSameBits ==
  ASSUME ~Native
  PROVE  Spec => []SameBits
<1>1. Init => BitsInv
  <2> SUFFICES ASSUME Init PROVE BitsInv
    OBVIOUS
  <2>1. /\ given = << >> /\ sorted = << >> /\ canonical = << >> /\ taken = 0
        /\ phase = "read"
    BY DEF Init
  <2>2. Len(given) = 0 /\ Len(sorted) = 0 /\ Len(canonical) = 0
    BY <2>1
  <2>3. Bits(canonical) = {}
    BY <2>2 DEF Bits
  <2> QED
    BY <2>1, <2>2, <2>3
    DEF BitsInv, TypeOK, Whole, SortedWell, TakenBits, Ahead
<1>2. BitsInv => SameBits
  <2> SUFFICES ASSUME BitsInv, phase = "done"
               PROVE  Bits(canonical) = Bits(given)
    BY DEF SameBits
  <2>1. taken = Len(sorted) /\ Bits(sorted) = Bits(given)
    BY DEF BitsInv, SortedWell
  <2> QED
    BY <2>1 DEF BitsInv, TakenBits, Bits
<1>3. Spec => []BitsInv
  <2>1. BitsInv /\ Separated /\ [Next]_vars => BitsInv'
    BY BitsStep
  <2> QED
    BY <1>1, <2>1, AlwaysSeparated, PTL DEF Spec
<1> QED
  BY <1>2, <1>3, PTL
===============================================================================
