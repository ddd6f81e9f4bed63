--------------------------------- MODULE BitSet ---------------------------------
(***************************************************************************)
(* Uint32BitSet (vocabulary_set.go): #bits payloads are read as inclusive  *)
(* ranges, and canonicalBitSet sorts and merges them.  A program may also  *)
(* render a Uint32BitSet it has built itself, in which nothing has checked *)
(* that first <= last.                                                     *)
(***************************************************************************)
EXTENDS Naturals, Sequences

CONSTANTS
  MaxBit,      \* the largest bit (2^32 - 1 in the code)
  MaxRanges,   \* bound of the model: the ranges of a set
  Native       \* TRUE: the ranges come from the program and not from a parse

ASSUME MaxBitAssumption == MaxBit \in Nat
ASSUME MaxRangesAssumption == MaxRanges \in Nat
ASSUME NativeAssumption == Native \in BOOLEAN

VARIABLES
  given,       \* the ranges before canonicalBitSet
  sorted,      \* ranges in canonicalBitSet
  taken,       \* how many of them the merge loop has taken
  canonical,   \* canonical in canonicalBitSet
  phase        \* "read", "rejected", "sort", "merge", "done"

vars == <<given, sorted, taken, canonical, phase>>

Bit == 0..MaxBit
Range == [first : Bit, last : Bit]

\* The bits of a range, whichever end is given first, and of a sequence.
In(b, r) == (r.first <= b /\ b <= r.last) \/ (r.last <= b /\ b <= r.first)
Bits(s) == {b \in Bit : \E i \in 1..Len(s) : In(b, s[i])}

Init ==
  /\ \/ Native /\ phase = "sort" /\ given \in UNION {[1..n -> Range] : n \in 0..MaxRanges}
     \/ ~Native /\ phase = "read" /\ given = << >>
  /\ sorted = << >>
  /\ taken = 0
  /\ canonical = << >>

-------------------------------------------------------------------------------
\* parseBitSet: one entry, a pair or a single bit (both ends the same).
ReadRange(r) ==
  /\ phase = "read" /\ Len(given) < MaxRanges
  /\ r.first <= r.last
  /\ given' = Append(given, r)
  /\ UNCHANGED <<sorted, taken, canonical, phase>>

RejectRange(r) ==
  /\ phase = "read"
  /\ r.first > r.last
  /\ phase' = "rejected"
  /\ UNCHANGED <<given, sorted, taken, canonical>>

ReadAll ==
  /\ phase = "read"
  /\ phase' = "sort"
  /\ UNCHANGED <<given, sorted, taken, canonical>>

NotAfter(r, s) == r.first < s.first \/ (r.first = s.first /\ r.last <= s.last)

Orders(n) ==
  {p \in [1..n -> 1..n] : /\ \A i, j \in 1..n : p[i] = p[j] => i = j
                          /\ \A j \in 1..n : \E i \in 1..n : p[i] = j}

Sort ==
  /\ phase = "sort"
  /\ \E p \in Orders(Len(given)) :
       LET s == [i \in 1..Len(given) |-> given[p[i]]]
       IN  /\ \A i, j \in 1..Len(given) : i < j => NotAfter(s[i], s[j])
           /\ sorted' = s
  /\ canonical' = << >>
  /\ taken' = 0
  /\ phase' = "merge"
  /\ UNCHANGED given

\* Mutant: an end that is not inclusive.
ExclusiveEnd(r) == [first |-> r.first, last |-> r.last + 1]

\* The loop swaps the ends of a reversed range.
Upright(r) ==
  IF r.last < r.first THEN [first |-> r.last, last |-> r.first] ELSE r

\* Mutants: off by one, and the sum in 32 bits.
NearlyTouches(r, last) == r.first <= last.last + 2

TouchesWrapping(r, last) == r.first <= (last.last + 1) % (MaxBit + 1)

\* A range that begins no later than one behind the last one extends it.  The
\* code adds the one in 64 bits: it does not wrap at the largest bit.
Touches(r, last) == r.first <= last.last + 1

Merge ==
  LET r == Upright(sorted[taken + 1])
      n == Len(canonical)
  IN  /\ phase = "merge" /\ taken < Len(sorted)
      /\ taken' = taken + 1
      /\ canonical' =
           IF n = 0 \/ ~Touches(r, canonical[n]) THEN Append(canonical, r)
           ELSE IF r.last > canonical[n].last
                THEN [canonical EXCEPT ![n].last = r.last]
                ELSE canonical
      /\ UNCHANGED <<given, sorted, phase>>

Finish ==
  /\ phase = "merge" /\ taken = Len(sorted)
  /\ phase' = "done"
  /\ UNCHANGED <<given, sorted, taken, canonical>>

Next ==
  \/ \E r \in Range : ReadRange(r) \/ RejectRange(r)
  \/ ReadAll \/ Sort \/ Merge \/ Finish

Spec == Init /\ [][Next]_vars

-------------------------------------------------------------------------------
\* The types of the loop's state.
TypeOK ==
  /\ given \in Seq(Range) /\ sorted \in Seq(Range) /\ canonical \in Seq(Range)
  /\ taken \in 0..Len(sorted)
  /\ phase \in {"read", "rejected", "sort", "merge", "done"}

\* The set that leaves canonicalBitSet has exactly the bits of the ranges that
\* entered it.
SameBits == phase = "done" => Bits(canonical) = Bits(given)

\* The ranges of the canonical set ascend and no two of them overlap or touch,
\* at the largest bit either: equal sets are equal values.
Separated ==
  /\ \A i \in 1..Len(canonical) : canonical[i].first <= canonical[i].last
  /\ \A i, j \in 1..Len(canonical) :
       i < j => canonical[i].last + 1 < canonical[j].first
===============================================================================
