-------------------------- MODULE OrderedObjectProofs --------------------------
(***************************************************************************)
(* For any keys, values, strict order and threshold: the object that the   *)
(* JSON decoders and the marshaler fill never holds a key twice, is        *)
(* sorted while it is not marked, keeps its map exact, has its map before  *)
(* it is too long to scan, and implements the abstract object of           *)
(* MemberMap.                                                              *)
(***************************************************************************)
EXTENDS OrderedObject, MemberTableProofs

Member == [key : Key, value : Value]

\* Every key of a slice of members is a key.
LEMMA MemberKey == \A m \in Member : m.key \in Key
  BY DEF Member

\* What a search may leave of the members: the slice itself, if it has no
\* member with the key, or the slice without that member.
Kept(kept, k) ==
  \/ kept = members /\ ~Holds(members, k)
  \/ \E p \in 1..Len(members) :
       members[p].key = k /\ kept = DropAt(members, p)

\* What a search leaves has distinct keys, none of them the new one, is not
\* longer than the slice, and is ascending if the slice is.
LEMMA KeptSlice ==
  ASSUME Inv, NEW k \in Key, NEW kept, Kept(kept, k)
  PROVE  /\ kept \in Seq(Member) /\ Distinct(kept) /\ ~Holds(kept, k)
         /\ Len(kept) <= Len(members)
         /\ Ascending(members) => Ascending(kept)
<1>1. members \in Seq(Member) /\ Distinct(members)
  BY DEF Inv, TypeOK, NoDuplicateKeys, Member
<1>2. CASE kept = members /\ ~Holds(members, k)
  BY <1>1, <1>2
<1>3. CASE \E p \in 1..Len(members) :
             members[p].key = k /\ kept = DropAt(members, p)
  <2>1. PICK p \in 1..Len(members) : members[p].key = k /\ kept = DropAt(members, p)
    BY <1>3
  <2>2. /\ kept \in Seq(Member) /\ Len(kept) = Len(members) - 1
        /\ \A i \in 1..Len(kept) : kept[i] = members[IF i < p THEN i ELSE i + 1]
    BY <1>1, <2>1, DropAtType
  <2>3. Distinct(kept) /\ ~Holds(kept, k)
    BY <1>1, <2>1, RemoveDistinct
  <2>4. Ascending(members) => Ascending(kept)
    BY <1>1, <2>1, DropAscending
  <2> QED
    BY <1>1, <2>2, <2>3, <2>4
<1> QED
  BY <1>2, <1>3 DEF Kept

\* The scan leaves such a slice.
LEMMA ScanKept ==
  ASSUME Inv, NEW k \in Key
  PROVE  Kept(ScanRemove(members, k), k)
<1>1. members \in Seq(Member) /\ Distinct(members)
  BY DEF Inv, TypeOK, NoDuplicateKeys, Member
<1>2. CASE Holds(members, k)
  <2>1. /\ FirstAt(members, k) \in 1..Len(members)
        /\ members[FirstAt(members, k)].key = k
    BY <1>1, <1>2, FirstAtFound
  <2> QED
    BY <1>2, <2>1 DEF Kept, ScanRemove
<1>3. CASE ~Holds(members, k)
  BY <1>3 DEF Kept, ScanRemove
<1> QED
  BY <1>2, <1>3

\* So does the map, which is exact again after the renumbering.
LEMMA IndexKept ==
  ASSUME Inv, indexed, NEW k \in Key
  PROVE  LET p == index[k]
             kept == IF p = 0 THEN members ELSE DropAt(members, p)
             moved == IF p = 0 THEN index ELSE Reindexed(index, kept, k, p)
         IN  /\ Kept(kept, k)
             /\ moved \in [Key -> Nat] /\ Located(moved, kept)
<1>1. /\ members \in Seq(Member) /\ Distinct(members)
      /\ index \in [Key -> Nat] /\ Located(index, members)
  BY DEF Inv, TypeOK, NoDuplicateKeys, IndexExact, Member
<1> DEFINE p == index[k]
           d == DropAt(members, p)
           r == Reindexed(index, d, k, p)
<1>2. IF p = 0 THEN ~Holds(members, k)
      ELSE p \in 1..Len(members) /\ members[p].key = k
  BY <1>1, LocatedPosition
<1>3. CASE p = 0
  BY <1>1, <1>2, <1>3 DEF Kept
<1>4. CASE p # 0
  <2> HIDE DEF p
  <2>1. p \in 1..Len(members) /\ members[p].key = k
    BY <1>2, <1>4
  <2>2. d \in Seq(Member) /\ Distinct(d)
    BY <1>1, <2>1, DropAtType, RemoveDistinct
  <2>3. Located(r, d)
    BY <1>1, <2>1, MemberKey, ReindexedLocated
  <2>4. r \in [Key -> Nat]
    BY <1>1, <2>1, <2>2, ReindexedType
  <2>5. Kept(d, k)
    BY <2>1 DEF Kept
  <2> HIDE DEF d, r
  <2> QED
    BY <1>4, <2>3, <2>4, <2>5 DEF p, d, r
<1> QED
  BY <1>3, <1>4

-------------------------------------------------------------------------------
\* An empty object satisfies the invariant.
LEMMA InitInv ==
  ASSUME MaxSets \in Nat, Init
  PROVE  Inv
<1> USE DEF Init
<1>1. TypeOK
  <2>1. members \in Seq([key : Key, value : Value])
    OBVIOUS
  <2>2. index \in [Key -> Nat] /\ sets \in 0..MaxSets
    BY DEF NoIndex
  <2> QED
    BY <2>1, <2>2 DEF TypeOK
<1>2. members = << >> /\ Len(members) = 0
  OBVIOUS
<1>3. NoDuplicateKeys /\ SortedUnlessMarked /\ LongMeansIndexed
  BY <1>2, IndexAtAssumption
     DEF NoDuplicateKeys, SortedUnlessMarked, LongMeansIndexed, Distinct, Ascending
<1> QED
  BY <1>1, <1>3 DEF Inv, IndexExact

\* Appending the new member to what the search left keeps the keys distinct,
\* and in order if the object stays unmarked.
LEMMA AppendKept ==
  ASSUME Inv, NEW k \in Key, NEW v \in Value, NEW kept, Kept(kept, k),
         AppendTo(kept, k, v)
  PROVE  /\ members' \in Seq(Member) /\ Len(members') = Len(kept) + 1
         /\ needsSort' \in BOOLEAN
         /\ NoDuplicateKeys'
         /\ SortedUnlessMarked'
<1> DEFINE m == [key |-> k, value |-> v]
<1>1. /\ kept \in Seq(Member) /\ Distinct(kept) /\ ~Holds(kept, k)
      /\ Ascending(members) => Ascending(kept)
  BY KeptSlice
<1>2. /\ m \in Member /\ m.key = k
      /\ members' = Append(kept, m)
      /\ needsSort' = (needsSort \/ (kept # << >> /\ ~Less(kept[Len(kept)].key, k)))
  BY DEF AppendTo, Member
<1> HIDE DEF m
<1>3. NoDuplicateKeys'
  BY <1>1, <1>2, AppendDistinct DEF NoDuplicateKeys
<1>4. ASSUME ~needsSort' PROVE Ascending(members')
  <2>1. ~needsSort /\ (kept # << >> => Less(kept[Len(kept)].key, k))
    BY <1>2, <1>4
  <2>2. Ascending(kept)
    BY <1>1, <2>1 DEF Inv, SortedUnlessMarked
  <2> QED
    BY <1>1, <1>2, <2>1, <2>2, MemberKey, AppendAscending
<1>5. members' \in Seq(Member) /\ Len(members') = Len(kept) + 1
  BY <1>1, <1>2
<1>6. needsSort' \in BOOLEAN
  BY <1>2
<1> QED
  BY <1>3, <1>4, <1>5, <1>6 DEF SortedUnlessMarked

\* Set through the map keeps the map exact.
LEMMA SetByIndexInv ==
  ASSUME Inv, NEW k \in Key, NEW v \in Value, sets' \in 0..MaxSets,
         SetByIndex(k, v)
  PROVE  Inv'
<1> DEFINE p == index[k]
           kept == IF p = 0 THEN members ELSE DropAt(members, p)
           moved == IF p = 0 THEN index ELSE Reindexed(index, kept, k, p)
           m == [key |-> k, value |-> v]
<1>1. /\ indexed /\ indexed' = indexed
      /\ AppendTo(kept, k, v)
      /\ index' = [moved EXCEPT ![k] = Len(kept) + 1]
  BY DEF SetByIndex
<1>2. Kept(kept, k) /\ moved \in [Key -> Nat] /\ Located(moved, kept)
  BY <1>1, IndexKept
<1>3. m \in Member /\ m.key = k
  BY DEF Member
<1> HIDE DEF p, kept, moved
<1>4. members' = Append(kept, m)
  BY <1>1 DEF AppendTo
<1> HIDE DEF m
<1>5. kept \in Seq(Member) /\ ~Holds(kept, k)
  BY <1>2, KeptSlice
<1>6. /\ members' \in Seq(Member) /\ needsSort' \in BOOLEAN
      /\ NoDuplicateKeys' /\ SortedUnlessMarked'
  BY <1>1, <1>2, AppendKept
<1>7. Located(index', members')
  BY <1>1, <1>2, <1>3, <1>4, <1>5, AppendLocated
<1>8. index' \in [Key -> Nat]
  BY <1>1, <1>2, <1>5
<1>9. TypeOK'
  BY <1>1, <1>6, <1>8 DEF TypeOK, Member
<1>10. LongMeansIndexed' /\ IndexExact'
  BY <1>1, <1>7 DEF LongMeansIndexed, IndexExact
<1> QED
  BY <1>6, <1>9, <1>10 DEF Inv

\* Set by scanning builds the map at the last moment at which it can: a slice
\* without a map has at most IndexAt members, and one that the search leaves
\* with IndexAt gets its map.
LEMMA SetByScanInv ==
  ASSUME Inv, NEW k \in Key, NEW v \in Value, sets' \in 0..MaxSets,
         SetByScan(k, v)
  PROVE  Inv'
<1> DEFINE kept == ScanRemove(members, k)
           built == Assigned(NoIndex, kept, 1)
           build == LongEnough(kept)
           m == [key |-> k, value |-> v]
<1>1. /\ ~indexed /\ indexed' = build
      /\ AppendTo(kept, k, v)
      /\ index' = IF build THEN [built EXCEPT ![k] = Len(kept) + 1] ELSE index
  BY DEF SetByScan
<1>2. Kept(kept, k)
  BY ScanKept
<1>3. m \in Member /\ m.key = k
  BY DEF Member
<1> HIDE DEF kept
<1>4. members' = Append(kept, m)
  BY <1>1 DEF AppendTo
<1> HIDE DEF m
<1>5. /\ kept \in Seq(Member) /\ Distinct(kept) /\ ~Holds(kept, k)
      /\ Len(kept) <= Len(members)
  BY <1>2, KeptSlice
<1>6. /\ members' \in Seq(Member) /\ Len(members') = Len(kept) + 1
      /\ needsSort' \in BOOLEAN
      /\ NoDuplicateKeys' /\ SortedUnlessMarked'
  BY <1>1, <1>2, AppendKept
<1>7. built \in [Key -> Nat] /\ Located(built, kept)
  <2>1. NoIndex \in [Key -> Nat]
    BY DEF NoIndex
  <2> QED
    BY <1>5, <2>1, AssignedType, BuiltLocated
<1> HIDE DEF built
<1>8. build => Located(index', members')
  BY <1>1, <1>3, <1>4, <1>5, <1>7, AppendLocated
<1>9. index' \in [Key -> Nat]
  BY <1>1, <1>5, <1>7 DEF Inv, TypeOK
<1>10. ASSUME Len(members') > IndexAt PROVE build
  <2>1. Len(members) <= IndexAt
    BY <1>1, IndexAtAssumption DEF Inv, LongMeansIndexed, TypeOK
  <2>2. Len(kept) = IndexAt /\ Len(members) = IndexAt
    BY <1>5, <1>6, <1>10, <2>1, IndexAtAssumption DEF Inv, TypeOK
  <2>3. members # << >>
    BY <2>2, IndexAtAssumption
  <2> QED
    BY <2>2, <2>3 DEF LongEnough
<1>11. build \in BOOLEAN
  BY DEF LongEnough
<1>12. TypeOK'
  BY <1>1, <1>6, <1>9, <1>11 DEF TypeOK, Member
<1>13. LongMeansIndexed' /\ IndexExact'
  BY <1>1, <1>8, <1>10 DEF LongMeansIndexed, IndexExact
<1> QED
  BY <1>6, <1>12, <1>13 DEF Inv

\* Release returns to an empty object.
LEMMA ReleaseInv ==
  ASSUME MaxSets \in Nat, Release
  PROVE  Inv'
<1> USE DEF Release
<1>1. TypeOK'
  <2>1. members' \in Seq([key : Key, value : Value])
    OBVIOUS
  <2>2. index' \in [Key -> Nat] /\ sets' \in 0..MaxSets
    BY DEF NoIndex
  <2> QED
    BY <2>1, <2>2 DEF TypeOK
<1>2. members' = << >> /\ Len(members') = 0
  OBVIOUS
<1>3. NoDuplicateKeys' /\ SortedUnlessMarked' /\ LongMeansIndexed'
  BY <1>2, IndexAtAssumption
     DEF NoDuplicateKeys, SortedUnlessMarked, LongMeansIndexed, Distinct, Ascending
<1> QED
  BY <1>1, <1>3 DEF Inv, IndexExact

\* The invariant is inductive.
LEMMA StepInv ==
  ASSUME MaxSets \in Nat, Inv, [Next]_vars
  PROVE  Inv'
<1>1. CASE Release
  BY <1>1, ReleaseInv
<1>2. ASSUME NEW k \in Key, NEW v \in Value, Set(k, v)
      PROVE  Inv'
  <2>1. sets' \in 0..MaxSets
    BY <1>2 DEF Set, Inv, TypeOK
  <2> QED
    BY <1>2, <2>1, SetByIndexInv, SetByScanInv DEF Set
<1>3. CASE UNCHANGED vars
  BY <1>3 DEF vars, Inv, TypeOK, NoDuplicateKeys, SortedUnlessMarked,
              IndexExact, LongMeansIndexed
<1> QED
  BY <1>1, <1>2, <1>3 DEF Next

\* A Set is a step of the abstract object.
LEMMA SetRefines ==
  ASSUME Inv, NEW k \in Key, NEW v \in Value, Set(k, v)
  PROVE  Object!PutNew(k, v) \/ Object!PutAgain(k, v)
<1> DEFINE new == [key |-> k, value |-> v]
<1>1. ASSUME NEW kept, Kept(kept, k), members' = Append(kept, new)
      PROVE  Object!PutNew(k, v) \/ Object!PutAgain(k, v)
  <2>1. CASE kept = members /\ ~Holds(members, k)
    BY <1>1, <2>1 DEF Object!PutNew, Object!At, Holds
  <2>2. ASSUME NEW p \in 1..Len(members),
               members[p].key = k, kept = DropAt(members, p)
        PROVE  Object!PutAgain(k, v)
    <3>1. p \in Object!At(k) /\ kept = Object!Without(p)
      BY <2>2 DEF Object!At, Object!Without, DropAt
    <3> QED
      BY <1>1, <3>1 DEF Object!PutAgain
  <2> QED
    BY <1>1, <2>1, <2>2 DEF Kept
<1>2. CASE SetByIndex(k, v)
  <2> DEFINE kept == IF index[k] = 0 THEN members ELSE DropAt(members, index[k])
  <2>1. Kept(kept, k)
    BY <1>2, IndexKept DEF SetByIndex
  <2>2. members' = Append(kept, new)
    BY <1>2 DEF SetByIndex, AppendTo
  <2> QED
    BY <1>1, <2>1, <2>2
<1>3. CASE SetByScan(k, v)
  BY <1>1, <1>3, ScanKept DEF SetByScan, AppendTo
<1> QED
  BY <1>2, <1>3 DEF Set

\* So every step of the object is one of the abstract object or changes nothing.
LEMMA StepRefines ==
  ASSUME Inv, [Next]_vars
  PROVE  [Object!Next]_members
<1>1. CASE Release
  BY <1>1 DEF Release, Object!Next, Object!Clear
<1>2. ASSUME NEW k \in Key, NEW v \in Value, Set(k, v)
      PROVE  Object!Next
  BY <1>2, SetRefines DEF Object!Next
<1>3. CASE UNCHANGED vars
  BY <1>3 DEF vars
<1> QED
  BY <1>1, <1>2, <1>3 DEF Next

\* Every object that calls of Set can build satisfies the inductive invariant.
THEOREM Invariance == ASSUME MaxSets \in Nat PROVE Spec => []Inv
<1>1. Init => Inv
  BY InitInv
<1>2. Inv /\ [Next]_vars => Inv'
  BY StepInv
<1> QED
  BY <1>1, <1>2, PTL DEF Spec

\* The object implements the abstract one for every set of keys, order and
\* threshold: the last value of each key wins.
THEOREM Refinement == ASSUME MaxSets \in Nat PROVE Spec => LastWriteWins
<1>1. Init => Object!Init
  BY DEF Init, Object!Init
<1>2. Inv /\ [Next]_vars => [Object!Next]_members
  BY StepRefines
<1> QED
  BY <1>1, <1>2, Invariance, PTL DEF Spec, LastWriteWins, Object!Spec
===============================================================================
