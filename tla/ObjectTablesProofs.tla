-------------------------- MODULE ObjectTablesProofs ---------------------------
(***************************************************************************)
(* For any keys, any strict order, any threshold and any number of bytes:  *)
(* the member table of the JSON writer never holds a key twice, is sorted  *)
(* while it is not marked, keeps its map exact, and implements the         *)
(* abstract object of MemberMap.                                           *)
(*                                                                         *)
(* And so does the ordered object, which always looks for duplicates and   *)
(* has its map before a scan would be longer than the threshold.           *)
(*                                                                         *)
(* Tree and TreeProofs are the same instance of OrderedObject, the second  *)
(* with the theorems; the lemmas Same... say so, operator by operator.     *)
(***************************************************************************)
EXTENDS ObjectTables, MemberTableProofs, SequenceTheorems

\* Removing a member leaves the other spans apart.
LEMMA DropApart ==
  ASSUME NEW s \in Seq(Member), NEW p \in 1..Len(s), NEW n \in Nat, Apart(s, n)
  PROVE  Apart(DropAt(s, p), n)
<1> DEFINE d == DropAt(s, p)
           m == Len(s) - 1
           at(i) == IF i < p THEN i ELSE i + 1
<1>1. Len(d) = m /\ \A i \in 1..m : d[i] = s[at(i)]
  BY DropAtType
<1>2. \A i \in 1..m : at(i) \in 1..Len(s)
  OBVIOUS
<1>3. \A i, j \in 1..m : i < j => at(i) < at(j)
  OBVIOUS
<1> HIDE DEF d, m, at
<1>4. Apart(d, n)
  BY <1>1, <1>2, <1>3 DEF Apart
<1> QED
  BY <1>4 DEF d

\* A span at the end of the buffer is apart from those in it.
LEMMA AppendApart ==
  ASSUME NEW s \in Seq(Member), NEW m \in Member, NEW n \in Nat, Apart(s, n),
         m.start = n, m.start < m.end
  PROVE  Apart(Append(s, m), m.end)
<1> DEFINE t == Append(s, m)
           l == Len(s)
<1>1. l \in Nat /\ Len(t) = l + 1 /\ t[l + 1] = m /\ \A i \in 1..l : t[i] = s[i]
  OBVIOUS
<1>2. \A i \in 1..l : s[i].start \in Nat /\ s[i].end \in Nat
  <2>1. \A i \in 1..l : s[i] \in Member
    OBVIOUS
  <2> QED
    BY <2>1 DEF Member
<1>3. m.end \in Nat
  BY DEF Member
<1> HIDE DEF t
<1> QED
  BY <1>1, <1>2, <1>3 DEF Apart, t

\* A text is a non-empty sequence of bytes.
LEMMA TextLength ==
  ASSUME NEW text \in Text
  PROVE  text \in Seq(Byte) /\ Len(text) \in Nat /\ Len(text) > 0
<1>1. text \in Seq(Byte) /\ text # << >>
  BY TextAssumption
<1> QED
  BY <1>1

\* A Set that leaves the members kept (none with its key) and then appends
\* keeps what the invariant says about the slice and the buffer.
LEMMA SetSlice ==
  ASSUME Inv, NEW k \in Key, NEW text \in Text, NEW kept \in Seq(Member),
         Distinct(kept), ~Holds(kept, k), Apart(kept, Len(buffer)),
         buffer' = buffer \o text, members' = Append(kept, NewMember(k, text))
  PROVE  /\ members' \in Seq(Member) /\ buffer' \in Seq(Byte)
         /\ NoDuplicateKeys'
         /\ SpansApart'
<1> DEFINE m == NewMember(k, text)
<1>1. buffer \in Seq(Byte) /\ Len(buffer) \in Nat
  BY DEF Inv, TypeOK
<1>2. text \in Seq(Byte) /\ Len(text) \in Nat /\ Len(text) > 0
  BY TextLength
<1>3. /\ m \in Member /\ m.key = k /\ m.start = Len(buffer)
      /\ m.start < m.end /\ m.end = Len(buffer) + Len(text)
  BY <1>1, <1>2 DEF NewMember, Member
<1>4. buffer' \in Seq(Byte) /\ Len(buffer') = m.end
  BY <1>1, <1>2, <1>3
<1> HIDE DEF m
<1>5. members' = Append(kept, m)
  BY DEF m
<1>6. members' \in Seq(Member)
  BY <1>3, <1>5
<1>7. Distinct(Append(kept, m))
  BY <1>3, AppendDistinct
<1>8. Apart(Append(kept, m), m.end)
  BY <1>1, <1>3, AppendApart
<1> QED
  BY <1>4, <1>5, <1>6, <1>7, <1>8 DEF NoDuplicateKeys, SpansApart

\* Every key of a slice of members is a key.
LEMMA MemberKey ==
  \A m \in Member : m.key \in Key
  BY DEF Member

\* A key that is distinct from the keys before it is none of them.
LEMMA AppendedAbsent ==
  ASSUME NEW s \in Seq(Member), NEW m \in Member, Distinct(Append(s, m))
  PROVE  ~Holds(s, m.key)
<1> DEFINE t == Append(s, m)
           n == Len(s)
<1>1. n \in Nat /\ Len(t) = n + 1 /\ t[n + 1] = m /\ \A i \in 1..n : t[i] = s[i]
  OBVIOUS
<1> HIDE DEF t, n
<1>2. \A i \in 1..n : s[i].key # m.key
  BY <1>1 DEF Distinct, t
<1> QED
  BY <1>2 DEF Holds, n

\* What the search leaves: the slice without the key, and a map that is still
\* exact if there is one.
LEMMA ScanKept ==
  ASSUME Inv, NEW k \in Key
  PROVE  LET kept == ScanRemove(members, k)
         IN  /\ kept \in Seq(Member) /\ Distinct(kept) /\ ~Holds(kept, k)
             /\ Apart(kept, Len(buffer))
<1>1. members \in Seq(Member) /\ Distinct(members) /\ Apart(members, Len(buffer))
      /\ Len(buffer) \in Nat
  BY DEF Inv, TypeOK, NoDuplicateKeys, SpansApart
<1>2. CASE ~Holds(members, k)
  BY <1>1, <1>2 DEF ScanRemove
<1>3. CASE Holds(members, k)
  <2> DEFINE p == FirstAt(members, k)
  <2>1. p \in 1..Len(members) /\ members[p].key = k
    BY <1>1, <1>3, FirstAtFound
  <2>2. ScanRemove(members, k) = DropAt(members, p)
    BY <1>3 DEF ScanRemove
  <2> HIDE DEF p
  <2>3. DropAt(members, p) \in Seq(Member)
    BY <1>1, <2>1, DropAtType
  <2>4. Distinct(DropAt(members, p)) /\ ~Holds(DropAt(members, p), k)
    BY <1>1, <2>1, RemoveDistinct
  <2>5. Apart(DropAt(members, p), Len(buffer))
    BY <1>1, <2>1, DropApart
  <2> QED
    BY <2>2, <2>3, <2>4, <2>5
<1> QED
  BY <1>2, <1>3

\* The branch of Set with the map drops and renumbers as the lemmas on tables say.
LEMMA IndexKept ==
  ASSUME Inv, indexed, NEW k \in Key
  PROVE  LET p == index[k]
             kept == IF p = 0 THEN members ELSE DropAt(members, p)
             moved == IF p = 0 THEN index ELSE Reindexed(index, kept, k, p)
         IN  /\ kept \in Seq(Member) /\ Distinct(kept) /\ ~Holds(kept, k)
             /\ Apart(kept, Len(buffer))
             /\ moved \in [Key -> Nat] /\ Located(moved, kept)
<1>1. /\ members \in Seq(Member) /\ Distinct(members)
      /\ Apart(members, Len(buffer)) /\ Len(buffer) \in Nat
      /\ index \in [Key -> Nat] /\ Located(index, members)
  BY DEF Inv, TypeOK, NoDuplicateKeys, SpansApart, IndexExact
<1> DEFINE p == index[k]
           d == DropAt(members, p)
           r == Reindexed(index, d, k, p)
<1>2. IF p = 0 THEN ~Holds(members, k)
      ELSE p \in 1..Len(members) /\ members[p].key = k
  BY <1>1, LocatedPosition
<1>3. CASE p = 0
  BY <1>1, <1>2, <1>3
<1>4. CASE p # 0
  <2> HIDE DEF p
  <2>1. p \in 1..Len(members) /\ members[p].key = k
    BY <1>2, <1>4
  <2>2. d \in Seq(Member)
    BY <1>1, <2>1, DropAtType
  <2>3. Distinct(d) /\ ~Holds(d, k)
    BY <1>1, <2>1, RemoveDistinct
  <2>4. Apart(d, Len(buffer))
    BY <1>1, <2>1, DropApart
  <2>5. Located(r, d)
    BY <1>1, <2>1, MemberKey, ReindexedLocated
  <2>6. r \in [Key -> Nat]
    BY <1>1, <2>1, <2>2, <2>3, ReindexedType
  <2> HIDE DEF d, r
  <2> QED
    BY <1>4, <2>2, <2>3, <2>4, <2>5, <2>6 DEF p, d, r
<1> QED
  BY <1>3, <1>4

-------------------------------------------------------------------------------
\* An empty table satisfies the invariant.
LEMMA InitInv == Init => Inv
<1> SUFFICES ASSUME Init PROVE Inv
  OBVIOUS
<1> USE DEF Init
<1>1. TypeOK
  <2>1. members \in Seq(Member) /\ buffer \in Seq(Byte)
    OBVIOUS
  <2>2. index \in [Key -> Nat]
    BY DEF NoIndex
  <2> QED
    BY <2>1, <2>2 DEF TypeOK
<1>2. members = << >> /\ Len(members) = 0
  OBVIOUS
<1>3. NoDuplicateKeys /\ SortedUnlessMarked /\ SpansApart
  BY <1>2 DEF NoDuplicateKeys, SortedUnlessMarked, SpansApart, Distinct,
              Ascending, Apart
<1> QED
  BY <1>1, <1>3 DEF Inv, IndexExact, IndexedMeansMarked

\* While keys arrive in order there is no map, and the new key is behind all.
LEMMA SetInOrderInv ==
  ASSUME Inv, NEW k \in Key, NEW text \in Text,
         buffer' = buffer \o text, SetInOrder(k, text)
  PROVE  Inv'
<1>1. ~needsSort /\ ~indexed /\ UNCHANGED <<indexed, needsSort, index>>
  BY DEF SetInOrder, NoScan, Inv, TypeOK, IndexedMeansMarked
<1>2. /\ members \in Seq(Member) /\ Distinct(members) /\ Ascending(members)
      /\ Apart(members, Len(buffer)) /\ buffer \in Seq(Byte)
  BY <1>1 DEF Inv, TypeOK, NoDuplicateKeys, SortedUnlessMarked, SpansApart
<1>3. members' = Append(members, NewMember(k, text))
  BY DEF SetInOrder
<1>4. NewMember(k, text) \in Member /\ NewMember(k, text).key = k
  BY <1>2, TextLength DEF NewMember, Member
<1>5. members # << >> => Less(members[Len(members)].key, k)
  BY DEF SetInOrder, NoScan, Ordered
<1>6. Ascending(members')
  <2> DEFINE m == NewMember(k, text)
  <2> HIDE DEF m
  <2>1. m \in Member /\ m.key = k /\ members' = Append(members, m)
    BY <1>3, <1>4 DEF m
  <2> QED
    BY <1>2, <1>5, <2>1, MemberKey, AppendAscending
<1>7. ~Holds(members, k)
  <2> DEFINE m == NewMember(k, text)
  <2> HIDE DEF m
  <2>1. m \in Member /\ m.key = k /\ members' = Append(members, m)
    BY <1>3, <1>4 DEF m
  <2>2. members' \in Seq(Member)
    BY <1>2, <2>1
  <2>3. Distinct(Append(members, m))
    BY <1>6, <2>1, <2>2, MemberKey, AscendingDistinct
  <2> QED
    BY <1>2, <2>1, <2>3, AppendedAbsent
<1>8. members' \in Seq(Member) /\ buffer' \in Seq(Byte) /\ NoDuplicateKeys'
      /\ SpansApart'
  BY <1>2, <1>3, <1>7, SetSlice
<1>9. TypeOK'
  BY <1>1, <1>8 DEF Inv, TypeOK
<1>10. SortedUnlessMarked'
  BY <1>6 DEF SortedUnlessMarked
<1>11. IndexExact' /\ IndexedMeansMarked'
  BY <1>1 DEF IndexExact, IndexedMeansMarked
<1> QED
  BY <1>8, <1>9, <1>10, <1>11 DEF Inv

\* The map finds the old member, and is exact again after the renumbering.
LEMMA SetByIndexInv ==
  ASSUME Inv, NEW k \in Key, NEW text \in Text,
         buffer' = buffer \o text, SetByIndex(k, text)
  PROVE  Inv'
<1> DEFINE p == index[k]
           kept == IF p = 0 THEN members ELSE DropAt(members, p)
           moved == IF p = 0 THEN index ELSE Reindexed(index, kept, k, p)
           m == NewMember(k, text)
<1>1. indexed /\ indexed' = indexed /\ needsSort' = TRUE
      /\ members' = Append(kept, m)
      /\ index' = [moved EXCEPT ![k] = Len(kept) + 1]
  BY DEF SetByIndex
<1>2. /\ kept \in Seq(Member) /\ Distinct(kept) /\ ~Holds(kept, k)
      /\ Apart(kept, Len(buffer))
      /\ moved \in [Key -> Nat] /\ Located(moved, kept)
  BY <1>1, IndexKept
<1>3. m \in Member /\ m.key = k
  BY TextLength DEF m, NewMember, Member, Inv, TypeOK
<1> HIDE DEF p, kept, moved, m
<1>4. members' \in Seq(Member) /\ buffer' \in Seq(Byte) /\ NoDuplicateKeys'
      /\ SpansApart'
  BY <1>1, <1>2, SetSlice DEF m
<1>5. Located(index', members')
  BY <1>1, <1>2, <1>3, AppendLocated
<1>6. index' \in [Key -> Nat]
  BY <1>1, <1>2
<1>7. TypeOK'
  BY <1>1, <1>4, <1>6 DEF TypeOK
<1>8. SortedUnlessMarked' /\ IndexedMeansMarked' /\ IndexExact'
  BY <1>1, <1>5 DEF SortedUnlessMarked, IndexedMeansMarked, IndexExact
<1> QED
  BY <1>4, <1>7, <1>8 DEF Inv

\* The scan finds the old member, and a map built now is exact.
LEMMA SetByScanInv ==
  ASSUME Inv, NEW k \in Key, NEW text \in Text,
         buffer' = buffer \o text, SetByScan(k, text)
  PROVE  Inv'
<1> DEFINE kept == ScanRemove(members, k)
           built == Assigned(NoIndex, kept, 1)
           m == NewMember(k, text)
<1>1. /\ ~indexed /\ needsSort' = TRUE /\ members' = Append(kept, m)
      /\ indexed' = (Len(kept) >= IndexAt)
      /\ index' = IF Len(kept) >= IndexAt
                  THEN [built EXCEPT ![k] = Len(kept) + 1] ELSE index
  BY DEF SetByScan
<1>2. kept \in Seq(Member) /\ Distinct(kept) /\ ~Holds(kept, k)
      /\ Apart(kept, Len(buffer))
  BY ScanKept
<1>3. m \in Member /\ m.key = k
  BY TextLength DEF m, NewMember, Member, Inv, TypeOK
<1> HIDE DEF kept, m
<1>4. members' \in Seq(Member) /\ buffer' \in Seq(Byte) /\ NoDuplicateKeys'
      /\ SpansApart'
  BY <1>1, <1>2, SetSlice DEF m
<1>5. built \in [Key -> Nat] /\ Located(built, kept)
  <2>1. NoIndex \in [Key -> Nat]
    BY DEF NoIndex
  <2> QED
    BY <1>2, <2>1, AssignedType, BuiltLocated
<1> HIDE DEF built
<1>6. indexed' => Located(index', members')
  BY <1>1, <1>2, <1>3, <1>5, AppendLocated
<1>7. index' \in [Key -> Nat]
  BY <1>1, <1>2, <1>5 DEF Inv, TypeOK
<1>8. indexed' \in BOOLEAN
  BY <1>1
<1>9. TypeOK'
  BY <1>1, <1>4, <1>7, <1>8 DEF TypeOK
<1>10. SortedUnlessMarked' /\ IndexedMeansMarked' /\ IndexExact'
  BY <1>1, <1>6 DEF SortedUnlessMarked, IndexedMeansMarked, IndexExact
<1> QED
  BY <1>4, <1>9, <1>10 DEF Inv

\* Release returns to an empty table.
LEMMA ReleaseInv == Release => Inv'
<1> SUFFICES ASSUME Release PROVE Inv'
  OBVIOUS
<1> USE DEF Release
<1>1. TypeOK'
  <2>1. members' \in Seq(Member) /\ buffer' \in Seq(Byte)
    OBVIOUS
  <2>2. index' \in [Key -> Nat]
    BY DEF NoIndex
  <2> QED
    BY <2>1, <2>2 DEF TypeOK
<1>2. members' = << >> /\ Len(members') = 0
  OBVIOUS
<1>3. NoDuplicateKeys' /\ SortedUnlessMarked' /\ SpansApart'
  BY <1>2 DEF NoDuplicateKeys, SortedUnlessMarked, SpansApart, Distinct,
              Ascending, Apart
<1> QED
  BY <1>1, <1>3 DEF Inv, IndexExact, IndexedMeansMarked

\* The invariant is inductive.
LEMMA StepInv == Inv /\ [Next]_vars => Inv'
<1> SUFFICES ASSUME Inv, [Next]_vars PROVE Inv'
  OBVIOUS
<1>1. CASE Release
  BY <1>1, ReleaseInv
<1>2. ASSUME NEW k \in Key, NEW text \in Text, Set(k, text)
      PROVE  Inv'
  <2>1. CASE SetInOrder(k, text)
    BY <1>2, <2>1, SetInOrderInv DEF Set
  <2>2. CASE SetByIndex(k, text)
    BY <1>2, <2>2, SetByIndexInv DEF Set
  <2>3. CASE SetByScan(k, text)
    BY <1>2, <2>3, SetByScanInv DEF Set
  <2> QED
    BY <1>2, <2>1, <2>2, <2>3 DEF Set
<1>3. CASE UNCHANGED vars
  BY <1>3 DEF vars, Inv, TypeOK, NoDuplicateKeys, SortedUnlessMarked,
              IndexExact, IndexedMeansMarked, SpansApart
<1> QED
  BY <1>1, <1>2, <1>3 DEF Next

\* Every table the writer can build satisfies the inductive invariant.
THEOREM Invariance == Spec => []Inv
<1> QED
  BY InitInv, StepInv, PTL DEF Spec

\* Set and Release keep the types of the table: positions are numbers and spans
\* lie behind the beginning of the buffer.
THEOREM TypeCorrect == Spec => []TypeOK
<1>1. Inv => TypeOK
  BY DEF Inv
<1> QED
  BY <1>1, Invariance, PTL

\* The members of an object have distinct keys and spans of their own, whatever
\* the order in which the keys arrive.
THEOREM MembersDistinct == Spec => [](NoDuplicateKeys /\ SpansApart)
<1>1. Inv => NoDuplicateKeys /\ SpansApart
  BY DEF Inv
<1> QED
  BY <1>1, Invariance, PTL

\* A table that is not marked is sorted, and a map that exists is exact.
THEOREM TableExact == Spec => [](SortedUnlessMarked /\ IndexExact)
<1>1. Inv => SortedUnlessMarked /\ IndexExact
  BY DEF Inv
<1> QED
  BY <1>1, Invariance, PTL

-------------------------------------------------------------------------------
\* Bytes added behind a span do not change what the span shows.
LEMMA OldSpan ==
  ASSUME NEW b \in Seq(Byte), NEW t \in Seq(Byte), NEW i \in Nat, NEW j \in Nat,
         i < j, j <= Len(b)
  PROVE  SubSeq(b \o t, i + 1, j) = SubSeq(b, i + 1, j)
<1> DEFINE c == b \o t
           u == SubSeq(c, i + 1, j)
           v == SubSeq(b, i + 1, j)
<1>1. \A x \in (i + 1)..j : c[x] = b[x]
  OBVIOUS
<1>2. c \in Seq(Byte) /\ Len(c) = Len(b) + Len(t)
  OBVIOUS
<1> HIDE DEF c
<1>3. u \in Seq(Byte) /\ Len(u) = j - i /\ \A x \in 1..(j - i) : u[x] = c[i + x]
  BY <1>2
<1>4. v \in Seq(Byte) /\ Len(v) = j - i /\ \A x \in 1..(j - i) : v[x] = b[i + x]
  OBVIOUS
<1>5. \A x \in 1..(j - i) : u[x] = v[x]
  BY <1>1, <1>3, <1>4
<1> HIDE DEF u, v
<1>6. u = v
  BY <1>3, <1>4, <1>5, SeqEqual
<1> QED
  BY <1>6 DEF c, u, v

\* The bytes just added are what a span at the end shows.
LEMMA NewSpan ==
  ASSUME NEW b \in Seq(Byte), NEW t \in Seq(Byte), Len(t) > 0
  PROVE  SubSeq(b \o t, Len(b) + 1, Len(b) + Len(t)) = t
<1> DEFINE u == SubSeq(b \o t, Len(b) + 1, Len(b) + Len(t))
<1>1. b \o t \in Seq(Byte) /\ Len(b \o t) = Len(b) + Len(t)
      /\ \A x \in 1..Len(t) : (b \o t)[Len(b) + x] = t[x]
  OBVIOUS
<1>2. u \in Seq(Byte) /\ Len(u) = Len(t)
      /\ \A x \in 1..Len(t) : u[x] = (b \o t)[Len(b) + x]
  BY <1>1
<1>3. \A x \in 1..Len(t) : u[x] = t[x]
  BY <1>1, <1>2
<1> HIDE DEF u
<1>4. u = t
  BY <1>2, <1>3, SeqEqual
<1> QED
  BY <1>4 DEF u

\* A Set appends to the document the key and the text, behind what was kept.
LEMMA DocAppend ==
  ASSUME NEW b \in Seq(Byte), NEW t \in Text, NEW k \in Key,
         NEW kept \in Seq(Member), Apart(kept, Len(b)), NEW m \in Member,
         m = [key |-> k, start |-> Len(b), end |-> Len(b) + Len(t)]
  PROVE  DocOf(Append(kept, m), b \o t) =
           Append(DocOf(kept, b), [key |-> k, value |-> t])
<1> DEFINE n == Len(kept)
           all == Append(kept, m)
           c == b \o t
           new == [key |-> k, value |-> t]
           old == DocOf(kept, b)
           at(s, bytes, i) ==
             [key |-> s[i].key, value |-> SubSeq(bytes, s[i].start + 1, s[i].end)]
<1>1. n \in Nat /\ Len(all) = n + 1 /\ all[n + 1] = m
      /\ \A i \in 1..n : all[i] = kept[i]
  OBVIOUS
<1>2. t \in Seq(Byte) /\ Len(t) > 0
  BY TextLength
<1>3. \A i \in 1..n : /\ kept[i].start \in Nat /\ kept[i].end \in Nat
                      /\ kept[i].start < kept[i].end /\ kept[i].end <= Len(b)
  <2>1. \A i \in 1..n : kept[i] \in Member
    OBVIOUS
  <2> QED
    BY <2>1 DEF Member, Apart
<1>4. \A i \in 1..n : SubSeq(c, kept[i].start + 1, kept[i].end)
                      = SubSeq(b, kept[i].start + 1, kept[i].end)
  BY <1>2, <1>3, OldSpan
<1>5. SubSeq(c, m.start + 1, m.end) = t
  BY <1>2, NewSpan
<1>6. /\ DocOf(all, c) = [i \in 1..(n + 1) |-> at(all, c, i)]
      /\ old = [i \in 1..n |-> at(kept, b, i)]
  BY <1>1 DEF DocOf
<1>7. \A i \in 1..n : at(all, c, i) = at(kept, b, i)
  BY <1>1, <1>4
<1>8. at(all, c, n + 1) = new
  <2>1. m.key = k /\ all[n + 1] = m
    BY <1>1
  <2> HIDE DEF all, c
  <2> QED
    BY <1>5, <2>1
<1> HIDE DEF n, all, c, new, at, old
<1> DEFINE D == {at(kept, b, i) : i \in 1..n} \cup {new}
           doc == DocOf(all, c)
           app == Append(old, new)
<1>9. old \in Seq(D) /\ Len(old) = n
  <2>1. \A i \in 1..n : at(kept, b, i) \in D
    OBVIOUS
  <2> HIDE DEF D
  <2> QED
    BY <1>1, <1>6, <2>1
<1>10. new \in D
  OBVIOUS
<1> HIDE DEF D
<1>11. app \in Seq(D) /\ Len(app) = n + 1 /\ app[n + 1] = new
       /\ \A i \in 1..n : app[i] = old[i]
  BY <1>1, <1>9, <1>10
<1>12. \A i \in 1..(n + 1) : doc[i] = app[i]
  BY <1>1, <1>6, <1>7, <1>8, <1>11
<1>13. \A i \in 1..(n + 1) : app[i] \in D
  BY <1>1, <1>11
<1>14. doc \in Seq(D) /\ Len(doc) = n + 1
  BY <1>1, <1>6, <1>12, <1>13
<1> HIDE DEF doc, app
<1>15. doc = app
  BY <1>1, <1>11, <1>12, <1>14, SeqEqual
<1> QED
  BY <1>15 DEF doc, app, all, c, new, old

\* Removing a member from the slice removes it from the document.
LEMMA DocDrop ==
  ASSUME NEW b, NEW s \in Seq(Member), NEW p \in 1..Len(s)
  PROVE  DocOf(DropAt(s, p), b) =
           [j \in 1..(Len(s) - 1) |->
              IF j < p THEN DocOf(s, b)[j] ELSE DocOf(s, b)[j + 1]]
<1> DEFINE d == DropAt(s, p)
           n == Len(s) - 1
<1>1. Len(d) = n /\ \A i \in 1..n : d[i] = s[IF i < p THEN i ELSE i + 1]
  BY DropAtType
<1>2. n \in Nat /\ Len(s) = n + 1
  OBVIOUS
<1> DEFINE whole == DocOf(s, b)
<1>3. \A i \in 1..Len(s) : whole[i] =
        [key |-> s[i].key, value |-> SubSeq(b, s[i].start + 1, s[i].end)]
  BY DEF DocOf
<1> HIDE DEF d, n, whole
<1>4. DocOf(d, b) = [j \in 1..n |-> [key |-> d[j].key,
                                    value |-> SubSeq(b, d[j].start + 1, d[j].end)]]
  BY <1>1 DEF DocOf
<1>5. \A j \in 1..n : [key |-> d[j].key,
                       value |-> SubSeq(b, d[j].start + 1, d[j].end)]
                      = IF j < p THEN whole[j] ELSE whole[j + 1]
  <2> SUFFICES ASSUME NEW j \in 1..n
               PROVE  [key |-> d[j].key,
                       value |-> SubSeq(b, d[j].start + 1, d[j].end)]
                      = IF j < p THEN whole[j] ELSE whole[j + 1]
    OBVIOUS
  <2> DEFINE i == IF j < p THEN j ELSE j + 1
  <2>1. i \in 1..Len(s) /\ (IF j < p THEN whole[j] ELSE whole[j + 1]) = whole[i]
    BY <1>2
  <2>2. d[j] = s[i]
    BY <1>1
  <2> HIDE DEF i
  <2> QED
    BY <1>3, <2>1, <2>2
<1> QED
  BY <1>4, <1>5 DEF d, n, whole

\* A Set is a step of the abstract object.
LEMMA SetRefines ==
  ASSUME Inv, NEW k \in Key, NEW text \in Text, Set(k, text)
  PROVE  Object!PutNew(k, text) \/ Object!PutAgain(k, text)
<1> DEFINE new == [key |-> k, value |-> text]
           m == NewMember(k, text)
<1>1. /\ members \in Seq(Member) /\ buffer \in Seq(Byte)
      /\ Apart(members, Len(buffer)) /\ buffer' = buffer \o text
  BY DEF Inv, TypeOK, SpansApart, Set
<1>2. /\ m \in Member
      /\ m = [key |-> k, start |-> Len(buffer), end |-> Len(buffer) + Len(text)]
  BY <1>1, TextLength DEF NewMember, Member
<1> HIDE DEF m
<1>3. ASSUME NEW kept \in Seq(Member), Apart(kept, Len(buffer)),
             members' = Append(kept, m)
      PROVE  Doc' = Append(DocOf(kept, buffer), new)
  BY <1>1, <1>2, <1>3, DocAppend DEF Doc
<1>4. Len(Doc) = Len(members) /\ \A i \in 1..Len(members) : Doc[i].key = members[i].key
  BY <1>1 DEF Doc, DocOf
<1>5. ASSUME ~Holds(members, k), members' = Append(members, m)
      PROVE  Object!PutNew(k, text)
  <2>1. Doc' = Append(Doc, new)
    BY <1>1, <1>3, <1>5 DEF Doc
  <2>2. Object!At(k) = {}
    BY <1>4, <1>5 DEF Object!At, Holds
  <2> QED
    BY <2>1, <2>2 DEF Object!PutNew
<1>6. ASSUME NEW p \in 1..Len(members), members[p].key = k,
             members' = Append(DropAt(members, p), m)
      PROVE  Object!PutAgain(k, text)
  <2>1. DropAt(members, p) \in Seq(Member)
    BY <1>1, DropAtType
  <2>2. Apart(DropAt(members, p), Len(buffer))
    BY <1>1, DropApart
  <2>3. Doc' = Append(DocOf(DropAt(members, p), buffer), new)
    BY <1>3, <1>6, <2>1, <2>2
  <2>4. DocOf(DropAt(members, p), buffer) = Object!Without(p)
    BY <1>1, <1>4, DocDrop DEF Object!Without, Doc
  <2>5. p \in Object!At(k)
    BY <1>4, <1>6 DEF Object!At
  <2> QED
    BY <2>3, <2>4, <2>5 DEF Object!PutAgain
<1>7. CASE SetInOrder(k, text)
  <2>1. Inv'
    BY <1>1, <1>7, SetInOrderInv
  <2>2. members' = Append(members, m)
    BY <1>7 DEF SetInOrder, m
  <2>3. ~Holds(members, k)
    BY <1>1, <1>2, <2>1, <2>2, AppendedAbsent DEF Inv, NoDuplicateKeys
  <2> QED
    BY <1>5, <2>2, <2>3
<1>8. CASE SetByIndex(k, text)
  <2>1. IF index[k] = 0 THEN ~Holds(members, k)
        ELSE index[k] \in 1..Len(members) /\ members[index[k]].key = k
    BY <1>1, <1>8, LocatedPosition DEF SetByIndex, Inv, TypeOK, IndexExact
  <2>2. members' = Append(IF index[k] = 0 THEN members
                          ELSE DropAt(members, index[k]), m)
    BY <1>8 DEF SetByIndex, m
  <2> QED
    BY <1>5, <1>6, <2>1, <2>2
<1>9. CASE SetByScan(k, text)
  <2>1. members' = Append(ScanRemove(members, k), m)
    BY <1>9 DEF SetByScan, m
  <2>2. CASE Holds(members, k)
    <3>1. FirstAt(members, k) \in 1..Len(members)
          /\ members[FirstAt(members, k)].key = k
      BY <1>1, <2>2, FirstAtFound DEF Inv, NoDuplicateKeys
    <3> QED
      BY <1>6, <2>1, <2>2, <3>1 DEF ScanRemove
  <2>3. CASE ~Holds(members, k)
    BY <1>5, <2>1, <2>3 DEF ScanRemove
  <2> QED
    BY <2>2, <2>3
<1> QED
  BY <1>7, <1>8, <1>9 DEF Set

\* The table of the JSON writer implements the abstract object, for every set
\* of keys, order and threshold: the last value of each key wins.
THEOREM Refinement == Spec => LastWriteWins
<1>1. Init => Object!Init
  BY DEF Init, Object!Init, Doc, DocOf
<1>2. Inv /\ [Next]_vars => [Object!Next]_Doc
  <2> SUFFICES ASSUME Inv, [Next]_vars PROVE [Object!Next]_Doc
    OBVIOUS
  <2>1. CASE Release
    <3>1. Doc' = << >>
      BY <2>1 DEF Release, Doc, DocOf
    <3> QED
      BY <3>1 DEF Object!Next, Object!Clear
  <2>2. ASSUME NEW k \in Key, NEW text \in Text, Set(k, text)
        PROVE  Object!Next
    BY <2>2, SetRefines DEF Object!Next
  <2>3. CASE UNCHANGED vars
    BY <2>3 DEF vars, Doc
  <2> QED
    BY <2>1, <2>2, <2>3 DEF Next
<1> QED
  BY <1>1, <1>2, Invariance, PTL DEF Spec, LastWriteWins, Object!Spec

-------------------------------------------------------------------------------
TreeProofs == INSTANCE OrderedObjectProofs
  WITH Value <- Text, members <- treeMembers, indexed <- treeIndexed,
       index <- treeIndex, needsSort <- treeNeedsSort

\* The invariants of the two instances are the same formula.
LEMMA SameInv == TreeInv <=> TreeProofs!Inv
  BY DEF TreeInv, Tree!Inv, Tree!TypeOK, Tree!NoDuplicateKeys,
         Tree!SortedUnlessMarked, Tree!IndexExact, Tree!LongMeansIndexed,
         Tree!Distinct, Tree!Ascending, Tree!Less, Tree!Located, Tree!Holds,
         TreeProofs!Inv, TreeProofs!TypeOK, TreeProofs!NoDuplicateKeys,
         TreeProofs!SortedUnlessMarked, TreeProofs!IndexExact,
         TreeProofs!LongMeansIndexed, TreeProofs!Distinct,
         TreeProofs!Ascending, TreeProofs!Less, TreeProofs!Located,
         TreeProofs!Holds

\* So are their initial states.
LEMMA SameInit == Tree!Init <=> TreeProofs!Init
  BY DEF Tree!Init, Tree!NoIndex, TreeProofs!Init, TreeProofs!NoIndex

\* So is Release.
LEMMA SameRelease == Tree!Release <=> TreeProofs!Release
  BY DEF Tree!Release, Tree!NoIndex, TreeProofs!Release, TreeProofs!NoIndex

\* So is Set.
LEMMA SameSet ==
  ASSUME NEW k, NEW text
  PROVE  Tree!Set(k, text) <=> TreeProofs!Set(k, text)
<1> USE DEF Tree!AppendTo, Tree!DropAt, Tree!Reindexed, Tree!Assigned,
            Tree!LongEnough, Tree!NoIndex, Tree!ScanRemove, Tree!Holds,
            Tree!FirstAt, Tree!Less, TreeProofs!AppendTo, TreeProofs!DropAt,
            TreeProofs!Reindexed, TreeProofs!Assigned, TreeProofs!LongEnough,
            TreeProofs!NoIndex, TreeProofs!ScanRemove, TreeProofs!Holds,
            TreeProofs!FirstAt, TreeProofs!Less
<1>1. Tree!SetByIndex(k, text) <=> TreeProofs!SetByIndex(k, text)
  BY DEF Tree!SetByIndex, TreeProofs!SetByIndex
<1>2. Tree!SetByScan(k, text) <=> TreeProofs!SetByScan(k, text)
  BY DEF Tree!SetByScan, TreeProofs!SetByScan
<1> QED
  BY <1>1, <1>2 DEF Tree!Set, TreeProofs!Set

-------------------------------------------------------------------------------
\* Init of the tree's object.
LEMMA TreeInitInv == Tree!Init => TreeInv
  BY SameInit, SameInv, MaxSetsAssumption, IndexAtAssumption,
     BeforeAssumption, TreeProofs!InitInv

\* Every step is one of the tree's object or leaves it alone.
LEMMA NextIsTreeNext ==
  ASSUME [NextEither]_<<vars, treeVars>>
  PROVE  [TreeProofs!Next]_(TreeProofs!vars)
<1>1. CASE DecodeObject
  BY <1>1, SameRelease, SameSet DEF DecodeObject, Tree!Next, TreeProofs!Next
<1>2. CASE UNCHANGED treeVars
  BY <1>2 DEF treeVars, TreeProofs!vars
<1> QED
  BY <1>1, <1>2 DEF NextEither, WriteObject

\* Every step is one of the writer's table or leaves it alone.
LEMMA NextIsNext ==
  ASSUME [NextEither]_<<vars, treeVars>>
  PROVE  [Next]_vars
  BY DEF NextEither, WriteObject, DecodeObject

\* The invariant of the tree's object is inductive.
LEMMA TreeStepInv ==
  ASSUME TreeInv, [NextEither]_<<vars, treeVars>>
  PROVE  TreeInv'
<1>1. TreeProofs!Inv /\ [TreeProofs!Next]_(TreeProofs!vars)
  BY SameInv, NextIsTreeNext
<1>2. TreeProofs!Inv'
  BY <1>1, MaxSetsAssumption, IndexAtAssumption, BeforeAssumption,
     TreeProofs!StepInv
<1>3. (TreeInv <=> TreeProofs!Inv)'
  BY SameInv, PTL
<1> QED
  BY <1>2, <1>3

-------------------------------------------------------------------------------
\* Whichever calls a program makes, both tables keep their inductive invariants:
\* keys are distinct, NeedsSort = false means sorted, both maps are exact, the
\* writer's spans do not overlap, and the tree's scans are never long.
THEOREM BothInvariant == SpecBoth => [](Inv /\ TreeInv)
<1>1. InitBoth => Inv /\ TreeInv
  BY InitInv, TreeInitInv DEF InitBoth
<1>2. Inv /\ TreeInv /\ [NextEither]_<<vars, treeVars>> => (Inv /\ TreeInv)'
  BY StepInv, TreeStepInv, NextIsNext
<1> QED
  BY <1>1, <1>2, PTL DEF SpecBoth

\* The tree's object alone.
THEOREM TreeInvariant == SpecBoth => []TreeInv
  BY BothInvariant, PTL

\* The tree's object implements the abstract object: of every key the last
\* value, at the place of its last write.
THEOREM TreeRefinement == SpecBoth => TreeLastWriteWins
<1>1. InitBoth => Tree!Object!Init
  BY DEF InitBoth, Tree!Init, Tree!Object!Init
<1>2. TreeInv /\ [NextEither]_<<vars, treeVars>> => [Tree!Object!Next]_treeMembers
  <2> SUFFICES ASSUME TreeInv, [NextEither]_<<vars, treeVars>>
               PROVE  [Tree!Object!Next]_treeMembers
    OBVIOUS
  <2>1. [TreeProofs!Object!Next]_treeMembers
    BY SameInv, NextIsTreeNext, IndexAtAssumption, BeforeAssumption,
       TreeProofs!StepRefines
  <2>2. Tree!Object!Next <=> TreeProofs!Object!Next
    BY DEF Tree!Object!Next, Tree!Object!PutNew, Tree!Object!PutAgain,
           Tree!Object!At, Tree!Object!Without, Tree!Object!Clear,
           TreeProofs!Object!Next, TreeProofs!Object!PutNew,
           TreeProofs!Object!PutAgain, TreeProofs!Object!At,
           TreeProofs!Object!Without, TreeProofs!Object!Clear
  <2> QED
    BY <2>1, <2>2
<1> QED
  BY <1>1, <1>2, BothInvariant, PTL
     DEF SpecBoth, TreeLastWriteWins, Tree!LastWriteWins, Tree!Object!Spec
================================================================================
