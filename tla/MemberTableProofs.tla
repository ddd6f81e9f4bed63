--------------------------- MODULE MemberTableProofs ---------------------------
(***************************************************************************)
(* Lemmas about the operators of MemberTables: what removing a member,     *)
(* renumbering the map and appending a member keep true.  No induction is  *)
(* needed: once keys are distinct, the first member with a key is the only *)
(* one.                                                                    *)
(***************************************************************************)
EXTENDS MemberTables, TLAPS

\* DropAt gives a slice that is one shorter and skips position p.
LEMMA DropAtType ==
  ASSUME NEW S, NEW s \in Seq(S), NEW p \in 1..Len(s)
  PROVE  /\ DropAt(s, p) \in Seq(S)
         /\ Len(DropAt(s, p)) = Len(s) - 1
         /\ \A i \in 1..(Len(s) - 1) :
              DropAt(s, p)[i] = s[IF i < p THEN i ELSE i + 1]
<1> DEFINE n == Len(s) - 1
           d == DropAt(s, p)
<1>1. n \in Nat
  OBVIOUS
<1>2. d = [i \in 1..n |-> IF i < p THEN s[i] ELSE s[i + 1]]
  BY DEF DropAt
<1>3. \A i \in 1..n : d[i] \in S
  BY <1>2
<1>4. d \in [1..n -> S]
  BY <1>2, <1>3
<1>5. d \in Seq(S) /\ Len(d) = n
  BY <1>1, <1>4
<1> QED
  BY <1>2, <1>5

\* Removing the member of a key from a slice with distinct keys leaves the keys
\* distinct and the removed key absent.
LEMMA RemoveDistinct ==
  ASSUME NEW S, NEW s \in Seq(S), NEW p \in 1..Len(s), Distinct(s)
  PROVE  Distinct(DropAt(s, p)) /\ ~Holds(DropAt(s, p), s[p].key)
<1> DEFINE d == DropAt(s, p)
           n == Len(s) - 1
           at(i) == IF i < p THEN i ELSE i + 1
<1>1. Len(d) = n /\ \A i \in 1..n : d[i] = s[at(i)]
  BY DropAtType
<1>2. \A i \in 1..n : at(i) \in 1..Len(s) /\ at(i) # p
  OBVIOUS
<1>3. \A i, j \in 1..n : at(i) = at(j) => i = j
  OBVIOUS
<1> HIDE DEF d, n, at
<1>4. Distinct(d)
  BY <1>1, <1>2, <1>3 DEF Distinct
<1>5. ~Holds(d, s[p].key)
  BY <1>1, <1>2 DEF Distinct, Holds
<1> QED
  BY <1>4, <1>5 DEF d

\* Removing a member leaves ascending keys ascending.
LEMMA DropAscending ==
  ASSUME NEW S, NEW s \in Seq(S), NEW p \in 1..Len(s), Ascending(s)
  PROVE  Ascending(DropAt(s, p))
<1> DEFINE d == DropAt(s, p)
           n == Len(s) - 1
           at(i) == IF i < p THEN i ELSE i + 1
<1>1. Len(d) = n /\ \A i \in 1..n : d[i] = s[at(i)]
  BY DropAtType
<1>2. \A i \in 1..n : at(i) \in 1..Len(s)
  OBVIOUS
<1>3. \A i, j \in 1..n : i < j => at(i) < at(j)
  OBVIOUS
<1> HIDE DEF d, n, at
<1>4. Ascending(d)
  BY <1>1, <1>2, <1>3 DEF Ascending
<1> QED
  BY <1>4 DEF d

\* The scan finds the one member with the key.
LEMMA FirstAtFound ==
  ASSUME NEW S, NEW s \in Seq(S), NEW k, Distinct(s), Holds(s, k)
  PROVE  FirstAt(s, k) \in 1..Len(s) /\ s[FirstAt(s, k)].key = k
<1>1. PICK i \in 1..Len(s) : s[i].key = k
  BY DEF Holds
<1>2. \A j \in 1..(i - 1) : s[j].key # k
  BY <1>1 DEF Distinct
<1>3. \E m \in 1..Len(s) : s[m].key = k /\ \A j \in 1..(m - 1) : s[j].key # k
  BY <1>1, <1>2
<1> QED
  BY <1>3 DEF FirstAt

\* A new key at the end keeps the keys distinct.
LEMMA AppendDistinct ==
  ASSUME NEW S, NEW s \in Seq(S), NEW m \in S, Distinct(s), ~Holds(s, m.key)
  PROVE  Distinct(Append(s, m))
  BY DEF Distinct, Holds

\* In a strict order, ascending keys are distinct.
LEMMA AscendingDistinct ==
  ASSUME NEW S, NEW s \in Seq(S), \A x \in S : x.key \in Key, Ascending(s)
  PROVE  Distinct(s)
<1> SUFFICES ASSUME NEW i \in 1..Len(s), NEW j \in 1..Len(s),
                    s[i].key = s[j].key, i # j
             PROVE  FALSE
  BY DEF Distinct
<1>1. s[i].key \in Key
  OBVIOUS
<1>2. <<s[i].key, s[i].key>> \in Before
  BY DEF Ascending, Less
<1> QED
  BY <1>1, <1>2, BeforeAssumption

\* A key behind the last one, with all keys ascending, is behind all of them.
LEMMA AppendAscending ==
  ASSUME NEW S, NEW s \in Seq(S), NEW m \in S, \A x \in S : x.key \in Key,
         Ascending(s), s # << >> => Less(s[Len(s)].key, m.key)
  PROVE  Ascending(Append(s, m))
<1> DEFINE t == Append(s, m)
           n == Len(s)
<1> SUFFICES ASSUME NEW i \in 1..Len(t), NEW j \in 1..Len(t), i < j
             PROVE  Less(t[i].key, t[j].key)
  BY DEF Ascending
<1>1. n \in Nat /\ Len(t) = n + 1 /\ t[n + 1] = m /\ \A l \in 1..n : t[l] = s[l]
  OBVIOUS
<1>2. CASE j \in 1..n
  BY <1>1, <1>2 DEF Ascending
<1>3. CASE j = n + 1 /\ i = n
  BY <1>1, <1>3
<1>4. CASE j = n + 1 /\ i < n
  <2>1. Less(s[i].key, s[n].key) /\ Less(s[n].key, m.key)
    BY <1>1, <1>4 DEF Ascending
  <2>2. s[i].key \in Key /\ s[n].key \in Key /\ m.key \in Key
    BY <1>1, <1>4
  <2>3. Less(s[i].key, m.key)
    BY <2>1, <2>2, BeforeAssumption DEF Less
  <2> QED
    BY <1>1, <1>4, <2>3
<1> QED
  BY <1>1, <1>2, <1>3, <1>4

\* After a loop of assignments over a slice with distinct keys, a key of the
\* slice behind first has its position and every other key what it had.
LEMMA AssignedAt ==
  ASSUME NEW S, NEW s \in Seq(S), NEW index, NEW first \in Nat,
         NEW k \in Key, Distinct(s)
  PROVE  /\ \A i \in 1..Len(s) :
              first <= i /\ s[i].key = k => Assigned(index, s, first)[k] = i
         /\ ~(\E i \in 1..Len(s) : first <= i /\ s[i].key = k)
              => Assigned(index, s, first)[k] = index[k]
<1> DEFINE at == {i \in 1..Len(s) : first <= i /\ s[i].key = k}
<1>1. Assigned(index, s, first)[k] =
        IF at = {} THEN index[k] ELSE CHOOSE i \in at : \A j \in at : j <= i
  BY DEF Assigned
<1>2. ASSUME NEW i \in 1..Len(s), first <= i, s[i].key = k
      PROVE  Assigned(index, s, first)[k] = i
  <2>1. at = {i}
    BY <1>2 DEF Distinct
  <2>2. (CHOOSE l \in at : \A j \in at : j <= l) = i
    BY <2>1
  <2> QED
    BY <1>1, <2>1, <2>2
<1>3. ASSUME ~(\E i \in 1..Len(s) : first <= i /\ s[i].key = k)
      PROVE  Assigned(index, s, first)[k] = index[k]
  BY <1>1, <1>3
<1> QED
  BY <1>2, <1>3

\* The map built from a slice with distinct keys locates every member.
LEMMA BuiltLocated ==
  ASSUME NEW S, NEW s \in Seq(S), Distinct(s)
  PROVE  Located(Assigned(NoIndex, s, 1), s)
  BY AssignedAt DEF Located, Holds, NoIndex

\* Renumbering from the gap on keeps the map exact after a removal.
LEMMA ReindexedLocated ==
  ASSUME NEW S, NEW s \in Seq(S), NEW index \in [Key -> Nat], NEW k \in Key,
         NEW p \in 1..Len(s), s[p].key = k, Distinct(s), Located(index, s),
         \A x \in S : x.key \in Key
  PROVE  Located(Reindexed(index, DropAt(s, p), k, p), DropAt(s, p))
<1> DEFINE d == DropAt(s, p)
           deleted == [index EXCEPT ![k] = 0]
           new == Reindexed(index, d, k, p)
<1>1. /\ d \in Seq(S) /\ Len(d) = Len(s) - 1
      /\ \A i \in 1..Len(d) : d[i] = s[IF i < p THEN i ELSE i + 1]
  BY DropAtType
<1>2. Distinct(d) /\ ~Holds(d, k)
  BY RemoveDistinct
<1>3. \A x \in Key :
        /\ \A i \in 1..Len(d) : p <= i /\ d[i].key = x => new[x] = i
        /\ ~(\E i \in 1..Len(d) : p <= i /\ d[i].key = x) => new[x] = deleted[x]
  <2>1. new = Assigned(deleted, d, p)
    BY DEF Reindexed
  <2>2. p \in Nat
    OBVIOUS
  <2> HIDE DEF d, deleted, new
  <2> QED
    BY <1>1, <1>2, <2>1, <2>2, AssignedAt
<1> HIDE DEF d, new
<1>4. ASSUME NEW x \in Key, NEW i \in 1..Len(d), d[i].key = x
      PROVE  new[x] = i
  <2>1. CASE p <= i
    BY <1>3, <1>4, <2>1
  <2>2. CASE i < p
    <3>1. x # k
      BY <1>2, <1>4 DEF Holds
    <3>2. ~(\E j \in 1..Len(d) : p <= j /\ d[j].key = x)
      BY <1>1, <1>2, <1>4, <2>2 DEF Distinct
    <3>3. new[x] = deleted[x]
      BY <1>3, <3>2
    <3>4. i \in 1..Len(s) /\ s[i].key = x
      BY <1>1, <1>4, <2>2
    <3>5. index[x] = i
      BY <3>4 DEF Located
    <3> QED
      BY <3>1, <3>3, <3>5
  <2> QED
    BY <1>1, <2>1, <2>2
<1>5. ASSUME NEW x \in Key, ~Holds(d, x)
      PROVE  new[x] = 0
  <2>1. ~(\E j \in 1..Len(d) : p <= j /\ d[j].key = x)
    BY <1>5 DEF Holds
  <2>2. new[x] = deleted[x]
    BY <1>3, <2>1
  <2>3. CASE x = k
    BY <2>2, <2>3
  <2>4. CASE x # k
    <3>1. ~Holds(s, x)
      <4> SUFFICES ASSUME NEW i \in 1..Len(s), s[i].key = x
                   PROVE  FALSE
        BY DEF Holds
      <4>1. i # p
        BY <2>4
      <4>2. CASE i < p
        <5>1. i \in 1..Len(d) /\ d[i].key = x
          BY <1>1, <4>2
        <5> QED
          BY <1>5, <5>1 DEF Holds
      <4>3. CASE p < i
        <5>1. i - 1 \in 1..Len(d) /\ ~(i - 1 < p) /\ (i - 1) + 1 = i
          BY <1>1, <4>3
        <5>2. d[i - 1] = s[i]
          BY <1>1, <5>1
        <5> QED
          BY <1>5, <5>1, <5>2 DEF Holds
      <4> QED
        BY <4>1, <4>2, <4>3
    <3> QED
      BY <2>2, <2>4, <3>1 DEF Located
  <2> QED
    BY <2>3, <2>4
<1> QED
  BY <1>4, <1>5 DEF Located, d, new

\* Entering the appended member keeps the map exact.
LEMMA AppendLocated ==
  ASSUME NEW S, NEW s \in Seq(S), NEW m \in S, NEW index \in [Key -> Nat],
         Located(index, s), ~Holds(s, m.key)
  PROVE  Located([index EXCEPT ![m.key] = Len(s) + 1], Append(s, m))
<1> DEFINE t == Append(s, m)
           n == Len(s)
<1>1. n \in Nat /\ Len(t) = n + 1 /\ t[n + 1] = m /\ \A l \in 1..n : t[l] = s[l]
  OBVIOUS
<1> DEFINE new == [index EXCEPT ![m.key] = n + 1]
<1>2. \A k \in Key : new[k] = IF k = m.key THEN n + 1 ELSE index[k]
  OBVIOUS
<1> HIDE DEF t, n, new
<1>3. ASSUME NEW k \in Key, NEW i \in 1..Len(t), t[i].key = k
      PROVE  new[k] = i
  <2>1. CASE i = n + 1
    BY <1>1, <1>2, <1>3, <2>1
  <2>2. CASE i \in 1..n
    BY <1>1, <1>2, <1>3, <2>2 DEF Located, Holds, n
  <2> QED
    BY <1>1, <2>1, <2>2
<1>4. ASSUME NEW k \in Key, ~Holds(t, k)
      PROVE  new[k] = 0
  <2>1. k # m.key
    BY <1>1, <1>4 DEF Holds
  <2>2. ~Holds(s, k)
    BY <1>1, <1>4 DEF Holds, n
  <2> QED
    BY <1>2, <2>1, <2>2 DEF Located
<1> QED
  BY <1>3, <1>4 DEF Located, t, n, new

\* Only a key of the slice has a position in an exact map.
LEMMA LocatedPosition ==
  ASSUME NEW S, NEW s \in Seq(S), NEW index \in [Key -> Nat], NEW k \in Key,
         Located(index, s)
  PROVE  IF index[k] = 0 THEN ~Holds(s, k)
         ELSE index[k] \in 1..Len(s) /\ s[index[k]].key = k
  BY DEF Located, Holds

\* Assigning and renumbering give a map again.
LEMMA AssignedType ==
  ASSUME NEW S, NEW s \in Seq(S), NEW index \in [Key -> Nat],
         NEW first \in Nat, Distinct(s)
  PROVE  Assigned(index, s, first) \in [Key -> Nat]
<1> DEFINE a == Assigned(index, s, first)
<1>1. \A k \in Key : a[k] \in Nat
  <2> TAKE k \in Key
  <2>1. CASE \E i \in 1..Len(s) : first <= i /\ s[i].key = k
    <3>1. PICK i \in 1..Len(s) : first <= i /\ s[i].key = k
      BY <2>1
    <3>2. a[k] = i
      BY <3>1, AssignedAt
    <3> QED
      BY <3>2
  <2>2. CASE ~(\E i \in 1..Len(s) : first <= i /\ s[i].key = k)
    <3>1. a[k] = index[k]
      BY <2>2, AssignedAt
    <3> QED
      BY <3>1
  <2> QED
    BY <2>1, <2>2
<1>2. a = [k \in Key |-> a[k]]
  BY DEF Assigned
<1> HIDE DEF a
<1>3. a \in [Key -> Nat]
  BY <1>1, <1>2
<1> QED
  BY <1>3 DEF a

\* The renumbered map is a map from keys to positions.
LEMMA ReindexedType ==
  ASSUME NEW S, NEW s \in Seq(S), NEW index \in [Key -> Nat], NEW k \in Key,
         NEW p \in Nat, Distinct(s)
  PROVE  Reindexed(index, s, k, p) \in [Key -> Nat]
<1>1. [index EXCEPT ![k] = 0] \in [Key -> Nat]
  OBVIOUS
<1> QED
  BY <1>1, AssignedType DEF Reindexed
===============================================================================
