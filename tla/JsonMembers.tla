------------------------------ MODULE JsonMembers ------------------------------
(***************************************************************************)
(* The members of one object of the direct RON-to-JSON writer              *)
(* (json_direct.go).  Every member value is written to one scratch buffer  *)
(* and the member keeps the span it occupies there.  As long as the keys   *)
(* arrive in ascending order no duplicate is possible and none is looked   *)
(* for; the first key out of order turns on the search, which is a scan of *)
(* the slice until the slice is long and a map lookup from then on.        *)
(***************************************************************************)
EXTENDS MemberTables

CONSTANTS
  Byte,      \* the bytes of JSON text
  Text,      \* the JSON texts of member values, none of them empty
  MaxBytes   \* bound of the model: the length of the scratch buffer

ASSUME TextAssumption == Text \subseteq Seq(Byte) \ {<< >>}

VARIABLES
  members,     \* jsonMembers.Values
  indexed,     \* jsonMembers.Index # nil
  index,       \* jsonMembers.Index
  needsSort,   \* jsonMembers.NeedsSort
  buffer       \* the scratch buffer of the values of this object

vars == <<members, indexed, index, needsSort, buffer>>

Init ==
  /\ members = << >>
  /\ indexed = FALSE
  /\ index = NoIndex
  /\ needsSort = FALSE
  /\ buffer = << >>

-------------------------------------------------------------------------------
\* Mutant: the comparison takes keys that tie for ascending.
OrderedOrTied(k) == members # << >> => ~Less(k, members[Len(members)].key)

Ordered(k) == members # << >> => Less(members[Len(members)].key, k)

\* Mutant: the mark is never set by a key out of order.
UnlessMarked(k) == ~needsSort

NoScan(k) == ~needsSort /\ Ordered(k)

NewMember(k, text) ==
  [key |-> k, start |-> Len(buffer), end |-> Len(buffer) + Len(text)]

\* Keys in order so far, this one too: neither a scan nor a map.
SetInOrder(k, text) ==
  /\ NoScan(k)
  /\ members' = Append(members, NewMember(k, text))
  /\ index' = IF indexed THEN [index EXCEPT ![k] = Len(members) + 1] ELSE index
  /\ UNCHANGED <<indexed, needsSort>>

\* The map exists: find the member there, close the gap, renumber.
SetByIndex(k, text) ==
  /\ ~NoScan(k)
  /\ indexed
  /\ needsSort' = TRUE
  /\ LET p == index[k]
         kept == IF p = 0 THEN members ELSE DropAt(members, p)
         moved == IF p = 0 THEN index ELSE Reindexed(index, kept, k, p)
     IN  /\ members' = Append(kept, NewMember(k, text))
         /\ index' = [moved EXCEPT ![k] = Len(kept) + 1]
  /\ UNCHANGED indexed

\* No map yet: scan, and build the map if what is left is long.
SetByScan(k, text) ==
  /\ ~NoScan(k)
  /\ ~indexed
  /\ needsSort' = TRUE
  /\ LET kept == ScanRemove(members, k)
         build == Len(kept) >= IndexAt
     IN  /\ members' = Append(kept, NewMember(k, text))
         /\ indexed' = build
         /\ index' = IF build
                     THEN [Assigned(NoIndex, kept, 1) EXCEPT ![k] = Len(kept) + 1]
                     ELSE index

\* The writer appends the value to the scratch buffer and calls Set.
Set(k, text) ==
  /\ Len(buffer) + Len(text) <= MaxBytes
  /\ buffer' = buffer \o text
  /\ SetInOrder(k, text) \/ SetByIndex(k, text) \/ SetByScan(k, text)

\* The end of the object, or an error in it: the slice goes back to the
\* scratch state, and the next object starts with a new jsonMembers.
Release ==
  /\ members' = << >>
  /\ indexed' = FALSE
  /\ index' = NoIndex
  /\ needsSort' = FALSE
  /\ buffer' = << >>

Next == Release \/ \E k \in Key, text \in Text : Set(k, text)

Spec == Init /\ [][Next]_vars

-------------------------------------------------------------------------------
Member == [key : Key, start : Nat, end : Nat]

\* Spans of at least one byte, in order, in a buffer of n bytes.
Apart(s, n) ==
  /\ \A i \in 1..Len(s) : s[i].start < s[i].end /\ s[i].end <= n
  /\ \A i, j \in 1..Len(s) : i < j => s[i].end <= s[j].start

\* The document a slice stands for: each key with the bytes of its span.
DocOf(s, bytes) ==
  [i \in 1..Len(s) |->
     [key |-> s[i].key, value |-> SubSeq(bytes, s[i].start + 1, s[i].end)]]

\* The types of the table.
TypeOK ==
  /\ members \in Seq(Member)
  /\ indexed \in BOOLEAN
  /\ index \in [Key -> Nat]
  /\ needsSort \in BOOLEAN
  /\ buffer \in Seq(Byte)

\* No key occurs twice, although Set looks for duplicates only after a key
\* out of order: the JSON object has no duplicate member.
NoDuplicateKeys == Distinct(members)

\* NeedsSort = false is a promise that the members are in string order (the
\* writer sorts only if NeedsSort, and Set searches only if NeedsSort).
SortedUnlessMarked == ~needsSort => Ascending(members)

\* The map, once built, holds exactly the keys of the slice at their positions,
\* through every removal and renumbering.
IndexExact == indexed => Located(index, members)

\* Only a table that has seen a key out of order has a map.
IndexedMeansMarked == indexed => needsSort

\* The spans lie in the buffer and a later member has a later span: no member
\* ever shows a byte of the value of another.
SpansApart == Apart(members, Len(buffer))

Doc == DocOf(members, buffer)

Object == INSTANCE MemberMap WITH Key <- Key, Value <- Text, doc <- Doc

\* The table implements the abstract object: the last value of each key wins
\* and takes the place of its last write, whichever search found the old one.
LastWriteWins == Object!Spec

\* What Set relies on, and the inductive invariant: keys are distinct, a table
\* that is not marked is in order, its map holds the positions there are, only
\* a marked table has a map, and the spans of the members do not overlap.
Inv ==
  /\ TypeOK
  /\ NoDuplicateKeys
  /\ SortedUnlessMarked
  /\ IndexExact
  /\ IndexedMeansMarked
  /\ SpansApart
===============================================================================
