----------------------------- MODULE OrderedObject -----------------------------
(***************************************************************************)
(* The object the JSON decoder fills before RON is rendered (render.go).   *)
(* It keeps the values themselves, always looks for a duplicate, and goes  *)
(* over from scanning to a map when the slice holds exactly IndexAt        *)
(* members after the search.                                               *)
(***************************************************************************)
EXTENDS MemberTables

CONSTANTS
  Value,     \* the decoded member values
  MaxSets    \* bound of the model: the calls of Set on one object

VARIABLES
  members,     \* orderedObject.Members
  indexed,     \* orderedObject.Index # nil
  index,       \* orderedObject.Index
  needsSort,   \* orderedObject.NeedsSort
  sets         \* the calls of Set so far

vars == <<members, indexed, index, needsSort, sets>>

Init ==
  /\ members = << >>
  /\ indexed = FALSE
  /\ index = NoIndex
  /\ needsSort = FALSE
  /\ sets = 0

-------------------------------------------------------------------------------
\* What every Set does after the search: mark, enter into the map, append.
AppendTo(kept, k, v) ==
  /\ needsSort' = (needsSort \/ (kept # << >> /\ ~Less(kept[Len(kept)].key, k)))
  /\ members' = Append(kept, [key |-> k, value |-> v])

SetByIndex(k, v) ==
  /\ indexed
  /\ LET p == index[k]
         kept == IF p = 0 THEN members ELSE DropAt(members, p)
         moved == IF p = 0 THEN index ELSE Reindexed(index, kept, k, p)
     IN  /\ AppendTo(kept, k, v)
         /\ index' = [moved EXCEPT ![k] = Len(kept) + 1]
  /\ UNCHANGED indexed

\* Mutant: one member later.
LongEnoughLate(kept) == members # << >> /\ Len(kept) = IndexAt + 1

\* The map is built once, when exactly IndexAt members are left.
LongEnough(kept) == members # << >> /\ Len(kept) = IndexAt

SetByScan(k, v) ==
  /\ ~indexed
  /\ LET kept == ScanRemove(members, k)
         build == LongEnough(kept)
     IN  /\ AppendTo(kept, k, v)
         /\ indexed' = build
         /\ index' = IF build
                     THEN [Assigned(NoIndex, kept, 1) EXCEPT ![k] = Len(kept) + 1]
                     ELSE index

Set(k, v) ==
  /\ sets < MaxSets
  /\ sets' = sets + 1
  /\ SetByIndex(k, v) \/ SetByScan(k, v)

\* The object is rendered and dropped; the next one starts empty.
Release ==
  /\ members' = << >>
  /\ indexed' = FALSE
  /\ index' = NoIndex
  /\ needsSort' = FALSE
  /\ sets' = 0

Next == Release \/ \E k \in Key, v \in Value : Set(k, v)

Spec == Init /\ [][Next]_vars

-------------------------------------------------------------------------------
\* The types of the object.
TypeOK ==
  /\ members \in Seq([key : Key, value : Value])
  /\ indexed \in BOOLEAN
  /\ index \in [Key -> Nat]
  /\ needsSort \in BOOLEAN
  /\ sets \in 0..MaxSets

\* No key occurs twice in the object.
NoDuplicateKeys == Distinct(members)

\* NeedsSort = false is a promise that the members are in string order.
SortedUnlessMarked == ~needsSort => Ascending(members)

\* The map, once built, holds exactly the keys of the slice at their positions.
IndexExact == indexed => Located(index, members)

\* An object of more than IndexAt members has the map: the equality test that
\* builds it cannot be stepped over, so no scan is longer than IndexAt.
LongMeansIndexed == Len(members) > IndexAt => indexed

\* What Set relies on, and the inductive invariant: the scan that drops a key
\* drops the only one, the last member tells whether a new key is in order, and
\* a map that is built late holds everything that came before it.
Inv ==
  /\ TypeOK
  /\ NoDuplicateKeys
  /\ SortedUnlessMarked
  /\ IndexExact
  /\ LongMeansIndexed

Object == INSTANCE MemberMap WITH doc <- members

\* The object implements the abstract one: the last value of each key wins and
\* takes the place of its last write.
LastWriteWins == Object!Spec
===============================================================================
