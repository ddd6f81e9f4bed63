------------------------------ MODULE ObjectTables ------------------------------
(***************************************************************************)
(* The two member tables of the library.   The direct writer of ToJSON     *)
(* fills a jsonMembers (json_direct.go); the readers of JSON and the       *)
(* marshaler fill an orderedObject (convert.go, rfc8785.go, marshal.go).   *)
(* They find duplicates by different tests, mark themselves by different   *)
(* tests and build their maps at different moments, and nothing ever       *)
(* passes from the one to the other: a call works on one kind of object,   *)
(* which is finished before the next call works on the other.              *)
(***************************************************************************)
EXTENDS JsonMembers

CONSTANT MaxSets      \* bound of the model: the calls of Set on one object

ASSUME MaxSetsAssumption == MaxSets \in Nat

VARIABLES
  treeMembers,    \* orderedObject.Members
  treeIndexed,    \* orderedObject.Index # nil
  treeIndex,      \* orderedObject.Index
  treeNeedsSort,  \* orderedObject.NeedsSort
  sets            \* the calls of Set so far

Tree == INSTANCE OrderedObject
  WITH Value <- Text, members <- treeMembers, indexed <- treeIndexed,
       index <- treeIndex, needsSort <- treeNeedsSort

treeVars == <<treeMembers, treeIndexed, treeIndex, treeNeedsSort, sets>>

InitBoth == Init /\ Tree!Init

\* A call of the direct writer.
WriteObject == treeMembers = << >> /\ Next /\ UNCHANGED treeVars

\* A call that decodes JSON or marshals a struct.
DecodeObject == members = << >> /\ Tree!Next /\ UNCHANGED vars

NextEither == WriteObject \/ DecodeObject

SpecBoth == InitBoth /\ [][NextEither]_<<vars, treeVars>>

--------------------------------------------------------------------------------
\* The ordered object keeps every key once, its NeedsSort = false is a promise
\* that the members are in string order, its map holds exactly the keys of the
\* slice at their positions, and the equality test that builds the map cannot
\* be stepped over, so that no scan is longer than IndexAt.
TreeInv == Tree!Inv

\* The ordered object implements the abstract one.
TreeLastWriteWins == Tree!LastWriteWins
================================================================================
