----------------------------- MODULE MemberTables -----------------------------
(***************************************************************************)
(* The data of an object that is being read member by member: a slice of   *)
(* members in document order and a map from a key to its position, built   *)
(* only once the slice is long (json_direct.go, render.go).                *)
(*                                                                         *)
(* A slice is a sequence of records with a field key.  A Go map from keys  *)
(* to positions is a function that is 0 at the keys the map does not hold. *)
(***************************************************************************)
EXTENDS Naturals, Sequences

CONSTANTS
  Key,      \* the object keys
  Before,   \* <<a, b>> \in Before: the string order puts a before b
  IndexAt   \* the number of members at which the map is built (8 in the code)

ASSUME IndexAtAssumption == IndexAt \in Nat \ {0}

\* Two different keys may tie: invalid UTF-8 bytes and U+FFFD decode to one
\* rune, so the code's order is not total, and nothing here says it is.
ASSUME BeforeAssumption ==
  /\ \A k \in Key : <<k, k>> \notin Before
  /\ \A a, b, c \in Key :
       <<a, b>> \in Before /\ <<b, c>> \in Before => <<a, c>> \in Before

Less(a, b) == <<a, b>> \in Before

NoIndex == [k \in Key |-> 0]

Holds(s, k) == \E i \in 1..Len(s) : s[i].key = k

\* The loop over the slice stops at the first member with the key.
FirstAt(s, k) ==
  CHOOSE i \in 1..Len(s) : s[i].key = k /\ \A j \in 1..(i - 1) : s[j].key # k

\* Mutant: the wrong slice offset drops the member behind p.
DropBehind(s, p) ==
  [j \in 1..(Len(s) - 1) |-> IF j <= p THEN s[j] ELSE s[j + 1]]

\* copy(s[p:], s[p+1:]) and then s[:len(s)-1].
DropAt(s, p) ==
  [j \in 1..(Len(s) - 1) |-> IF j < p THEN s[j] ELSE s[j + 1]]

ScanRemove(s, k) == IF Holds(s, k) THEN DropAt(s, FirstAt(s, k)) ELSE s

\* A loop of assignments index[s[i].key] = i from position first to the end:
\* the last assignment to a key stays.
Assigned(index, s, first) ==
  [k \in Key |->
     LET at == {i \in 1..Len(s) : first <= i /\ s[i].key = k}
     IN  IF at = {} THEN index[k] ELSE CHOOSE i \in at : \A j \in at : j <= i]

\* Mutant: the renumbering begins one too late.
ReindexedLate(index, s, k, p) == Assigned([index EXCEPT ![k] = 0], s, p + 1)

\* delete(index, key), then the positions behind the dropped one again.
Reindexed(index, s, k, p) == Assigned([index EXCEPT ![k] = 0], s, p)

-------------------------------------------------------------------------------
\* What the tables keep true of a slice and a map.
Distinct(s) == \A i, j \in 1..Len(s) : s[i].key = s[j].key => i = j

Ascending(s) == \A i, j \in 1..Len(s) : i < j => Less(s[i].key, s[j].key)

Located(index, s) ==
  \A k \in Key :
    /\ \A i \in 1..Len(s) : s[i].key = k => index[k] = i
    /\ ~Holds(s, k) => index[k] = 0
===============================================================================
