------------------------------- MODULE MemberMap -------------------------------
(***************************************************************************)
(* What an object promises while it is read: of every key the last value   *)
(* written, at the place of that last write.                               *)
(***************************************************************************)
EXTENDS Naturals, Sequences

CONSTANTS Key, Value

VARIABLE doc   \* the members of the object so far, in the order of the output

At(k) == {i \in 1..Len(doc) : doc[i].key = k}

\* doc without the member at p.
Without(p) == [j \in 1..(Len(doc) - 1) |-> IF j < p THEN doc[j] ELSE doc[j + 1]]

Init == doc = << >>

PutNew(k, v) ==
  /\ At(k) = {}
  /\ doc' = Append(doc, [key |-> k, value |-> v])

PutAgain(k, v) ==
  \E p \in At(k) : doc' = Append(Without(p), [key |-> k, value |-> v])

Clear == doc' = << >>

Next ==
  \/ \E k \in Key, v \in Value : PutNew(k, v) \/ PutAgain(k, v)
  \/ Clear

Spec == Init /\ [][Next]_doc
===============================================================================
