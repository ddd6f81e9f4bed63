-------------------------------- MODULE KeyOrder --------------------------------
(***************************************************************************)
(* The order of object keys (rfc8785.go): by UTF-16 code units, with a     *)
(* comparison of bytes as a short cut when both keys are ASCII.            *)
(*                                                                         *)
(* A key is a sequence of code points; a negative one stands for a byte    *)
(* that is no UTF-8.                                                       *)
(***************************************************************************)
EXTENDS Integers, SequencesExt

\* utf8.DecodeRuneInString and utf16.EncodeRune, of one element of a key.
CodeUnits(r) ==
  IF r < 0 THEN << 65533 >>
  ELSE IF r <= 65535 THEN << r >>
  ELSE << 55296 + (r - 65536) \div 1024, 56320 + ((r - 65536) % 1024) >>

\* What the iterator returns until it is exhausted.
Utf16(text) == FlattenSeq([i \in DOMAIN text |-> CodeUnits(text[i])])

\* The first difference decides, and the end comes before anything.
LessByElement(left, right) ==
  \E n \in 0..Len(left) :
    /\ n < Len(right)
    /\ \A i \in 1..n : left[i] = right[i]
    /\ n = Len(left) \/ left[n + 1] < right[n + 1]

Ascii(text) == \A i \in DOMAIN text : text[i] \in 0..127

\* rfc8785StringLess.
StringLess(left, right) ==
  IF Ascii(left) /\ Ascii(right) THEN LessByElement(left, right)
  ELSE LessByElement(Utf16(left), Utf16(right))

\* sort.Sort with objectMemberSorter, which is not stable: the arrangements of
\* the positions of keys without an inversion.
Arrangements(keys) ==
  {p \in SetToSeqs(DOMAIN keys) :
     \A i, j \in DOMAIN keys : i < j => ~StringLess(keys[p[j]], keys[p[i]])}
================================================================================
