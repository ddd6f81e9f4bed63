------------------------------- MODULE RonValues --------------------------------
(***************************************************************************)
(* The values a conversion works on: what JSON and RON can say, maps that  *)
(* belong to the caller, and the native values of the typed vocabularies.  *)
(* Strings are sequences of characters, numbers are spellings.  Of the     *)
(* native values sets and bit sets have a canonical payload.               *)
(***************************************************************************)
EXTENDS Integers, SequencesExt, FiniteSetsExt

CONSTANTS
  Numbers,    \* [spelling -> the shortest spelling of its float64]
  Indices,    \* [spelling -> Nat], of the spellings that are plain indices
  Ascending   \* characters, keys and spellings in the order of their bytes

Null == [k |-> "null"]
Str(chars) == [k |-> "str", chars |-> chars]
Num(text) == [k |-> "num", text |-> text]
Arr(kids) == [k |-> "arr", kids |-> kids]
Obj(keys, kids) == [k |-> "obj", keys |-> keys, kids |-> kids]   \* orderedObject
Map(keys, kids) == [k |-> "map", keys |-> keys, kids |-> kids]   \* map[string]any

DurationValue(ticks) == [k |-> "dur", ticks |-> ticks]
SetValue(elements) == [k |-> "set", kids |-> elements]
BitsValue(bits) == [k |-> "bits", bits |-> bits]
OpaqueTag(tag, payload) == [k |-> "tag", kids |-> <<tag, payload>>]
GeoValue(data) == [k |-> "geo", kids |-> <<data>>]
CustomValue(tag, payload) == [k |-> "custom", tag |-> tag, kids |-> <<payload>>]

\* A value of the application's own, which only a renderer knows.
AppValue(uri, tag, payload) ==
  [k |-> "app", uri |-> uri, tag |-> tag, kids |-> <<payload>>]

Kids(v) == IF v.k \in {"arr", "obj", "map", "set", "tag", "geo", "custom", "app"}
           THEN v.kids ELSE << >>
Keys(v) == IF v.k \in {"obj", "map"} THEN v.keys ELSE << >>
IsObject(v) == v.k \in {"obj", "map"}

\* All parts of a value, itself included.
RECURSIVE Parts(_)
Parts(v) == {v} \cup UNION {Parts(Kids(v)[i]) : i \in DOMAIN Kids(v)}

RECURSIVE Depth(_)
Depth(v) ==
  IF v.k \in {"arr", "obj", "map"}
  THEN 1 + Max({0} \cup {Depth(v.kids[i]) : i \in DOMAIN v.kids})
  ELSE 0

Plain(v) == v.k \in {"null", "str", "num", "arr", "obj", "map"}

Rank(t) == CHOOSE i \in DOMAIN Ascending : Ascending[i] = t

\* The text of a sequence before another one, in the order of bytes.
TextLess(a, b) ==
  \E n \in 0..Len(a) :
    /\ n < Len(b)
    /\ \A i \in 1..n : a[i] = b[i]
    /\ n = Len(a) \/ Rank(a[n + 1]) < Rank(b[n + 1])

\* objectMembers with canonical: the positions of v's members by their keys.
ByKey(v) == SortSeq([i \in DOMAIN v.keys |-> i],
                    LAMBDA i, j : Rank(v.keys[i]) < Rank(v.keys[j]))

SortedObject(v, kids) ==
  LET p == ByKey(v)
  IN  Obj([i \in DOMAIN p |-> v.keys[p[i]]], [i \in DOMAIN p |-> kids[p[i]]])

--------------------------------------------------------------------------------
\* The payloads of #set and #bits (vocabulary_set.go).  The elements of a set
\* are compared by the bytes of their canonical JSON.

\* canonicalSetKey and writeSetCanonicalJSON, as the characters they write.
RECURSIVE SetKey(_)
SetKey(v) ==
  LET Between(s) == IF s = << >> THEN s ELSE Tail(FlattenSeq([i \in DOMAIN s |-> <<",">> \o s[i]]))
  IN  CASE v.k = "null" -> <<"null">>
        [] v.k = "str" -> <<"\"">> \o v.chars \o <<"\"">>
        [] v.k = "num" -> <<Numbers[v.text]>>
        [] v.k = "arr" ->
             <<"[">> \o Between([i \in DOMAIN v.kids |-> SetKey(v.kids[i])]) \o <<"]">>
        [] IsObject(v) ->
             LET p == ByKey(v)
             IN  <<"{">> \o Between([i \in DOMAIN p |->
                     <<"\"", v.keys[p[i]], "\"", ":">> \o SetKey(v.kids[p[i]])]) \o <<"}">>

\* Mutant: null is not written as canonical JSON.
ComparableButNull(values) ==
  \A i \in DOMAIN values : \A part \in Parts(values[i]) : Plain(part) /\ part # Null

\* Nothing writes a native value as canonical JSON: the code panics.
Comparable(values) ==
  \A i \in DOMAIN values : \A part \in Parts(values[i]) : Plain(part)

\* canonicalSetValue.
RECURSIVE CanonicalSetValue(_)
CanonicalSetValue(v) ==
  CASE v.k = "arr" -> Arr([i \in DOMAIN v.kids |-> CanonicalSetValue(v.kids[i])])
    [] IsObject(v) -> SortedObject(v, [i \in DOMAIN v.kids |-> CanonicalSetValue(v.kids[i])])
    [] OTHER -> v

\* Mutant: the elements stay in the order of the payload.
InPayloadOrder(values) ==
  LET fresh == {i \in DOMAIN values : \A j \in 1..(i - 1) : SetKey(values[j]) # SetKey(values[i])}
      at == SetToSortSeq(fresh, LAMBDA i, j : i < j)
  IN  [i \in DOMAIN at |-> CanonicalSetValue(values[at[i]])]

\* canonicalSet: the first element of every key, in the order of the keys.
CanonicalSet(values) ==
  LET fresh == {i \in DOMAIN values : \A j \in 1..(i - 1) : SetKey(values[j]) # SetKey(values[i])}
      at == SetToSortSeq(fresh, LAMBDA i, j : TextLess(SetKey(values[i]), SetKey(values[j])))
  IN  [i \in DOMAIN at |-> CanonicalSetValue(values[at[i]])]

--------------------------------------------------------------------------------
IsEndpoint(v) == v.k = "num" /\ v.text \in DOMAIN Indices   \* parseBitSetEndpoint

IsRange(v) ==
  /\ v.k = "arr" /\ Len(v.kids) = 2
  /\ IsEndpoint(v.kids[1]) /\ IsEndpoint(v.kids[2])
  /\ Indices[v.kids[1].text] <= Indices[v.kids[2].text]

\* parseBitSet accepts indices and pairs that do not descend.
IsBits(values) == \A i \in DOMAIN values : IsEndpoint(values[i]) \/ IsRange(values[i])

BitsOf(values) ==
  UNION {IF values[i].k = "arr"
         THEN Indices[values[i].kids[1].text]..Indices[values[i].kids[2].text]
         ELSE {Indices[values[i].text]} : i \in DOMAIN values}

IndexText(n) == Num(CHOOSE t \in DOMAIN Indices : Indices[t] = n)

\* canonicalBitSetPayload of the ranges canonicalBitSet leaves: the longest
\* runs, ascending (module BitSet has the merge itself).
CanonicalBitSetPayload(bits) ==
  LET first == SetToSortSeq({b \in bits : b - 1 \notin bits}, LAMBDA i, j : i < j)
      last == SetToSortSeq({b \in bits : b + 1 \notin bits}, LAMBDA i, j : i < j)
  IN  [i \in DOMAIN first |->
         IF first[i] = last[i] THEN IndexText(first[i])
         ELSE Arr(<<IndexText(first[i]), IndexText(last[i])>>)]
================================================================================
