-------------------------------- MODULE GoValues --------------------------------
(***************************************************************************)
(* marshalRONValue (marshal.go): any Go value becomes a value of the wire, *)
(* one of null, numbers, strings, arrays, maps and ordered objects.        *)
(*                                                                         *)
(* A Go value is a tree; a pointer names a place of Heap, so that values   *)
(* may refer to themselves.  A struct field has name, ron and json (its    *)
(* tags split at the commas, << >> for none), exported and kid.  A map key *)
(* has text and kind; ofAny marks a map[string]any, whose nil is null and  *)
(* not an empty object as that of the other maps; named marks a float that *)
(* is no float64, whose NaN is an error.                                   *)
(***************************************************************************)
EXTENDS CanonicalJson, KeyOrder

CONSTANT Heap   \* what the pointers of the model point to

\* The values of the wire.
Null == [k |-> "null"]
Str(text) == [k |-> "str", text |-> text]
Integer(dec) == [k |-> "int", dec |-> dec]       \* int64, uint64
Float(dec) == [k |-> "float", dec |-> dec]       \* float64
JsonNumber(dec) == [k |-> "number", dec |-> dec] \* json.Number
NaN == [k |-> "nan"]
Arr(kids) == [k |-> "arr", kids |-> kids]
Obj(keys, kids) == [k |-> "obj", keys |-> keys, kids |-> kids]   \* orderedObject
Map(keys, kids) == [k |-> "map", keys |-> keys, kids |-> kids]   \* map[string]any

Nested(v) == v.k \in {"arr", "obj", "map"}

RECURSIVE Depth(_)
Depth(v) ==
  IF Nested(v) THEN 1 + Max({0} \cup {Depth(v.kids[i]) : i \in DOMAIN v.kids}) ELSE 0

RECURSIVE Parts(_)
Parts(v) == {v} \cup (IF Nested(v) THEN UNION {Parts(v.kids[i]) : i \in DOMAIN v.kids} ELSE {})

\* The positions of the last of each key, in the order of orderedObject.Set.
LastOfEach(keys) ==
  SetToSortSeq({i \in DOMAIN keys : \A j \in DOMAIN keys : keys[j] = keys[i] => j <= i},
               LAMBDA i, j : i < j)

Pick(seq, at) == [i \in DOMAIN at |-> seq[at[i]]]

--------------------------------------------------------------------------------
(* MarshalJSON: the JSON it returns. *)

RECURSIVE Decode(_), Literals(_), DuplicateKeys(_)
Decode(body) ==
  CASE body.k = "lit" -> Str(Unescape(body.raw))
    [] body.k = "arr" -> Arr([i \in DOMAIN body.kids |-> Decode(body.kids[i])])
    [] body.k = "obj" ->
         LET keys == [i \in DOMAIN body.keys |-> Unescape(body.keys[i])]
             at == LastOfEach(keys)
         IN  Obj(Pick(keys, at), [i \in DOMAIN at |-> Decode(body.kids[at[i]])])
    [] OTHER -> body

Literals(body) ==
  CASE body.k = "lit" -> {body.raw}
    [] Nested(body) -> UNION {Literals(body.kids[i]) : i \in DOMAIN body.kids}
                       \cup (IF body.k = "obj" THEN ToSet(body.keys) ELSE {})
    [] OTHER -> {}

DuplicateKeys(body) ==
  Nested(body) /\ \/ \E i \in DOMAIN body.kids : DuplicateKeys(body.kids[i])
                  \/ body.k = "obj" /\ \E i, j \in DOMAIN body.keys :
                       i # j /\ Unescape(body.keys[i]) = Unescape(body.keys[j])

\* canonicalJSON and decodeRFC8785Value accept the body.
IJson(body) ==
  /\ \A raw \in Literals(body) : ~LoneFrom(raw, 1) /\ CanonicalString(Unescape(raw))
  /\ ~DuplicateKeys(body)

RECURSIVE SortedBody(_)
SortedBody(v) ==
  IF v.k # "obj" THEN IF v.k = "arr" THEN Arr([i \in DOMAIN v.kids |-> SortedBody(v.kids[i])]) ELSE v
  ELSE LET at == CHOOSE p \in Arrangements(v.keys) : TRUE
       IN  Obj(Pick(v.keys, at), [i \in DOMAIN at |-> SortedBody(v.kids[at[i]])])

--------------------------------------------------------------------------------
(* Structs. *)

Dash == 45

\* The ron tag counts before the json tag.
TagOf(field) == IF field.ron # << >> THEN field.ron ELSE field.json

Skipped(field) == ~field.exported \/ TagOf(field) = << <<Dash>> >>

NameOf(field) ==
  IF TagOf(field) = << >> \/ TagOf(field)[1] = << >> THEN field.name ELSE TagOf(field)[1]

OmitEmpty(field) == \E i \in 2..Len(TagOf(field)) : TagOf(field)[i] = "omitempty"

\* isEmptyMarshalValue: zero numbers, empty strings and containers, nil.
IsEmpty(v) ==
  \/ v.k \in {"integer", "float64", "named float"} /\ v.dec.digits = << >>
  \/ v.k = "string" /\ v.text = << >>
  \/ v.k \in {"slice", "array", "map"} /\ v.kids = << >>
  \/ v.k = "bytes" /\ v.text = << >>
  \/ v.k \in {"nil", "nilptr"}

\* marshalFieldName, and the fields that are left.
Fields(fields) ==
  SelectSeq(fields, LAMBDA f : ~Skipped(f) /\ ~(OmitEmpty(f) /\ IsEmpty(f.kid)))

--------------------------------------------------------------------------------
(* marshalRONValue, as the set of its results: maps are visited in any      *)
(* order.  open are the pointers being followed.  Nothing in the code knows *)
(* them: a pointer that is followed again is followed for ever, and the     *)
(* program dies of its stack ("overflow").                                  *)

Good(value) == [res |-> "ok", value |-> value]
Bad(res) == [res |-> res, value |-> Null]

\* The option of the model: a renderer that claims float64 values, and what
\* its payload is: "none" for no renderer, a string, an int or a list.
Payload(renderer) ==
  CASE renderer = "text" -> [k |-> "string", text |-> <<97>>]
    [] renderer = "int" -> [k |-> "integer", dec |-> [neg |-> FALSE, digits |-> <<1>>, point |-> 1]]
    [] renderer = "list" -> [k |-> "slice", isnil |-> FALSE,
                             kids |-> <<[k |-> "string", text |-> <<97>>]>>]

RenderedKey == <<35, 97>>

\* A pointer is followed though it is being followed: the stack ends.
Endless == Bad("overflow")

RECURSIVE MarshalIn(_, _, _, _), MarshalAll(_, _, _, _)

\* The results of a sequence of values: the first that fails ends it.
MarshalAll(values, open, renderer, canonical) ==
  IF values = << >> THEN {[res |-> "ok", kids |-> << >>]}
  ELSE UNION {IF first.res # "ok" THEN {[res |-> first.res, kids |-> << >>]}
              ELSE {[res |-> rest.res, kids |-> <<first.value>> \o rest.kids] :
                      rest \in MarshalAll(Tail(values), open, renderer, canonical)} :
                first \in MarshalIn(Head(values), open, renderer, canonical)}

\* What has no form on the wire.
Chan == [k |-> "chan"]

\* marshalMapValue: of keys with the same text the one visited last stays; a
\* key that is no text fails when it is visited, as a value that has no form.
MarshalMap(v, open, renderer, canonical) ==
  UNION {LET keys == [i \in DOMAIN p |-> v.keys[p[i]].text]
             stays == LastOfEach(keys)
             kids == [i \in DOMAIN p |-> IF v.keys[p[i]].kind = "other" THEN Chan ELSE v.kids[p[i]]]
         IN  {IF w.res # "ok" THEN Bad(w.res)
              ELSE Good(Map(Pick(keys, stays), Pick(w.kids, stays))) :
                w \in MarshalAll(kids, open, renderer, canonical)} :
           p \in SetToSeqs(DOMAIN v.keys)}

MarshalIn(v, open, renderer, canonical) ==
  LET One(w, key) == IF w.res = "ok" THEN Good(Obj(<<key>>, <<w.value>>)) ELSE w
      AsArray(w) == IF w.res = "ok" THEN Good(Arr(w.kids)) ELSE Bad(w.res)
  IN  CASE (v.k = "float64" \/ (v.k = "nan" /\ ~v.named)) /\ renderer # "none" ->
             {One(w, RenderedKey) : w \in MarshalIn(Payload(renderer), open, renderer, canonical)}
        [] v.k = "custom" ->                        \* a typed value of a vocabulary
             {One(w, v.tag) : w \in MarshalIn(v.kids[1], open, renderer, canonical)}
        [] v.k \in {"nil", "nilptr"} -> {Good(Null)}
        [] v.k = "marshaler" ->
             IF v.fails \/ (canonical /\ ~IJson(v.body)) THEN {Bad("error")}
             ELSE {Good(IF canonical THEN SortedBody(Decode(v.body)) ELSE Decode(v.body))}
        [] v.k = "textmarshaler" -> {IF v.fails THEN Bad("error") ELSE Good(Str(v.text))}
        [] v.k = "integer" -> {Good(Integer(v.dec))}
        [] v.k \in {"float64", "named float"} -> {Good(Float(v.dec))}
        [] v.k = "nan" -> {IF v.named THEN Bad("error") ELSE Good(NaN)}
        [] v.k = "string" -> {Good(Str(v.text))}
        [] v.k = "bytes" -> {IF v.isnil THEN Good(Null) ELSE Good(Str(v.text))}
        [] v.k \in {"slice", "array"} ->
             IF v.k # "array" /\ v.isnil THEN {Good(Null)}
             ELSE {AsArray(w) : w \in MarshalAll(v.kids, open, renderer, canonical)}
        [] v.k = "map" ->
             IF v.isnil THEN {Good(IF v.ofAny THEN Null ELSE Map(<< >>, << >>))}
             ELSE MarshalMap(v, open, renderer, canonical)
        [] v.k = "struct" ->
             LET fields == Fields(v.fields)
                 keys == [i \in DOMAIN fields |-> NameOf(fields[i])]
                 stays == LastOfEach(keys)
             IN  {IF w.res # "ok" THEN Bad(w.res)
                  ELSE Good(Obj(Pick(keys, stays), Pick(w.kids, stays))) :
                    w \in MarshalAll([i \in DOMAIN fields |-> fields[i].kid], open, renderer, canonical)}
        [] v.k = "pointer" ->
             IF v.to \in open THEN {Endless}
             ELSE MarshalIn(Heap[v.to], open \cup {v.to}, renderer, canonical)
        [] v.k = "chan" -> {Bad("error")}

MarshalRONValue(v, renderer, canonical) == MarshalIn(v, {}, renderer, canonical)
================================================================================
