--------------------------------- MODULE Encoder ---------------------------------
(***************************************************************************)
(* Encoder (marshal.go): options, SetIndent and SetMode decide the form,   *)
(* and Encode writes one value with one call of the writer, which may take *)
(* only a part of it, or fail with a part of it or all of it taken.        *)
(*                                                                         *)
(* A document on the stream is [mode, indent, value]; a piece of the       *)
(* stream is a document and whether all of it was taken.                   *)
(***************************************************************************)
EXTENDS GoValues

CONSTANTS
  Programs,    \* sets of Go values: a program of the model encodes those of one
  FloatRenderers,  \* the renderers of the model, of float64
  MaxLimit,    \* bound of the model: the largest MaxNestingDepth
  MaxCalls     \* bound of the model: the calls of Encode

VARIABLES
  values,   \* the values the program encodes
  opts,     \* [mode, indent, limit, renderer]
  stream,   \* the pieces the writer has taken: [document, whole]
  calls     \* the calls of Encode: [value, mode, res, normalized]

vars == <<values, opts, stream, calls>>

Mode == {"pretty", "compact", "canonical"}
Indent == {"", "tab"}

\* marshalOptions: an indent that was given is forgotten with another mode.
MarshalOptions(mode, indent, limit, renderer) ==
  [mode |-> mode,
   indent |-> IF mode # "pretty" THEN "" ELSE IF indent = "" THEN "  " ELSE indent,
   limit |-> limit, renderer |-> renderer]

SetIndent(indent) ==
  /\ opts' = [opts EXCEPT !.mode = "pretty", !.indent = IF indent = "" THEN "  " ELSE indent]
  /\ UNCHANGED <<values, stream, calls>>

SetMode(mode) ==
  /\ opts' = [opts EXCEPT !.mode = mode,
                          !.indent = IF mode = "pretty" /\ @ = "" THEN "  " ELSE @]
  /\ UNCHANGED <<values, stream, calls>>

--------------------------------------------------------------------------------
\* canonicalizeMarshaledValue: float64 for every number, checked strings.
RECURSIVE Canonicalized(_)
Canonicalized(v) ==
  CASE v.k \in {"int", "number"} -> Float(v.dec)
    [] v.k = "arr" -> Arr([i \in DOMAIN v.kids |-> Canonicalized(v.kids[i])])
    [] v.k \in {"obj", "map"} -> Obj(v.keys, [i \in DOMAIN v.kids |-> Canonicalized(v.kids[i])])
    [] OTHER -> v

Canonicalizable(v) ==
  \A part \in Parts(v) :
    /\ part.k # "nan"
    /\ part.k = "str" => CanonicalString(part.text)
    /\ part.k \in {"obj", "map"} => \A i \in DOMAIN part.keys : CanonicalString(part.keys[i])

\* Mutant: only a float64 of the top level is shown to the renderer.
ClaimsTop(v, renderer) == renderer # "none" /\ v.k \in {"float", "nan"}

\* The writers ask the renderer again, for every float64 of the normalized
\* value; what it returns now is not normalized, and an int is no value of
\* the wire: they panic.
Claims(v, renderer) == renderer # "none" /\ \E part \in Parts(v) : part.k \in {"float", "nan"}

RawPayload(renderer) ==
  CASE renderer = "text" -> Str(<<97>>) [] renderer = "list" -> Arr(<<Str(<<97>>)>>)

RECURSIVE Rendered(_, _)
Rendered(v, renderer) ==
  IF v.k \in {"float", "nan"} THEN Obj(<<RenderedKey>>, <<RawPayload(renderer)>>)
  ELSE IF Nested(v) THEN [v EXCEPT !.kids = [i \in DOMAIN v.kids |-> Rendered(v.kids[i], renderer)]]
  ELSE v

RECURSIVE Forms(_, _), FormsOf(_, _)
FormsOf(kids, canonical) ==
  IF kids = << >> THEN {<< >>}
  ELSE {<<first>> \o rest : first \in Forms(Head(kids), canonical),
                            rest \in FormsOf(Tail(kids), canonical)}

\* Mutant: only the members of maps are sorted.
FormsOfMaps(v, canonical) ==
  CASE v.k = "arr" -> {Arr(kids) : kids \in FormsOf(v.kids, canonical)}
    [] v.k = "map" -> {Obj(Pick(v.keys, p), Pick(kids, p)) :
                         p \in Arrangements(v.keys), kids \in FormsOf(v.kids, canonical)}
    [] v.k = "obj" -> {Obj(v.keys, kids) : kids \in FormsOf(v.kids, canonical)}
    [] OTHER -> {v}

\* Members as they are written: those of maps, and in canonical mode all of
\* them, sorted; the forms a sort that is not stable may leave.
Forms(v, canonical) ==
  CASE v.k = "arr" -> {Arr(kids) : kids \in FormsOf(v.kids, canonical)}
    [] v.k = "map" \/ (v.k = "obj" /\ canonical) ->
         {Obj(Pick(v.keys, p), Pick(kids, p)) :
            p \in Arrangements(v.keys), kids \in FormsOf(v.kids, canonical)}
    [] v.k = "obj" -> {Obj(v.keys, kids) : kids \in FormsOf(v.kids, canonical)}
    [] OTHER -> {v}

\* validateMarshaledDepth.
DeepIn(v, limit) == limit > 0 /\ Depth(v) > limit

\* writeMarshaledValue, as the set of its results.
Write(v, o) ==
  LET canonical == o.mode = "canonical"
      Checked(w) ==
        IF w.res # "ok" THEN w
        ELSE IF canonical /\ ~Canonicalizable(w.value) THEN Bad("error")
        ELSE LET normalized == IF canonical THEN Canonicalized(w.value) ELSE w.value
             IN  IF DeepIn(normalized, o.limit) THEN Bad("deep")
                 ELSE IF ~Claims(normalized, o.renderer) THEN Good(normalized)
                 ELSE IF o.renderer = "int" THEN Bad("panic")
                 ELSE Good(Rendered(normalized, o.renderer))
      Checks == {Checked(w) : w \in MarshalRONValue(v, o.renderer, canonical)}
  IN  {w \in Checks : w.res # "ok"}
      \cup UNION {{Good(form) : form \in Forms(w.value, canonical)} :
                    w \in {c \in Checks : c.res = "ok"}}

\* Mutant: a short write is taken for a whole one.
OutcomeOfError(whole, err) == IF err THEN "failed" ELSE "ok"

\* What Encode answers, by what the writer says it did with the document.
Outcome(whole, err) == IF err THEN "failed" ELSE IF whole THEN "ok" ELSE "short"

Encode ==
  /\ Len(calls) < MaxCalls
  /\ \E v \in values : \E w \in Write(v, opts) :
       LET indent == IF opts.mode = "pretty" THEN opts.indent ELSE ""
           document == [mode |-> opts.mode, indent |-> indent, value |-> w.value]
           Called(res) == Append(calls, [value |-> v, mode |-> opts.mode, res |-> res,
                                         normalized |-> w.value])
       IN  IF w.res # "ok" THEN calls' = Called(w.res) /\ UNCHANGED stream
           ELSE \E whole, err \in BOOLEAN :
                  /\ calls' = Called(Outcome(whole, err))
                  /\ stream' = Append(stream, [document |-> document, whole |-> whole])
  /\ UNCHANGED <<values, opts>>

Init ==
  /\ values \in Programs
  /\ \E mode \in Mode, indent \in Indent, limit \in 0..MaxLimit, renderer \in FloatRenderers :
       opts = MarshalOptions(mode, indent, limit, renderer)
  /\ stream = << >> /\ calls = << >>

\* A program that has died of its stack or of a panic calls nothing more.
Alive == \A i \in DOMAIN calls : calls[i].res \notin {"overflow", "panic"}

Next ==
  /\ Alive
  /\ \/ \E indent \in Indent : SetIndent(indent)
     \/ \E mode \in Mode : SetMode(mode)
     \/ Encode

Spec == Init /\ [][Next]_vars

--------------------------------------------------------------------------------
Written(i) == calls[i].res \in {"ok", "short", "failed"}
Canonical(i) == calls[i].mode = "canonical"

\* The fields of a struct that are members: of those with one name the last.
Members(v) ==
  LET fields == Fields(v.fields)
  IN  Pick(fields, LastOfEach([i \in DOMAIN fields |-> NameOf(fields[i])]))

\* The Go values a value is made of, its pointers followed once.
RECURSIVE GoParts(_, _)
GoParts(v, open) ==
  {v} \cup
  CASE v.k \in {"slice", "array", "map", "custom"} ->
         UNION {GoParts(v.kids[i], open) : i \in DOMAIN v.kids}
    [] v.k = "struct" -> UNION {GoParts(Fields(v.fields)[i].kid, open) : i \in DOMAIN Fields(v.fields)}
    [] v.k = "pointer" /\ v.to \notin open -> GoParts(Heap[v.to], open \cup {v.to})
    [] v.k = "marshaler" -> Parts(v.body)
    [] OTHER -> {}

\* A document is made of values of the wire, and a canonical one, the
\* normalized value of every level, has no number that is not a float64.
TypeOK ==
  /\ values \in Programs /\ opts.mode \in Mode /\ opts.limit \in 0..MaxLimit
  /\ \A i \in DOMAIN calls : \A part \in Parts(calls[i].normalized) :
       part.k \in {"null", "str", "float", "arr", "obj"}
                  \cup (IF Canonical(i) THEN {} ELSE {"int", "number", "nan"})

\* The pieces of the stream are the documents of the calls that reached the
\* writer, in their order; a call answers nil only if its document is there as a
\* whole, and says nothing of how much is if the writer failed; a value that
\* cannot be encoded leaves nothing.  Whatever the order of options and setters,
\* pretty output is indented.
StreamExact ==
  LET reached == SelectSeq(calls, LAMBDA c : c.res \in {"ok", "short", "failed"})
  IN  /\ Len(stream) = Len(reached)
      /\ \A i \in DOMAIN stream :
           /\ stream[i].document.value = reached[i].normalized
           /\ stream[i].document.mode = reached[i].mode
           /\ reached[i].res = "ok" => stream[i].whole
           /\ reached[i].res = "short" => ~stream[i].whole
           /\ stream[i].document.mode = "pretty" => stream[i].document.indent # ""

\* A NaN of another type than float64 is an error; one of float64 passes every
\* mode but canonical, as a number no parser of RON takes.
NaNOnlyFloat64 ==
  \A i \in DOMAIN calls : Written(i) =>
    LET nans == {part \in GoParts(calls[i].value, {}) : part.k = "nan"}
    IN  opts.renderer = "none" =>
          /\ Canonical(i) => nans = {}
          /\ \A nan \in nans : ~nan.named
          /\ nans # {} <=> \E part \in Parts(calls[i].normalized) : part.k = "nan"

\* Members of canonical objects ascend by the UTF-16 code units of their keys,
\* and no key is there twice in any mode.
KeysInOrder ==
  \A i \in DOMAIN calls : \A part \in Parts(calls[i].normalized) :
    part.k = "obj" =>
      \A m, n \in DOMAIN part.keys :
        m < n => /\ part.keys[m] # part.keys[n]
                 /\ Canonical(i) => LessByElement(Utf16(part.keys[m]), Utf16(part.keys[n]))

\* Two keys of a map have one text, or differ only in bytes that are no UTF-8.
Collides(v) ==
  \E part \in GoParts(v, {}) :
    part.k = "map" /\ \E i, j \in DOMAIN part.keys :
      i # j /\ Utf16(part.keys[i].text) = Utf16(part.keys[j].text)

\* The same value in the same mode is the same document, unless the keys of a
\* map collide, however the runtime orders its maps.
Deterministic ==
  \A i, j \in DOMAIN calls :
    /\ calls[i].value = calls[j].value /\ calls[i].mode = calls[j].mode
    /\ Written(i) /\ Written(j) /\ ~Collides(calls[i].value)
    => calls[i].normalized = calls[j].normalized

\* What a written document says, its numbers without their type.
RECURSIVE Says(_)
Says(v) ==
  CASE v.k \in {"int", "float", "number"} -> [k |-> "num", denotes |-> Denotes(AppendNumber(v.dec))]
    [] v.k = "arr" -> Arr([i \in DOMAIN v.kids |-> Says(v.kids[i])])
    [] v.k = "obj" -> [k |-> "object", members |-> {<<v.keys[i], Says(v.kids[i])>> : i \in DOMAIN v.keys}]
    [] OTHER -> v

\* Two canonical documents that say the same are the same, from whatever types
\* and in whatever order their values came.
CanonicalOneForm ==
  \A i, j \in DOMAIN calls :
    Written(i) /\ Written(j) /\ Canonical(i) /\ Canonical(j)
    /\ Says(calls[i].normalized) = Says(calls[j].normalized) =>
      calls[i].normalized = calls[j].normalized

Cyclic(v) == \E part \in GoParts(v, {}) :
               part.k = "pointer" /\ part \in GoParts(Heap[part.to], {})

\* The depth of a value as its Go types nest: pointers do not count.
RECURSIVE GoDepth(_)
GoDepth(v) ==
  LET Above(kids) == 1 + Max({0} \cup {GoDepth(kids[i]) : i \in DOMAIN kids})
  IN  CASE v.k \in {"slice", "map"} /\ v.isnil -> IF v.k = "map" /\ ~v.ofAny THEN 1 ELSE 0
        [] v.k \in {"slice", "array", "custom", "map"} -> Above(v.kids)
        [] v.k = "struct" -> Above([i \in DOMAIN Members(v) |-> Members(v)[i].kid])
        [] v.k = "pointer" -> GoDepth(Heap[v.to])
        [] v.k = "marshaler" -> Depth(v.body)
        [] OTHER -> 0

\* A limit is exact: what nests deeper is refused and nothing else.  Only what
\* a renderer adds while a document is written goes beyond it unseen.
DepthExact ==
  \A i \in DOMAIN calls :
    opts.limit > 0 /\ opts.renderer = "none" /\ ~Collides(calls[i].value) /\ ~Cyclic(calls[i].value) =>
      /\ calls[i].res = "deep" => GoDepth(calls[i].value) > opts.limit
      /\ Written(i) => Depth(calls[i].normalized) <= opts.limit /\ GoDepth(calls[i].value) <= opts.limit

\* Only a value that refers to itself brings the program down with its stack,
\* and it is never written: where it is an error, it is that of something else
\* in it.
OnlyCyclesOverflow ==
  \A i \in DOMAIN calls :
    /\ calls[i].res = "overflow" => Cyclic(calls[i].value)
    /\ Cyclic(calls[i].value) => ~Written(i)
    /\ Cyclic(calls[i].value) /\ calls[i].res = "error" =>
         \E part \in GoParts(calls[i].value, {}) : part.k \in {"chan", "marshaler", "textmarshaler"}

\* convert.go:82: "MaxNestingDepth limits nested RON arrays and objects during
\* decoding and Go-value encoding."  The limit is looked at when the value has
\* been normalized (marshal.go:121), where one that nests in itself never gets.
LimitEnds == \A i \in DOMAIN calls : opts.limit > 0 => calls[i].res # "overflow"

\* A renderer of float64 is shown every float64 of the document, those that a
\* named float or a canonical number has become too; one whose payload is an
\* int brings the program down there, and only there.
PanicsExplained ==
  \A i \in DOMAIN calls :
    LET Number(part) == part.k = "named float"
                        \/ (Canonical(i) /\ part.k \in {"integer", "float64", "nan", "number"})
    IN  /\ calls[i].res = "panic" =>
             opts.renderer = "int" /\ \E part \in GoParts(calls[i].value, {}) : Number(part)
        /\ Written(i) /\ opts.renderer # "none" =>
             \A part \in Parts(calls[i].normalized) : part.k \notin {"float", "nan"}

\* Canonical numbers read back as what they were, and have no exponent exactly
\* between 10^-6 and 10^21.
NumbersExact ==
  \A i \in DOMAIN calls : Canonical(i) =>
    \A part \in {p \in Parts(calls[i].normalized) : p.k = "float"} :
      LET text == AppendNumber(part.dec)
      IN  /\ Denotes(text) = IF part.dec.digits = << >> THEN [part.dec EXCEPT !.neg = FALSE] ELSE part.dec
          /\ text.exp = << >> <=> part.dec.digits = << >> \/ part.dec.point \in -5..21

\* In canonical mode a MarshalJSON passes if and only if its strings have no
\* lone surrogate and no noncharacter, however its backslashes fall.
SurrogatesExact ==
  \A i \in DOMAIN calls :
    Canonical(i) /\ calls[i].value.k = "marshaler" /\ calls[i].value.body.k = "lit" =>
      LET raw == calls[i].value.body.raw
      IN  calls[i].res = "error" <=>
            \E n \in DOMAIN raw : IsLone(raw, n) \/ (Escaped(raw, n) /\ raw[n] = "nonchar")

\* A value has one document in a mode, and what it says one canonical document.
OneDocument == Deterministic /\ CanonicalOneForm

\* Written values are of the wire, what is refused, never ends or brings the
\* program down has the causes given above and no others.
AnswersExplained ==
  TypeOK /\ NaNOnlyFloat64 /\ DepthExact /\ OnlyCyclesOverflow /\ PanicsExplained

\* Canonical documents are those of RFC 8785 in the order of their keys, the
\* layout of their numbers and the strings they refuse.
CanonicalExact == KeysInOrder /\ NumbersExact /\ SurrogatesExact
================================================================================
