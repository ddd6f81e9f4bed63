------------------------------- MODULE Vocabulary -------------------------------
(***************************************************************************)
(* Conversions with typed vocabularies: parseVocabularyValue walks a       *)
(* decoded document, replaces every typed object in place by a native      *)
(* value, and the writers turn native values into typed objects again      *)
(* (vocabulary.go, vocabulary_*.go, convert.go, canonical_ron.go).         *)
(*                                                                         *)
(* A caller may hand over a value of its own (MapJSONValues): its maps are *)
(* the ones the walk changes, and the walk visits their keys in any order. *)
(***************************************************************************)
EXTENDS RonValues, VocabularyOptions

CONSTANTS Width, Second, MaxNumber,
  Documents,   \* the documents to convert
  Timed,       \* more of them, for calls without options
  Held,        \* the values a mapper may hand over, Null for no mapper
  MaxCalls     \* bound of the model: the calls with a mapper

VARIABLES
  held,       \* the caller's value
  answers     \* the calls so far: [mode, doc, res, out]

vars == <<given, opts, held, answers>>

D == INSTANCE Duration

Ok(value, left) == [res |-> "ok", value |-> value, left |-> left]
Failed(left) == [res |-> "error", value |-> Null, left |-> left]
Panicked(left) == [res |-> "panic", value |-> Null, left |-> left]

--------------------------------------------------------------------------------
(* rongeo.Valid *)

Member(v, key) ==
  IF IsObject(v) /\ \E i \in DOMAIN v.keys : v.keys[i] = key
  THEN v.kids[CHOOSE i \in DOMAIN v.keys : v.keys[i] = key]
  ELSE Null

Has(v, key) == \E i \in DOMAIN v.keys : v.keys[i] = key

IsPosition(v) ==
  v.k = "arr" /\ Len(v.kids) \in 2..3 /\ \A i \in DOMAIN v.kids : v.kids[i].k = "num"

RECURSIVE AreNestedPositions(_, _), ValidGeo(_)
AreNestedPositions(v, depth) ==
  IF depth = 0 THEN IsPosition(v)
  ELSE v.k = "arr" /\ v.kids # << >>
       /\ \A i \in DOMAIN v.kids : AreNestedPositions(v.kids[i], depth - 1)

AllValid(v) == v.k = "arr" /\ \A i \in DOMAIN v.kids : ValidGeo(v.kids[i])

PositionDepth == [Point |-> 0, MultiPoint |-> 1, LineString |-> 1,
                  MultiLineString |-> 2, Polygon |-> 2, MultiPolygon |-> 3]

ValidGeo(v) ==
  /\ IsObject(v) /\ Member(v, "type").k = "str" /\ Len(Member(v, "type").chars) = 1
  /\ LET type == Member(v, "type").chars[1]
     IN  \/ type \in DOMAIN PositionDepth
            /\ AreNestedPositions(Member(v, "coordinates"), PositionDepth[type])
         \/ type = "GeometryCollection" /\ AllValid(Member(v, "geometries"))
         \/ type = "Feature" /\ Has(v, "properties")
            /\ (Member(v, "geometry") = Null \/ ValidGeo(Member(v, "geometry")))
         \/ type = "FeatureCollection" /\ AllValid(Member(v, "features"))

--------------------------------------------------------------------------------
(* The walk.  left is what the walk leaves where the value was. *)

Typed(v) == IsObject(v) /\ \E i \in DOMAIN v.keys : IsTag(v.keys[i])

CustomPayload(tag, payload) ==
  LET handler == Handler(tag)
  IN  CASE handler = "none" -> Ok(CustomValue(tag, payload), payload)
        [] handler = "app" -> Ok(AppValue(opts.tags[tag], tag, payload), payload)
        [] handler = "json" -> Ok(payload, payload)
        [] handler = "refuse" -> Failed(payload)

\* Mutant: a child is stored before its error is looked at.
PutUnchecked(kids, i, w) == [kids EXCEPT ![i] = w.value]

\* A parsed child takes the place of the one in the document at once.
Put(kids, i, w) == [kids EXCEPT ![i] = IF w.res = "ok" THEN w.value ELSE w.left]

\* Mutant: a native value is stored as the payload it was parsed from.
LeaveParsed(v, w) == [v EXCEPT !.kids = <<w.value>>]

\* A typed object is left alone, but its payload may have been walked.
Leave(v, w) == [v EXCEPT !.kids = <<w.left>>]

RECURSIVE Walk(_), WalkKids(_, _)

\* parseTypedPayload and the parsers behind it.
ParseTypedPayload(tag, payload) ==
  CASE tag = "#dur" ->
         {IF payload.k = "str" /\ D!ParseDuration(payload.chars).ok
          THEN Ok(DurationValue(D!ParseDuration(payload.chars).ticks), payload)
          ELSE Failed(payload)}
    [] tag = "#set" ->
         {IF payload.k # "arr" THEN Failed(payload)
          ELSE IF Comparable(payload.kids)
               THEN Ok(SetValue(CanonicalSet(payload.kids)), payload)
               ELSE Panicked(payload)}
    [] tag = "#bits" ->
         {IF payload.k = "arr" /\ IsBits(payload.kids)
          THEN Ok(BitsValue(BitsOf(payload.kids)), payload)
          ELSE Failed(payload)}
    [] tag = "#tag" ->
         IF payload.k # "arr" \/ Len(payload.kids) # 2 THEN {Failed(payload)}
         ELSE {[res |-> w.res,
                value |-> IF w.res = "ok" THEN OpaqueTag(payload.kids[1], w.value) ELSE Null,
                left |-> Arr(<<payload.kids[1], w.left>>)] : w \in Walk(payload.kids[2])}
    [] tag = "#geo" ->
         IF ~ValidGeo(payload) THEN {Failed(payload)}
         ELSE {[res |-> w.res,
                value |-> IF w.res = "ok" THEN GeoValue(w.value) ELSE Null,
                left |-> w.left] : w \in Walk(payload)}
    [] OTHER -> {CustomPayload(tag, payload)}

\* The children at the positions of todo, one after the other.
WalkKids(kids, todo) ==
  IF todo = << >> THEN {[res |-> "ok", kids |-> kids]}
  ELSE LET i == Head(todo)
       IN  UNION {IF w.res = "ok" THEN WalkKids(Put(kids, i, w), Tail(todo))
                  ELSE {[res |-> w.res, kids |-> Put(kids, i, w)]} : w \in Walk(kids[i])}

\* Arrays and ordered objects are visited in their order, maps in any.
Visits(v) ==
  IF v.k = "map" THEN SetToSeqs(DOMAIN v.kids) ELSE {[i \in DOMAIN v.kids |-> i]}

\* parseVocabularyValue, enabledTypedValue.
Walk(v) ==
  IF v.k \notin {"arr", "obj", "map"} THEN {Ok(v, v)}
  ELSE IF Typed(v)
  THEN IF Len(v.keys) # 1 THEN {Failed(v)}
       ELSE {[w EXCEPT !.left = Leave(v, w)] : w \in ParseTypedPayload(v.keys[1], v.kids[1])}
  ELSE {LET left == [v EXCEPT !.kids = w.kids]
        IN  [res |-> w.res, value |-> IF w.res = "ok" THEN left ELSE Null, left |-> left] :
          w \in UNION {WalkKids(v.kids, todo) : todo \in Visits(v)}}

--------------------------------------------------------------------------------
(* Writing. *)

Claimed(v) == Renderers(v) # << >>

FirstTag(uri) == NormalizeCustomTag(CHOOSE tag \in opts.custom[uri].tags : TRUE)

\* typedTaggedMemberWithCustom, of a native value that is claimed.
TaggedMember(v) ==
  CASE v.k = "dur" -> [tag |-> "#dur", payload |-> Str(D!RenderDuration(v.ticks))]
    [] v.k = "set" -> [tag |-> "#set", payload |-> Arr(CanonicalSet(v.kids))]
    [] v.k = "bits" -> [tag |-> "#bits", payload |-> Arr(CanonicalBitSetPayload(v.bits))]
    [] v.k = "tag" -> [tag |-> "#tag", payload |-> Arr(v.kids)]
    [] v.k = "geo" -> [tag |-> "#geo", payload |-> v.kids[1]]
    [] v.k = "custom" -> [tag |-> NormalizeCustomTag(v.tag), payload |-> v.kids[1]]
    [] v.k = "app" ->
         LET uri == Renderers(v)[1]
         IN  [tag |-> IF opts.custom[uri].render = "own" THEN v.tag ELSE FirstTag(uri),
              payload |-> v.kids[1]]

\* marshalRONValue: typed objects for native values.  A value that nobody
\* claims is a struct to it; ours have no field that is exported.
RECURSIVE Marshal(_)
Marshal(v) ==
  CASE v.k = "app" /\ ~Claimed(v) -> Obj(<< >>, << >>)
    [] ~Plain(v) /\ (v.k = "app" => Claimed(v)) ->
         LET m == TaggedMember(v) IN Obj(<<m.tag>>, <<Marshal(m.payload)>>)
    [] v.k \in {"arr", "obj", "map"} ->
         [v EXCEPT !.kids = [i \in DOMAIN v.kids |-> Marshal(v.kids[i])]]
    [] OTHER -> v

\* canonicalizeMarshaledValue, and the order in which the writers put members.
RECURSIVE Canonicalize(_)
Canonicalize(v) ==
  CASE v.k = "num" -> Num(Numbers[v.text])
    [] v.k = "arr" -> Arr([i \in DOMAIN v.kids |-> Canonicalize(v.kids[i])])
    [] IsObject(v) -> SortedObject(v, [i \in DOMAIN v.kids |-> Canonicalize(v.kids[i])])
    [] OTHER -> v

\* The writers of the other modes sort the keys of maps only.
RECURSIVE Written(_)
Written(v) ==
  CASE v.k = "arr" -> Arr([i \in DOMAIN v.kids |-> Written(v.kids[i])])
    [] v.k = "obj" -> [v EXCEPT !.kids = [i \in DOMAIN v.kids |-> Written(v.kids[i])]]
    [] v.k = "map" -> SortedObject(v, [i \in DOMAIN v.kids |-> Written(v.kids[i])])
    [] OTHER -> v

\* They panic on a value that nobody claims.
Unclaimed(v) == \E part \in Parts(v) : part.k = "app" /\ ~Claimed(part)

--------------------------------------------------------------------------------
(* The conversions, as sets of answers. *)

Answer(res, out) == [res |-> res, out |-> out]
Error == {Answer("error", Null)}

TooDeep(v) == opts.limit > 0 /\ Depth(v) > opts.limit

\* containsVocabularyMarker; only tags of a document have a # in this model.
Marked(doc) == \E part \in Parts(doc) : \E i \in DOMAIN Keys(part) :
                 SubSeq(Keys(part)[i], 1, 1) = "#"

Duplicated(doc) == \E part \in Parts(doc) : \E i, j \in DOMAIN Keys(part) :
                     i # j /\ Keys(part)[i] = Keys(part)[j]

\* decodeJSON: Set keeps the last of the members with a key, where it is.
RECURSIVE Decode(_)
Decode(doc) ==
  CASE doc.k = "arr" -> Arr([i \in DOMAIN doc.kids |-> Decode(doc.kids[i])])
    [] doc.k = "obj" ->
         LET last == {i \in DOMAIN doc.keys : \A j \in DOMAIN doc.keys :
                        doc.keys[j] = doc.keys[i] => j <= i}
             at == SetToSortSeq(last, LAMBDA i, j : i < j)
         IN  Obj([i \in DOMAIN at |-> doc.keys[at[i]]],
                 [i \in DOMAIN at |-> Decode(doc.kids[at[i]])])
    [] OTHER -> doc

\* The walk, or the value itself where there is nothing to walk for.
WalkIf(marked, v) == IF marked THEN Walk(v) ELSE {Ok(v, v)}

\* The canonical end of FromJSONInto and of ToJSONInto.
CanonicalOutput(w) ==
  LET out == Canonicalize(Marshal(w.value))
  IN  IF TooDeep(out) THEN Answer("deep", Null) ELSE Answer("ok", out)

PlainOutput(w) ==
  IF Unclaimed(w.value) THEN Answer("panic", Null)
  ELSE Answer("ok", Written(Marshal(w.value)))

\* What comes of a walk.
Output(mode, w) ==
  IF w.res # "ok" THEN Answer(w.res, Null)
  ELSE IF mode = "canonical" THEN CanonicalOutput(w) ELSE PlainOutput(w)

\* FromJSONInto of a document.
FromJSON(mode, doc) ==
  IF (mode = "canonical" /\ Duplicated(doc)) \/ ~ValidateVocabularies THEN Error
  ELSE LET value == IF mode = "canonical" THEN Canonicalize(doc) ELSE Decode(doc)
       IN  {Output(mode, w) : w \in WalkIf(Marked(doc), value)}

\* ToJSONInto: canonical output is what the rewritten document says, the other
\* modes only look whether the document can be walked.
ToJSON(mode, doc) ==
  IF mode = "canonical" /\ Duplicated(doc) THEN Error
  ELSE IF mode = "canonical" /\ TooDeep(doc) THEN {Answer("deep", Null)}
  ELSE IF ~ValidateVocabularies THEN Error
  ELSE IF TooDeep(doc) THEN {Answer("deep", Null)}
  ELSE IF mode = "canonical"
  THEN {Output(mode, w) : w \in WalkIf(Marked(doc), Canonicalize(doc))}
  ELSE {IF w.res = "ok" THEN Answer("ok", Decode(doc)) ELSE Answer(w.res, Null) :
          w \in WalkIf(Marked(doc), Decode(doc))}

--------------------------------------------------------------------------------
Init == OptionsInit /\ answers = << >> /\ held \in Held

Option == answers = << >> /\ GiveOption /\ UNCHANGED <<held, answers>>

Call(name, mode, doc, a) == [call |-> name, mode |-> mode, doc |-> doc, res |-> a.res, out |-> a.out]

Convert ==
  /\ answers = << >> /\ held = Null
  /\ \E mode \in {"plain", "canonical"},
        doc \in Documents \cup (IF given = << >> THEN Timed ELSE {}) :
       \/ \E a \in FromJSON(mode, doc) : answers' = <<Call("FromJSON", mode, doc, a)>>
       \/ \E a \in ToJSON(mode, doc) : answers' = <<Call("ToJSON", mode, doc, a)>>
  /\ UNCHANGED <<given, opts, held>>

\* FromJSONInto with a mapper whose last word, on the root, is held.
ConvertMapped ==
  /\ held # Null
  /\ \A i \in DOMAIN answers : answers[i].call = "mapped"
  /\ Len(answers) < MaxCalls
  /\ \E mode \in {"plain", "canonical"} :
       IF ~ValidateVocabularies
       THEN /\ answers' = Append(answers, Call("mapped", mode, Null, Answer("error", Null)))
            /\ UNCHANGED held
       ELSE \E w \in Walk(held) :
              /\ answers' = Append(answers, Call("mapped", mode, Null, Output(mode, w)))
              /\ held' = w.left
  /\ UNCHANGED <<given, opts>>

Next == Option \/ Convert \/ ConvertMapped

Spec == Init /\ [][Next]_vars

--------------------------------------------------------------------------------
(* What a document means, read without a walk. *)

RECURSIVE Structure(_)
Structure(v) ==
  CASE v.k = "num" -> Num(Numbers[v.text])
    [] v.k = "arr" -> Arr([i \in DOMAIN v.kids |-> Structure(v.kids[i])])
    [] IsObject(v) ->
         [k |-> "object", members |-> {<<v.keys[i], Structure(v.kids[i])>> : i \in DOMAIN v.keys}]
    [] OTHER -> v

RECURSIVE Means(_)
Means(v) ==
  LET tag == v.keys[1]
      payload == v.kids[1]
  IN  IF v.k = "arr" THEN Arr([i \in DOMAIN v.kids |-> Means(v.kids[i])])
      ELSE IF ~IsObject(v) THEN Structure(v)
      ELSE IF ~Typed(v) \/ Len(v.keys) # 1
      THEN [k |-> "object", members |-> {<<v.keys[i], Means(v.kids[i])>> : i \in DOMAIN v.keys}]
      ELSE CASE tag = "#dur" /\ payload.k = "str" /\ D!ParseDuration(payload.chars).ok ->
                  [k |-> "duration", size |-> D!Says(payload.chars)]
             [] tag = "#set" /\ payload.k = "arr" ->
                  [k |-> "elements", elements |-> {Structure(payload.kids[i]) : i \in DOMAIN payload.kids}]
             [] tag = "#bits" /\ payload.k = "arr" /\ IsBits(payload.kids) ->
                  [k |-> "indices", indices |-> BitsOf(payload.kids)]
             [] tag = "#tag" /\ payload.k = "arr" /\ Len(payload.kids) = 2 ->
                  [k |-> "opaque", name |-> Structure(payload.kids[1]), value |-> Means(payload.kids[2])]
             [] tag = "#geo" -> [k |-> "geojson", data |-> Means(payload)]
             [] OTHER -> [k |-> "typed", tag |-> tag, data |-> Structure(payload)]

\* The durations of a document that has none of another width.
Durations(v) == {part.kids[1].chars : part \in
                   {p \in Parts(v) : IsObject(p) /\ p.keys = <<"#dur">> /\ p.kids[1].k = "str"}}
InRange(v) == \A text \in Durations(v) :
                D!ParseDuration(text).ok => D!Says(text) \in (D!Least + 1)..D!Most

\* Every custom tag keeps its payload and gets its name back.
Restored ==
  \A tag \in DOMAIN opts.tags \ BuiltInTags :
    \/ Handler(tag) = "none"
    \/ /\ Handler(tag) = "app"
       /\ Claimed(AppValue(opts.tags[tag], tag, Null))
       /\ TaggedMember(AppValue(opts.tags[tag], tag, Null)).tag = tag

\* What a text says, its numbers read as float64.
Said(doc) == Means(Canonicalize(Decode(doc)))

--------------------------------------------------------------------------------
\* Every answer has one of the outcomes and a value that can be written.
TypeOK ==
  /\ DOMAIN opts.tags \subseteq UNION {Names(v) : v \in Vocabularies}
  /\ \A i \in DOMAIN answers :
       /\ answers[i].res \in {"ok", "error", "panic", "deep"}
       /\ \A part \in Parts(answers[i].out) : part.k \in {"null", "str", "num", "arr", "obj"}

\* A conversion keeps what the document says: durations that fit their width,
\* sets and bit sets as sets, and custom payloads, if what Parse makes of them
\* finds its way back to their tag.
SameMeaning ==
  \A i \in DOMAIN answers :
    answers[i].call # "mapped" /\ answers[i].res = "ok" /\ InRange(answers[i].doc) /\ Restored =>
      Said(answers[i].out) = Said(answers[i].doc)

\* Two documents that say the same have the same canonical form, however they
\* spell it (vocabulary_set.go, canonical_ron.go).
OneForm ==
  \A i \in DOMAIN answers :
    answers[i].call = "FromJSON" /\ answers[i].mode = "canonical" /\ InRange(answers[i].doc) =>
      \A other \in Documents :
        ~Duplicated(other) /\ ~Duplicated(answers[i].doc) /\ InRange(other)
        /\ Said(other) = Said(answers[i].doc) =>
          FromJSON("canonical", other) = {Answer(answers[i].res, answers[i].out)}

\* The canonical form of a canonical form is itself, under the same limit too.
Stable ==
  \A i \in DOMAIN answers :
    /\ answers[i].call # "mapped" /\ answers[i].res = "ok" /\ answers[i].mode = "canonical"
    /\ InRange(answers[i].doc) /\ Restored
    => /\ FromJSON("canonical", answers[i].out) = {Answer("ok", answers[i].out)}
       /\ ToJSON("canonical", answers[i].out) = {Answer("ok", answers[i].out)}

\* Of what the conversions rewrite only a bit set nests deeper than before, by
\* its pairs: nothing else within the limit is reported as too deep.
DeepenedByBits ==
  \A i \in DOMAIN answers :
    answers[i].call # "mapped" /\ answers[i].res = "deep" /\ Depth(answers[i].doc) <= opts.limit =>
      \E part \in Parts(answers[i].doc) :
        /\ Keys(part) = <<"#bits">> /\ part.kids[1].k = "arr"
        /\ Depth(part.kids[1]) = 1

\* A document makes no conversion panic unless Parse has made a value that no
\* renderer claims; a mapper does by a native value inside a #set.
PanicsExplained ==
  \A i \in DOMAIN answers :
    answers[i].res = "panic" =>
      \/ answers[i].mode = "plain" /\ ~Restored
      \/ answers[i].mode = "plain" /\ Unclaimed(held)
      \/ answers[i].call = "mapped"
         /\ \E part \in Parts(held) : IsObject(part) /\ "#set" \in ToSet(part.keys)
              /\ \E inner \in Parts(part) : ~Plain(inner)

\* The walk changes the caller's value even when it fails half-way, and never
\* what it says.
HeldSame ==
  [][Restored /\ InRange(held) => Means(Canonicalize(Marshal(held'))) = Means(Canonicalize(Marshal(held)))]_vars

\* A second call with a value that an earlier one has already changed is
\* answered as the first was.
RetrySame ==
  \A i, j \in DOMAIN answers :
    answers[i].call = "mapped" /\ answers[j].call = "mapped"
    /\ answers[i].mode = answers[j].mode /\ Restored =>
      answers[i].res = answers[j].res /\ answers[i].out = answers[j].out

\* Documents that say the same have one canonical form, which stays as it is.
CanonicalForm == OneForm /\ Stable

\* Every answer is of a kind there is, every panic has the cause given above,
\* and only bit sets get too deep by what a conversion rewrites.
AnswersExplained == TypeOK /\ PanicsExplained /\ DeepenedByBits
================================================================================
