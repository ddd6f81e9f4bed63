# A verification of ron-go

ron-go converts between JSON, Go values and RON, a JSON-equivalent notation in
which strings may stand without quotes and the braces of the outermost object
may be left out. This directory holds TLA+ models of the parts of it whose
correctness is hard to see and hard to test, the TLC configurations that check
them on small instances, and TLAPS proofs, for all sizes, of what matters most
about six of them. Every model is translated from the Go source; `PROJECT.json` names the
lines each definition stands for.

## 1. The system

| Part | Source | State it keeps | Operations |
| --- | --- | --- | --- |
| RON parsers | `parse.go`, `canonical_ron.go` | `parser`: position, nesting depth, depth limit | `parseWithMaxDepth`, `canonicalRONToJSON` |
| Direct writer RON -> JSON | `convert.go`, `json_direct.go` | the parser's, the caller's buffer, a stack of scratch buffers and of member tables | `ToJSONInto`, `writeJSONValueCurrent` |
| Member tables | `json_direct.go`, `render.go` | members, a map to positions built late, the mark `NeedsSort` | `jsonMembers.Set`, `orderedObject.Set` |
| Scratch pool | `json_direct.go`, `convert.go` | a `sync.Pool` of slices of buffers, shared by all goroutines | `Get`, `nextJSONScratch`, `releaseJSONScratch`, the deferred `Put` |
| JSON -> RON | `convert.go`, `render.go` | an `orderedObject` per object read | `FromJSONInto`, the renderers |
| Canonical JSON | `rfc8785.go` | none | key order, numbers, strings |
| Go values | `marshal.go` | none, but the values may refer to themselves | `marshalRONValue`, `canonicalizeMarshaledValue`, `validateMarshaledDepth` |
| Encoder | `marshal.go` | writer, mode and indent, which options and setters share | `NewEncoder`, `Encode`, `SetMode`, `SetIndent` |
| Vocabularies | `vocabulary*.go` | a call's options: enabled vocabularies, custom vocabularies and their tags; the tree, rewritten in place | the options, `parseVocabularyValue`, one conversion per tag and the way back |
| Quadtree | `components/math/quadtree.go` | the bound and the nodes | `Add`, `Remove`, `Find`, `KNearest`, `InBound` and their `Matching` forms |
| Curves | `components/math/curve_*.go` | lengths summed once and kept, of curves the program may change | `Add`, `ClosePath`, `Lengths`, `Point`, `Copy`, `UpdateArcLengths` |
| Geodesy | `components/geo/geo.go` | none | areas, lengths, containment, bounds |
| Geometry | the rest of `components/math` | none | formulas |

How they interact. `ToJSONInto` takes a scratch state from the pool, and the
direct writer reads the source and writes JSON in one pass. Each open object
collects its member values in a scratch buffer and its members in a member
table, and is written out when it closes. `Canonical` mode goes another way: the
canonical parser builds a tree of `orderedObject`s, which `rfc8785.go` writes.
If the text holds a vocabulary marker the generic parser reads it first and the
vocabularies walk the tree and put native values into it; the writers turn them
into typed objects again. `FromJSONInto` decodes JSON into `orderedObject`s,
may let a mapper of the caller replace values, walks the tree and renders it.
`Encode` normalises a Go value into the same kind of tree and writes it with one
`Write`. So one grammar is read by three hand-written readers, one table
algorithm exists in two variants, and the only state shared between goroutines
is the pool (and any quadtree or curve a program shares).

What is hard here:

* the object without braces is tried first and undone if it fails: output,
  position, nesting and scratch must all be as before;
* the member tables look for duplicates only when they must, by two methods, at
  moments that differ from one table to the other;
* open objects hold pointers into a slice that the objects inside them make
  grow, and the slices travel between goroutines through the pool;
* the vocabularies rewrite a tree while they walk it, and the tree may be the
  caller's: an error half-way leaves it rewritten in part;
* options may come in any order and may register a tag twice;
* renderers are asked when a value is normalised and again when it is written;
* a Go map is visited in any order and may have two keys with one text;
* a quadtree search leaves out boxes by a bound it narrows as it goes, in a tree
  whose removals have moved values away from the nodes they were put in;
* canonical forms must be the same for equal values, up to the largest bit, the
  largest duration and the last UTF-16 code unit.

`PROJECT.json` lists every hazard at its line, with the properties that guard
it, and the components that are not modelled, with the reason.

## 2. The modules

| Module | Models | Uses |
| --- | --- | --- |
| `MemberTables` | what both member tables are made of: removal, renumbering, the late map | |
| `MemberMap` | the object they promise: the last write of a key wins and takes the last place | |
| `JsonMembers` | `jsonMembers` with the spans in the scratch buffer | `MemberTables`, refines `MemberMap` |
| `OrderedObject` | `orderedObject` | `MemberTables`, refines `MemberMap` |
| `ObjectTables` | both tables: the direct writer's, and that of the JSON readers and the marshaler, each filled by calls of its own | `JsonMembers` and `OrderedObject` |
| `RonLexemes` | what all readers share: words, brackets, separators, the depth limit | |
| `RonGrammar` | the meaning of a text for the generic and the canonical parser | `RonLexemes` |
| `DirectWriter` | `toJSONIntoState` and `writeJSONValueCurrent` step by step | `RonLexemes` |
| `TextMeaning` | the meaning of a text by rules, and JSON by its grammar; what the proofs about the writer compare it with | `DirectWriter` |
| `CanonicalReader` | `canonicalRONToJSON` | `RonGrammar` |
| `ToJSON` | `ToJSONInto`, which chooses between the two by the mode, and what the two are compared with | composes `DirectWriter` and `CanonicalReader`, `RonGrammar` |
| `Conversions` | one call of `ToJSONInto` or of `FromJSON` | `ToJSON` or `RonText` |
| `RonStrings` | how strings are written (`renderString`) and scanned, character by character | |
| `RonText` | `FromJSON` in compact and pretty mode, and `parse` of its text | `RonStrings` |
| `ScratchPool` | the memory of the scratch buffers, and the pool | |
| `KeyOrder` | the order of keys by UTF-16 code units, with its short cut for ASCII | |
| `CanonicalJson` | the layout of a `float64`; lone surrogates, duplicate keys and strings of JSON the code takes in | |
| `GoValues` | `marshalRONValue`: scalars, maps, struct tags, marshalers, pointers | `CanonicalJson`, `KeyOrder` |
| `Encoder` | the options and setters, the writer, and all that happens to a value on its way | `GoValues` |
| `RonValues` | the values of a conversion: what a text says, maps of the caller, native values; `#set` and `#bits` payloads and their canonical forms | |
| `BitSet` | `parseBitSet` and the merge of `canonicalBitSet`, step by step | |
| `Duration` | `#dur`, parsed into and written from an integer that wraps | |
| `VocabularyOptions` | the options about vocabularies, in any order | |
| `Vocabulary` | the walk, the way back, `FromJSONInto`, `ToJSONInto`, a mapper's value | `RonValues`, `VocabularyOptions`, `Duration` |
| `Marshaling` | a program that converts documents or has an `Encoder` | `Vocabulary` or `Encoder` |
| `Quadtree` | the tree, `Add`, `removeNode` | |
| `MaxHeap` | `maxHeap` | |
| `QuadtreeSearch` | all operations of the quadtree, one `visit.Visit` a step | `Quadtree`, `MaxHeap`, refines `Quadtree` |
| `Geo` | areas, lengths, containment and bounds of geometries | |
| `CurvePath` | a path of line curves and the lengths it keeps | `Geo` |
| `Polyline` | a program that draws an outline as a path and as a geometry | composes `CurvePath` and `Geo` |
| `Components` | a program that uses a quadtree or draws outlines | `QuadtreeSearch` or `Polyline` |
| `MemberTableProofs` | lemmas about both member tables | `MemberTables` |
| `OrderedObjectProofs` | proofs about `orderedObject` | `OrderedObject`, `MemberTableProofs` |
| `ObjectTablesProofs` | proofs about the direct writer's table, and those about `orderedObject` carried over to `ObjectTables` | `ObjectTables`, both of the above |
| `DirectWriterProofs` | proofs about the direct writer and about the order of keys | `TextMeaning`, `KeyOrder` |
| `ScratchPoolProofs`, `BitSetProofs`, `VocabularyOptionsProofs` | proofs about the module of that name | the module |
| `QuadtreeProofs` | proofs about the tree, the heap and the searches | `QuadtreeSearch` |
| `MC...` | values for TLC | |

Correspondence with the code:

* **Member tables.** `members`, `index`, `needsSort` are the fields; positions
  start at 1 and 0 means that the map lacks the key; `indexed` is `Index # nil`.
  `Set` has one disjunct per branch: no search, map, scan. The key order is a
  constant relation that need be no more than irreflexive and transitive: keys
  that hold different invalid bytes decode to the same code units, and tie.
  No document fills both tables: `ToJSON` writes with the one, while JSON and Go
  values are read into the other (`convert.go`, `rfc8785.go`, `marshal.go`), and
  the generic parser fills a Go map. So the two share no state and no calls.
  `IndexAt` is the eight of the code.
* **Direct writer.** The recursion is `stack`; a frame of an object knows the
  buffer it writes to (`out`), the scratch buffer it owns (`own`), its members
  and the key whose value is due. `nesting`, `depth` and `tables` are the
  parser's counters and are changed where the code changes them, the error paths
  included. Text is a sequence of lexemes separated by white space: brackets,
  commas, a word that scans and one that does not. A comma is a separator or the
  beginning of a word, as in the code. What `Set` does is taken in its abstract
  form (`SetMember`), which `JsonMembers` is shown to have. Indentation is left
  out: pretty and compact output differ by white space only.
* **Strings and text.** `RonGrammar` takes words as they come; `RonStrings` is
  what a word is. A text is a sequence of characters, each for a class the code
  tells apart: `a` is any run of characters without a meaning, `true` a reserved
  word if it stands alone. `RonText` renders a value and reads the text with the
  generic parser. Of layout it keeps what the parser can see: whether a space, a
  line feed or nothing stands between two words. Which containers exceed a line
  is open (`wide`).
* **Scratch pool.** A buffer is a cell that names its storage. Growing the slice
  either keeps the array or copies the cells to a new one and leaves the open
  objects with pointers to the old cells. Storage is allocated only where the
  code's buffer has none; a buffer that outgrows its storage and moves is left
  out, which takes away only ways out of sharing.
* **Bit sets.** One loop iteration is one step; `sort.Slice` is any arrangement
  in the order of its comparison function. The one that is added to the last bit
  does not wrap, as in the code, which adds in 64 bits.
* **Quadtree.** A node is named by the child indexes on the way to it.
  Coordinates are whole numbers of ticks, so that halving a box is exact; a
  search keeps a list of the `Visit` calls to come. Distances are squared, so
  that no root is needed: a box is outside a bound of radius r if its gap on one
  axis is positive and its square exceeds r squared. The search of `InBound`
  starts at the origin's child, because its visitor returns a zero point.
  `Onward` is the four turns of `visit.Visit`'s loop over the children. The
  loops of `maxHeap` are functions of the number of rounds (`Rise`, `Sink`) that
  stop changing when the code's `break` is reached; a heap of n entries allows n
  rounds.
* **Canonical reading.** Of the words of a text canonical mode refuses those
  `NonUnicode` names, wherever they are, and as values those that look like
  numbers and are too large (`NonFinite`, such as `1e999`), which the other modes
  hand on. As a key such a word is a string.
* **ToJSONInto.** `DirectWriter` takes a step for each token, `CanonicalReader`
  answers at once; the mode decides. Texts that hold a marker of a
  vocabulary take a third way, which is in `Vocabulary`.
* **Canonical JSON.** A key is a sequence of code points, a negative one a byte
  that is no UTF-8. A number is its sign, its shortest digits (which are
  `strconv`'s) and the place of its point; `AppendNumber` lays them out as the
  code does, from the text of another formatter. In `CanonicalJson` the four
  digits of an escape are one element, by what they are: a high or a low
  surrogate, a character, a noncharacter.
* **Go values.** A value is a tree whose pointers name places of `Heap`, so that
  a value may refer to itself. A result is the set of what the code may return:
  one for each order of the runtime's maps, and for each order a sort that is
  not stable may leave. What follows a pointer it is already following never
  ends; the model calls it `overflow` and lets the program stop there.
* **Encoder.** A writer takes all or a part and may report an error with either.
  `Claims` is the second look of the renderers, at the values normalising has
  made.
* **Vocabularies.** `opts` is `optionState`; each option is an action, in any
  order. `Walk` returns what comes of a value and what is left where it was:
  native values are put into arrays, objects and maps at once, so that an error
  leaves what was done so far. `held` is the value a mapper hands over and keeps.
  Characters of strings are elements of sequences; a number is its spelling, and
  `Numbers` is the spelling of its `float64`. The elements of a set are one when
  the bytes of their canonical JSON are. The bits of a `Duration` are `Width`;
  a run of digits is one character.
* **Curves and geodesy.** The curves are the program's: `Move` changes those it
  likes. Coordinates are whole numbers on a grid whose distances are whole, sine
  and cosine are tables, and arithmetic is exact: what the properties compare
  are the terms a formula is summed from, its indices and its comparisons.

## 3. The runs

| Run | Shows | Bounds |
| --- | --- | --- |
| `ObjectTables` | the invariants of either table, and that each implements `MemberMap` | 5 keys over the real key order: ASCII, U+1F600 and U+E000, which UTF-16 orders otherwise than UTF-8, and two that tie; map at 3 members, 7 bytes, 7 calls of `Set` |
| `Conversions` | *RON to JSON:* the readers agree with the grammar and with each other, the depth limits, that attempts are undone, every text is answered. *JSON to RON:* values come back from their text, but for strings named exactly | all texts of up to 6 lexemes, in canonical mode 5 with a word that is no canonical string and a number that is not finite; no limit and limits 1 and 2. Strings of up to 4 of 9 characters alone, 2 in pairs and under keys, 1 in nested containers; compact and pretty, up to two broken levels |
| `ToJSONLimit` | **violated**: what is too deep is reported as too deep | texts of up to 4 lexemes, limit 1 |
| `RonTextAny` | **violated**: every value comes back | strings of up to 2 of 4 characters |
| `ScratchPool` | no collected bytes are lost, calls are apart | 2 goroutines, 2 nested objects, 1 state in the pool |
| `Marshaling` | *Vocabularies:* options in any order, meaning kept, one canonical form, panics and depth errors explained, a mapper's value after an error. *Encoder:* what is on the stream, one document per value, what is refused, overflows or panics, canonical keys, numbers and strings | 2 options of 7 custom vocabularies, 4 uris, the empty one among them, and 2 limits; durations of 7 bits; 2 calls with a held value. Programs of one or two Go values of every kind, 2 calls, limits 0 and 1, no renderer or one whose payload is an int or a list |
| `EncoderCycles` | **violated**: a limit ends every value | 2 values that nest in themselves, 1 call, limit 1 |
| `BitSetParsed` | same bits, separated ranges | bits 0 to 4, up to 4 ranges in any order |
| `BitSetNative` | **violated**: reversed ranges | 2 ranges |
| `Components` | *Quadtree:* a tree, values in their boxes, none lost; the answers of all searches, refinement of `Quadtree`. *Outlines:* the kept lengths of a path, areas and containment of its outline, bounds | 4 values in the tree, of 5: two at one place, some on dividing lines, one outside the bound; k up to 3, two filters, a maximum distance, a window with values on its edges. Outlines of up to 4 of 6 points, closed or not, two paths, one point moved or two curves added; bounds of two radii that reach over the antimeridian on either side and over either pole |
| `QuadtreeFraction` | **violated**: `KNearest` changes the bound | bound of height 0.5, 3 values |
| `PolylineAround` | **violated**: a bound around a point contains it | the points and radii of `Components`, 2 of them |

`Conversions`, `Marshaling` and `Components` each hold two models that share no
state: the first state says which of the two the program uses, and the other one
stays as it is. Their states are those of the one model and those of the other,
so nothing is lost or added by checking them in one run.

Several properties are conjunctions of named parts, each with its own comment
in the module; the name stands for one question about the component:

* `ObjectTables`: `Inv` (types, spans that lie apart in the buffer, a map only
  in a marked table), `NoDuplicateKeys`, `IndexExact` of the direct writer's
  table; `TreeInv`, the same of `orderedObject` with `LongMeansIndexed`: the map is
  built when there are exactly so many members, a number that is never stepped
  over. `LastWriteWins` and `TreeLastWriteWins` are the refinements.
* `Conversions`: `AgreesWithParser`, `DepthLimitExact` and `UnwindsExactly` of the
  direct writer: scratch, tables and nesting after every error and every undone
  attempt (`ScratchBalanced`, `WritesOutward`, `NestingCounted`), nothing written
  while a text is tried as the object without braces (`ElidedLeavesNoTrace`) nor
  over what the caller had (`CallersBytesKept`), and no member cut from a buffer
  that is shorter (`MembersInBuffer`); `CanonicalExact` and `CanonicalLimit` of
  the canonical reader, `AlwaysAnswered` of both; `RoundTrips` of `RonText`.
  `CanonicalExact` says which texts canonical mode accepts of those the other
  modes do; `CanonicalLimit` which a limit takes away, and that those of them
  that begin with a bracket are reported as too deep.
* `Marshaling`, of the Encoder: `StreamExact`; `OneDocument` (`Deterministic`,
  `CanonicalOneForm`); `EncodingExplained`, which is `AnswersExplained` of
  `Encoder` (`NaNOnlyFloat64`, `DepthExact`, `OnlyCyclesOverflow`,
  `PanicsExplained`); `EncodedCanonical`, which is `CanonicalExact` of `Encoder`
  (`KeysInOrder`, `NumbersExact`, `SurrogatesExact`).
* `Marshaling`, of vocabularies: `OptionsExact` (`ServedByLast`, `UnknownRejected`);
  `SameMeaning`, against `Means`, which reads a document without a walk;
  `CanonicalForm` (`OneForm`, `Stable`); `AnswersExplained` (`PanicsExplained`,
  `DeepenedByBits`); `HeldSame` and `RetrySame`, of the caller's value.
* `Components`, of outlines: `PathExact` (`LengthsFresh`, `PointOnPath`, `LengthsAgree`);
  `OutlineExact` (`OutlineOnly`, `GeodesicAsPlanar`, `ChordSplits`, `Halves`);
  `BoundsExact` (`BoundAgrees`, `AroundHolds`).
* `ScratchPool`: `PoolSound` (types; `PointersValid`: no slice is shorter than
  the objects that are open, and the n-th element holds only storage made for
  it; `CallsApart`: no storage twice) and `CollectedIntact`.
* `Components`, of the quadtree: `Sound` says that the nodes are a tree and values are in
  their boxes (`InCell`), and that a bound which is inside out takes nothing in
  (`BoundHolds`); `OneAtATime` that none is lost or doubled.

Why the bounds are enough. The tables change behaviour at the first key out of
order, at the first duplicate, when the map is built and at the first removal
with a map: with five keys and a threshold of three every sequence of these
events occurs, removals at each position included. The shortest text that opens
an object in an array in an object without braces, repeats a key and fails has
six lexemes. Two nested objects are what a slice needs to move under an open
one, and two calls are what the pool needs to mix them up. Four ranges give
overlap, adjacency and containment in every combination, at both ends of the
bits. Four values in the tree give chains of removals across three levels and a
heap of three plus one. Four characters hold an opening and a closing
apostrophe with a delimiter and another run of apostrophes between them, which
is all `renderString` and `parseQuotedString` look at. Two options register a
tag twice, move it to another vocabulary, or enable one before it is there. Two
calls with a mapper are the first error half-way and the retry. Seven bits hold
two days of the scaled clock and are exceeded by every unit. Two calls of
`Encode` compare two orders of a map, or two values that should be one. The
literals of `MarshalJSON` are mixes of two escapes with escaped backslashes and
text around them. Four points give outlines that cross themselves, with every
index of `ringArea`'s four cases; the grid is wider than half the earth of the
model, so that the short way round is not always the direct one.

A run with `CHECK_DEADLOCK FALSE` is one of a call that returns, or that may
panic, or of a program that may end: nothing follows then.

Fairness. Only `Conversions` has a liveness property, `AlwaysAnswered`: every
text is answered in every mode. It assumes weak fairness of the whole call of
`ToJSONInto`, which says that a call that can go on does; the code is a
sequential function that waits for nothing.

Six runs are expected to fail. They show where the code and its documents
differ, and `PROJECT.json` quotes the documents under `findings`:

1. *Reversed ranges.* `canonicalBitSet` sorts ranges by their first bit and swaps
   the ends of reversed ones only afterwards. Parsed sets hold no reversed
   range; sets built by a program may.
2. *A read that writes.* `KNearestMatching` evaluates `q.bound.Max.Ceil()`, and
   `Ceil` rounds its receiver up in place. If the upper corner is not whole, the
   boxes every later call computes are not those the values were put in.
3. *Apostrophes.* `renderString` puts `n + 1` apostrophes around a string whose
   longest run of apostrophes is `n`. The parser counts the opening run, so a
   string that begins or ends with an apostrophe comes back as something else
   (`a'` as an object), unless it is an odd number of apostrophes and nothing
   more; an even run before a delimiter is the empty string, so a string such as
   `[it's]` is lost; and `' ` before a bracket is an apostrophe by itself. In
   compact mode the quotes of an empty key and of its value join. `RoundTrips`
   says that nothing else goes wrong.

4. *Too deep without braces.* In canonical mode `parseCanonicalElidedObject`
   forgets which error stopped it. A text without outer braces that exceeds
   `MaxNestingDepth` is then read as a single value with something behind it, and
   fails as ill formed and not with `ErrNestingTooDeep`. `CanonicalLimit` says
   that no other text does.
5. *Values that nest in themselves.* `MaxNestingDepth` is looked at when a Go
   value has been normalised. One that nests in itself exhausts the stack before,
   with a limit or without. `OnlyCyclesOverflow` says that no other value does.
6. *Bounds over the antimeridian.* `NewBoundAroundPoint` takes an end beyond the
   antimeridian back from the other side; `Contains` does not know of bounds
   whose western end is the eastern one, and finds no point in them, the centre
   included. `AroundHolds` says what such a bound still has, corners on the earth
   and its width, and what the others contain.

Other behaviour a caller may not expect is not a disagreement with a document
and is stated by a property that holds:

* `DeepenedByBits`: a bit set that is within the limit when it is read may be
  refused, because its canonical form has pairs.
* `PanicsExplained` in both modules: which values bring a writer down, all of
  them by what a program's own `Parse`, `Render` or mapper returns.
* `Deterministic`: two keys of a Go map with one text leave one member, and the
  runtime decides which.

What some properties set aside: `SameMeaning` and `CanonicalForm` speak of
durations that fit their width (`InRange`), `PathExact` of lengths no curve of
which has moved since they were summed (`touched`), `Deterministic` of maps whose
keys have different texts.

## 4. The proofs

Each theorem holds for every value of the constants that satisfies the
assumptions named `...Assumption` in the modules: types, finiteness of the set
of goroutines, a key order that is irreflexive and transitive, words that are no
brackets. No bound of a run is among them.

| Theorem | States |
| --- | --- |
| `ObjectTablesProofs!Invariance`, `MembersDistinct`, `TableExact` | `Inv`, `NoDuplicateKeys`, `IndexExact` of the direct writer's table |
| `ObjectTablesProofs!Refinement` | `LastWriteWins` |
| `OrderedObjectProofs!Invariance`, `Refinement` | the same of `orderedObject` by itself |
| `ObjectTablesProofs!TreeInvariant`, `TreeRefinement` | `TreeInv`, `TreeLastWriteWins` |
| `DirectWriterProofs!WriterTypes`, `WriterUnwinds` | `TypeOK`, `UnwindsExactly` of the direct writer |
| `DirectWriterProofs!WritesMeaning`, `WritesJson` | the answer is the one meaning of the text, and it is JSON |
| `DirectWriterProofs!RefusesRightly` | a text that is refused has no meaning within the limit |
| `DirectWriterProofs!KeysOrdered`, `KeysTotal`, `OneArrangement` | the order of keys, and what a sort by it may leave |
| `ScratchPoolProofs!StorageApart`, `NothingOverwritten` | `PoolSound`, `CollectedIntact` |
| `BitSetProofs!TypeCorrect`, `AlwaysSeparated`, `ParsedSameBits` | `TypeOK`, `Separated`, `SameBits` |
| `VocabularyOptionsProofs!Exact` | `OptionsExact` |
| `QuadtreeProofs!AlwaysSound`, `OneByOne`, `SearchSound` | `Sound`, `OneAtATime` |
| `QuadtreeProofs!Closest`, `KClosest`, `AllOfBox`, `Removes` | `FindsClosest`, `ClosestK`, `AllInBound`, `RemovesClosest` |
| `QuadtreeProofs!SearchRefinement` | the searches implement `Spec` of `Quadtree` |
| `QuadtreeProofs!Panics` | which two calls of the model panic |

So every property of the runs `ObjectTables`, `ScratchPool` and `BitSetParsed`
and every one of the quadtree in `Components` is also a theorem, and of the run
`Conversions` those two that do not compare the writer with a parser.

**Member tables.** `Inv` of `JsonMembers` is inductive. Its parts need each
other: that no key occurs twice after a `Set` without a search follows from the
members being in order, which only an unmarked table guarantees; that a removal
by the map removes the right member follows from the map being exact; that the
renumbered map is exact again follows from the keys being distinct; and
`IndexedMeansMarked`, which no code tests, says that a `Set` that skips the
search cannot meet a map it would have to consult. A `Set` that finds the key
maps to `PutAgain` of `MemberMap`, one that does not to `PutNew`. The lemmas
`OldSpan` and `NewSpan` show that bytes appended to the buffer change no earlier
span. `orderedObject` needs a different invariant: it always searches, so order
plays no part, but its map is built when there are exactly `IndexAt` members,
and `LongMeansIndexed` is what makes "exactly" enough. The lemmas on dropping,
renumbering and building the map are in `MemberTableProofs`, stated once for
both.

**Direct writer.** Which buffer a container writes to is kept in the locals of a
recursion in the code, in frames in the model. `WriterInv` says that it is a
matter of counting (`Shaped`): a container writes to the buffer whose number is
the number of objects around it, an object collects in the next one, and `depth`
is the number of open objects. That the members of an object lie in its buffer
(`Held`) needs that nothing is taken from a buffer while its object is open;
that a value is delivered to the right place needs that every object around an
open container has a key (`Waiting`). `UnwindsExactly` follows; an error leaves
the frames one by one, an object without braces that was tried in vain all at
once, and both only shorten a stack that is `Shaped`.

What is written is compared with `TextMeaning`, where the meaning of a text is
the least set of judgements that follows the rules of `parse.go`: "within d
containers the value at i ends before j and is this JSON", "the array at i has
these values before j". Least sets can be reasoned about where a recursive
function cannot. `MeaningInv` keeps, for each open container, its place `P` in
the text and the contents `C` its buffer had when what is inside it began: `C` is
the text of the values so far (`ArrayFits`), or holds the members whose pieces
are the entries so far (`ObjectFits`); a buffer holds just `C`, except where an
array inside, which writes to the same buffer, has gone on (`Filled`). A value
that ends is taken in by the container around it (`ArrayTakes`, `ObjectTakes`)
whatever it is, and an object that closes is its members in order, joined
(`ObjectTextEntries`): this is where the rules for spans are needed.
`WordAssumption` says that a word is no bracket.

`WritesMeaning` is about the answers without an error, `RefusesRightly` about
the others; with `AlwaysAnswered`, which TLC checks, they say all there is to say
of an answer but which error it is. A text that both an object without braces and a
value could be read from means the object, which the code tries first
(`NoElided` in `Means`).

That there is no reading needs that readings are not ambiguous. A reading has
grounds: the least set that follows the rules is contained in the set of its own
members that follow from others (`Grounds`). So the readings of one container,
up to each place inside it, form a chain in which each leaves no choice for the
next; a chain has one end (`OneEnd`), and where the container closes, or where
the next value cannot be read, is an end (`ArrayEnd`, `ObjectEnd`). From the end
of the text backwards, at most one value is read at each place (`Unique`).
Where the writer is stuck, the innermost container has come to an end without a
bracket; so it is no value, and the container around it is stuck where this one
begins, out to the whole text (`AroundStuck`, `DeadOutside`). While reading,
the places `P` are all that is needed (`Trail`); `RefusalInv` keeps what has
been settled: after the object without braces was given up there is none, and
when an error unwinds outside of one there is no value either. If the object
without braces nests too deep the code gives up at once, and is right: a single
value would be the first word, and behind it is a bracket (`DeepSingle`).

`WritesJson` does not trust the rules: whatever follows from them is in `Json`,
the least set of texts that the grammar of JSON allows, objects without a
repeated key (`PutDistinct`). That the rules are those of the recursive parser is
compared by TLC (`AgreesWithParser`, `DepthLimitExact`).

**Order of keys.** The theorems about the tables assume that `Before` is
irreflexive and transitive. `KeysOrdered` proves it of the order the code has:
by UTF-16 code units, but byte by byte while both keys are ASCII; the short cut
is the same order (`LessByUnits`), for keys with invalid bytes too. That of two
valid keys one comes first (`KeysTotal`) needs that UTF-16 is injective: the
first unit of a code point says whether there is a second. So only one
arrangement of different valid keys is in order, and it is no matter that the
sort is not stable (`OneArrangement`).

**Scratch pool.** Neither property is inductive. That a write hits no other
object's storage needs `CallsApart`; that a write to storage that was never
allocated finds some that is free (`FreeExists`) needs a count of what is in
use, and the count needs `Own`: the n-th elements hold only storage made for
n-th elements, of which there is at most one in each pooled slice, one in the
slice of each goroutine and one under each goroutine's n-th open object. That a pointer into an array the
slice has left still leads to the storage of its object needs `PointersValid`,
which ties the length of a slice to the objects that are open.

**Bit sets.** The result of the merge is separated, whatever the ranges and in
whatever order they come: also for reversed ones. With parsed ranges no bit is
gained or lost: the invariant says that the bits of the canonical set are those
of the ranges taken so far, and that the ranges to come begin no earlier than
the last one of the canonical set, which is where the sort is needed and what
reversed ranges break.

**Options.** `OptionsExact` speaks of the list of options given so far; the code
keeps only its registries. `Accumulated` says what the registries hold after a
list: for each tag the last vocabulary that listed it, for each vocabulary its
last registration. An option that registers something is the last to do so, and
one that does not changes no last (`LastAdded`, `NotUsedKeeps`).

**Quadtree.** `Sound` is inductive. A box of a node is computed down a path, so
facts about all nodes (`CellOfChild`, `CellProper`) are proved over the length of
the path, by the least counterexample (`Least`, from a well-founded order: the
induction theorems of the library are out of reach). `Add`: a path of values
ends, since nodes are finitely many (`PlaceFound`), and the way down stays where
the point is (`Quarters`). `removeNode`: the nodes whose values move up are a
path with one end (`EndOnly`), every value moves into the box of its parent,
which contains its own, and the move loses none because it is a bijection
between what was held and what is, but for the one taken out (`TakeOutHeld`).

**Heap.** A loop in which every round comes nearer to a bound settles within it
(`Loops`, `Settles`). While an entry rises, every other pair is in order and the
entry's children are under its parent (`Rising`); while one sinks likewise
(`Sinking`); when the loop stops the entry is in order too. So `Push` and `Pop`
keep the heap's entries, their number and the order (`PushIs`, `PopIs`), the top
is the furthest (`TopFurthest`), and emptying it gives the entries in ascending
order (`EmptiedIs`).

**Searches.** `SearchInv`, the inductive invariant, says of a walk under way:
the calls to come stand for subtrees that do not meet (`PendingOK`), what was
found is asked for, is no longer ahead and was found once (`FoundOK`); every
value that is asked for and not ahead was found or is no nearer than the bound
(`Judged`); the bound is the distance of the worst value found, once there are
as many as asked for (`RingOK`); and the heap is in order (`OpOK`). Leaving out
a box keeps `Judged` because of `InCell` (`LeftOut`): this is where a removal
that moved a value out of its box would show. Throwing the furthest entry off
the heap keeps it because the entry is no nearer than the top that remains.
When nothing is ahead, `Judged` is the answer; `AnswerClosestK` counts.
TLC checked `SearchInv` on the states of the quadtree first.

The theorems about searches have one hypothesis, `WholeEdges`: the right and the
upper edge of the bound are whole numbers. Without it they are false, because
`KNearest` rounds the bound of the tree up; that is what the run
`QuadtreeFraction` shows. Arithmetic is exact in the model: the theorems say
nothing about rounding in floating point.

Model-checked only, and why:

* `AlwaysAnswered`: liveness under fairness.
* `AgreesWithParser`, `DepthLimitExact`, `CanonicalExact`, `CanonicalLimit` of
  `Conversions`, and the properties of `RonText`, `Encoder`, `Polyline`, and of
  `Vocabulary` but for `OptionsExact`: the parser they compare with, the meaning
  of Go values and payload trees, and sums over a curve are defined by recursion,
  and what such a definition computes for every input is an induction over data
  the prover has no rule for. Of the first, the part that can be said without
  recursion is `WritesMeaning` and `RefusesRightly`.

## 5. Not modelled, and what could follow

Proofs that could follow: `LengthsFresh` of `CurvePath`, once sums of lengths are
functions; `Stable` of the set payloads, from the theorems of `BitSetProofs`.

Not modelled, with the reason:

* *Vocabularies of conversions field by field* (math, spatial, colour, network,
  the scalars of core): a switch over tags that calls a parser of the standard
  library or builds a struct, without state. What is common to them, the walk,
  the tag that must stand alone, errors, and the way back, is in `Vocabulary`;
  of the tags it holds those whose payloads are walked again or rewritten
  (`#tag`, `#geo`, `#set`, `#bits`, `#dur`).
* *`#rx`*: rewriting of one regular expression syntax into another.
* *`#utc`*: the calendar arithmetic of `time`.
* *Geometry* (vectors, matrices, quaternions, boxes, rays, splines, ellipses) and
  the formulas of geodesy without branches (bearing, midpoint, haversine):
  floating point, which TLC has none of.
* *Layout*: line widths, indentation and arrays of many lines. What of them a
  parser can see is in `RonText`.
* *The paths a mapper is called with*, and the syntax of JSON, which is
  `encoding/json`'s.
* *Digits*: the shortest digits of a float are `strconv`'s; of UTF-8 only what
  is valid and what is not.
