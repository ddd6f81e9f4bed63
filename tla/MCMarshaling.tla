------------------------------- MODULE MCMarshaling ------------------------------
(***************************************************************************)
(* Conversions of documents with values of each vocabulary, of durations   *)
(* in every spelling, and of values a program holds; and an Encoder with   *)
(* the programs of MCEncoder.                                              *)
(***************************************************************************)
EXTENDS Marshaling

\* The values do not depend on these constants.
Values == INSTANCE MCEncoder WITH
            Programs <- {}, Heap <- << >>, FloatRenderers <- {}, MaxLimit <- 0, MaxCalls <- 0,
            opts <- settings

MCHeap == Values!MCHeap
MCPrograms == Values!MCPrograms
MCFloatRenderers == Values!MCRenderers

MCNumbers == [t \in {"1", "1.0", "2", "3", "9007199254740992", "9007199254740993"} |->
                CASE t = "1.0" -> "1"
                  [] t = "9007199254740993" -> "9007199254740992"
                  [] OTHER -> t]
MCIndices == [t \in {"1", "2", "3"} |-> CASE t = "1" -> 1 [] t = "2" -> 2 [] OTHER -> 3]
MCAscending ==
  <<"\"", "#bits", "#dur", "#geo", "#set", "#tag", "#x", "#y", "#z", ",", "-", "1", "2", "3",
    "60", "9007199254740992", ":", "D", "Feature", "M", "P", "Point", "S", "T", "[", "]",
    "a", "b", "coordinates", "geometry", "null", "properties", "type", "{", "}">>

Vocab(uri, tags, parse, render) == [uri |-> uri, tags |-> tags, parse |-> parse, render |-> render]

MCVocabularies ==
  {Vocab("u", {"x"}, "none", "none"), Vocab("u", {"#y"}, "app", "own"),
   Vocab("v", {"#x", "#dur"}, "refuse", "none"), Vocab("w", {"#y"}, "json", "none"),
   Vocab("", {"#x"}, "app", "none"), Vocab("a", {"#z"}, "none", "any"), Vocab("n", {"#y"}, "app", "none")}

A == Str(<<"a">>)
B == Str(<<"b">>)
One == Num("1")
Two == Num("2")
Typ(tag, payload) == Obj(<<tag>>, <<payload>>)
Dur(chars) == Typ("#dur", Str(chars))
Minute60 == Dur(<<"P", "T", "60", "S">>)
Minute1 == Dur(<<"P", "T", "1", "M">>)

Scalars == {A, One, Num("1.0"), Num("9007199254740992"), Num("9007199254740993")}
Sets == {Typ("#set", Arr(s)) : s \in {<<x, y>> : x, y \in Scalars \cup {Arr(<<One, A>>), Arr(<<One>>)}}}
        \cup {Typ("#set", A), Typ("#set", Arr(<<Obj(<<"a", "b">>, <<One, A>>), Obj(<<"b", "a">>, <<A, Num("1.0")>>)>>)),
              Typ("#set", Arr(<<B, Null, A, B>>)), Typ("#set", Arr(<<Minute60, Minute1>>))}
Bits == {Typ("#bits", Arr(s)) : s \in
           {<<One, Two>>, <<Two, One, One>>, <<Num("1.0"), Num("3")>>, <<Arr(<<One, Two>>)>>,
            <<Arr(<<Two, One>>)>>, <<Arr(<<One, One>>), Num("3")>>, <<A>>, << >>}}
Point == Obj(<<"type", "coordinates">>, <<Str(<<"Point">>), Arr(<<One, Two>>)>>)
Feature(properties) == Obj(<<"type", "geometry", "properties">>, <<Str(<<"Feature">>), Point, properties>>)
Inner == {A, Minute60, Minute1, Typ("#x", Minute60), Typ("#y", A), Typ("#dur", One)}

MCDocuments ==
  {A, Null, Obj(<<"a", "b">>, <<One, A>>), Obj(<<"b", "a">>, <<A, Num("1.0")>>),
   Obj(<<"a", "a">>, <<One, A>>), Obj(<<"#dur", "a">>, <<A, A>>), Typ("#geo", A), Typ("#tag", Arr(<<A>>)),
   Typ("#geo", Obj(<<"type">>, <<Str(<<"Point">>)>>))}
  \cup Sets \cup Bits \cup Inner
  \cup {Typ("#tag", Arr(<<Minute60, x>>)) : x \in Inner}
  \cup {Typ("#geo", Feature(Obj(<<"a">>, <<x>>))) : x \in Inner}
  \cup {Obj(<<"b", "a">>, <<x, Arr(<<x, One>>)>>) : x \in Inner}
  \cup {Arr(<<Typ("#z", x)>>) : x \in {A, Minute60}}

Numerals == {"0", "1", "3", "64"}
Part(unit) == {<< >>} \cup {<<n, unit>> : n \in Numerals}
Seconds == Part("S") \cup {<<n, ".", f, "S">> : n \in {"0", "1"}, f \in {"0", "1", "3"}}
Day(sign) == {sign \o <<"P">> \o d : d \in Part("D")}
MCTimed ==
  LET Signed == Day(<< >>) \cup Day(<<"-">>)
      Time == {<< >>} \cup {<<"T">> \o h \o m \o s : h \in Part("H"), m \in Part("M"), s \in Seconds}
      odd == {<< >>, <<"-">>, <<"T", "1", "S">>, <<"P", "1">>, <<"P", "T", "1", "S", "1", "S">>,
              <<"P", "T", "1", "M", "1", "H">>, <<"P", "T", "1", ".", "1", "M">>,
              <<"P", "T", "S">>, <<"P", "1", "H">>}
  IN  {Dur(text) : text \in odd \cup {d \o t : d \in Signed, t \in Time}}

M(keys, kids) == Map(keys, kids)
MCHeld ==
  {Null,
   M(<<"a", "b">>, <<Minute60, Typ("#dur", A)>>),
   M(<<"a", "b">>, <<Minute60, M(<<"a">>, <<Typ("#y", A)>>)>>),
   M(<<"a", "b">>, <<DurationValue(5), Typ("#set", Arr(<<A, DurationValue(5)>>))>>),
   M(<<"#set">>, <<Arr(<<M(<<"a">>, <<Minute60>>), One>>)>>),
   M(<<"#geo">>, <<M(<<"type", "geometry", "properties">>,
       <<Str(<<"Feature">>), Null, M(<<"a", "b">>, <<Minute60, Typ("#dur", A)>>)>>)>>),
   M(<<"#tag">>, <<Arr(<<A, M(<<"a", "b">>, <<Minute60, Typ("#x", Minute60)>>)>>)>>),
   M(<<"a", "b">>, <<AppValue("u", "#y", A), Arr(<<Minute60, Typ("#bits", Arr(<<Two, One>>))>>)>>),
   M(<<"#dur">>, <<Str(<<"P", "T", "60", "S">>)>>),
   M(<<"#dur", "a">>, <<A, Minute60>>)}
================================================================================
