-------------------------------- MODULE MCEncoder --------------------------------
(***************************************************************************)
(* Programs of one or two Go values for the Encoder: each kind of value,   *)
(* keys and numbers at the borders of their orders, values that refer to   *)
(* themselves, and MarshalJSON with every mix of surrogates.               *)
(***************************************************************************)
EXTENDS Encoder

Dec(neg, digits, point) == [neg |-> neg, digits |-> digits, point |-> point]
One == Dec(FALSE, <<1>>, 1)
Zero == Dec(FALSE, << >>, 0)

I(dec) == [k |-> "integer", dec |-> dec]
F(dec) == [k |-> "float64", dec |-> dec]
F32(dec) == [k |-> "named float", dec |-> dec]
NotANumber(named) == [k |-> "nan", named |-> named]
S(text) == [k |-> "string", text |-> text]
Nil == [k |-> "nil"]
Bytes(text) == [k |-> "bytes", isnil |-> FALSE, text |-> text]
Slice(kids) == [k |-> "slice", isnil |-> FALSE, kids |-> kids]
Array(kids) == [k |-> "array", kids |-> kids]
NilSlice == [k |-> "slice", isnil |-> TRUE, kids |-> << >>]
NilMap(ofAny) == [k |-> "map", isnil |-> TRUE, ofAny |-> ofAny, keys |-> << >>, kids |-> << >>]
GoMap(keys, kids) ==
  [k |-> "map", isnil |-> FALSE, ofAny |-> FALSE,
   keys |-> [i \in DOMAIN keys |-> [text |-> keys[i], kind |-> "text"]], kids |-> kids]
OddMap(kids) ==
  [k |-> "map", isnil |-> FALSE, ofAny |-> FALSE,
   keys |-> <<[text |-> <<97>>, kind |-> "text"], [text |-> <<98>>, kind |-> "other"]>>, kids |-> kids]
Field(name, ron, json, exported, kid) ==
  [name |-> name, ron |-> ron, json |-> json, exported |-> exported, kid |-> kid]
Plain(name, kid) == Field(name, << >>, << >>, TRUE, kid)
Struct(fields) == [k |-> "struct", fields |-> fields]
Pointer(to) == [k |-> "pointer", to |-> to]
Custom(tag, kid) == [k |-> "custom", tag |-> tag, kids |-> <<kid>>]
Marshaler(body, fails) == [k |-> "marshaler", body |-> body, fails |-> fails]
TextMarshaler(text, fails) == [k |-> "textmarshaler", text |-> text, fails |-> fails]
Lit(raw) == [k |-> "lit", raw |-> raw]

A == <<97>>
B == <<98>>
LastPlane == <<65536>>      \* D800 DC00 in UTF-16
PrivateUse == <<57344>>     \* E000: behind it, though a smaller code point

\* The literals of MarshalJSON: escapes, escaped backslashes and characters.
Escape(what) == <<"\\", "u", what>>
Spelt(what) == <<"\\", "\\", "u", what>>   \* a backslash and then text
Openings == {<< >>, <<"\\", "\\">>, <<"u", "hi">>}
Middles == {Escape("hi"), Spelt("hi"), Escape("bmp"), Escape("nonchar"), << >>}
Endings == {<< >>, Escape("lo"), Spelt("lo"), Escape("hi"), <<"lo">>}
Literal == {o \o m \o e : o \in Openings, m \in Middles, e \in Endings}

MCHeap == [next |-> Struct(<<Plain(A, I(One)), Plain(B, Pointer("next"))>>),
           self |-> Pointer("self"),
           map |-> GoMap(<<A, B>>, <<Pointer("map"), Chan>>),
           shared |-> Slice(<<I(One)>>)]

FloatValues ==
  <<Zero, Dec(TRUE, << >>, 0)>>
  \o [i \in 1..14 |-> Dec(i % 2 = 0, <<1>>, i - 9)]
  \o [i \in 1..14 |-> Dec(i % 2 = 1, <<1, 2, 3>>, i - 9)]
  \o [i \in 1..6 |-> Dec(FALSE, <<1, 0, 2>>, i + 17)]

Tags == <<Field(A, << >>, <<B>>, TRUE, I(One)),
          Field(B, << <<99>>, "omitempty" >>, << <<Dash>> >>, TRUE, S(<< >>)),
          Field(<<99>>, << <<Dash>> >>, <<A>>, TRUE, Chan),
          Field(<<100>>, << << >>, "omitempty" >>, << >>, TRUE, F(One)),
          Field(<<101>>, << >>, << >>, FALSE, Chan)>>

Twice == <<Plain(A, Slice(<<S(A)>>)), Plain(B, Nil), Field(<<99>>, << >>, <<A>>, TRUE, I(One))>>

Alone ==
  {Nil, NilSlice, NilMap(TRUE), NilMap(FALSE), Bytes(A), TextMarshaler(A, FALSE), TextMarshaler(A, TRUE), Chan,
   NotANumber(TRUE), NotANumber(FALSE), Slice(<<NotANumber(FALSE)>>), F32(One), Slice(<<F32(One)>>),
   Custom(<<35, 98>>, F(One)), Custom(<<35, 98>>, Slice(<<I(One)>>)),
   Pointer("next"), Pointer("self"), Pointer("map"),
   Struct(<<Plain(B, Pointer("shared")), Plain(A, Pointer("shared"))>>),
   Struct(Tags), Struct(Twice),
   Slice([i \in DOMAIN FloatValues |-> F(FloatValues[i])]),
   Marshaler(Arr([i \in DOMAIN FloatValues |-> JsonNumber(FloatValues[i])]), FALSE),
   GoMap(<<PrivateUse, LastPlane, A>>, <<I(One), Nil, S(B)>>),
   Slice(<<GoMap(<<LastPlane \o A, LastPlane>>, <<I(One), Nil>>)>>),
   GoMap(<<A, A>>, <<I(One), F(Zero)>>),
   GoMap(<< <<97, -1>>, <<97, -2>> >>, <<I(One), Nil>>),
   OddMap(<<I(One), Nil>>),
   S(<<65535>>), S(<<-1>>), Array(<<Slice(<<I(One)>>)>>),
   Marshaler(Obj(<<<<"x">>, <<"x">>>>, <<JsonNumber(One), Null>>), FALSE),
   Marshaler(Null, TRUE)}

Pairs ==
  {{I(One), F(One)},
   {Slice(<<I(One), Nil>>), Array(<<F32(One), NilSlice>>)},
   {Struct(<<Plain(B, I(One)), Plain(A, S(B))>>), GoMap(<<A, B>>, <<S(B), F(One)>>)},
   {Marshaler(Obj(<<Escape("bmp"), Escape("hi") \o Escape("lo")>>, <<JsonNumber(One), Null>>), FALSE),
    Struct(<<Plain(PrivateUse, I(One)), Plain(LastPlane, Nil)>>)},
   {Slice(<<Struct(<<Plain(B, I(One)), Plain(A, Nil)>>)>>),
    Slice(<<Struct(<<Plain(A, Nil), Plain(B, F32(One))>>)>>)}}

MCPrograms ==
  {{v} : v \in Alone} \cup Pairs \cup {{Marshaler(Lit(raw), FALSE)} : raw \in Literal}

\* Values that nest in themselves.
MCCycles == {{Pointer("next")}, {Pointer("map")}}

MCRenderers == {"none", "int", "list"}
================================================================================
