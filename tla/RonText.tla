--------------------------------- MODULE RonText ---------------------------------
(***************************************************************************)
(* A JSON value becomes RON text and the text is read again: FromJSON in   *)
(* compact and pretty mode (convert.go, render.go) and the generic parser  *)
(* (parse.go), character by character.  Values are <<"string", s>>,        *)
(* <<"literal", token>>, <<"array", sequence>> and <<"object", members>>,  *)
(* a sequence of pairs of a key and a value, or a set of them once read.   *)
(* Of white space only what the parser can see is kept: no indentation.    *)
(* Left out are canonical mode, which sorts the members, native values of  *)
(* vocabularies, and the one-line layout of objects with a single key that *)
(* starts with a hash.                                                     *)
(***************************************************************************)
EXTENDS RonStrings

CONSTANTS
  Char,       \* the characters of strings
  MaxAlone,   \* bounds of the model: the length of a string that is the value,
  MaxPaired,  \* of one of two in a value,
  MaxInner    \* of one of three

VARIABLES
  value,    \* the JSON value
  mode,     \* "compact" or "pretty"
  wide,     \* how many levels of containers are wider than a line of 80 (pretty)
  text,     \* the RON text, once rendered
  reading,  \* what the text was read as
  phase     \* "json", "ron", "read"

vars == <<value, mode, wide, text, reading, phase>>

StringsUpTo(n) == UNION {[1..l -> Char] : l \in 0..n}

Scalars(n) ==
  {<<"string", s>> : s \in StringsUpTo(n)} \cup {<<"literal", <<"0">>>>}

Pair(k, v) == <<k, v>>
Arrays(values) == {<<"array", a>> : a \in values}
Objects(members) == {<<"object", m>> : m \in members}

Values ==
  Scalars(MaxAlone)
  \cup Arrays({<< >>} \cup {<<v, w>> : v, w \in Scalars(MaxPaired)})
  \cup Objects({<< >>} \cup {<<Pair(k, v)>> : k \in StringsUpTo(MaxPaired), v \in Scalars(MaxPaired)})
  \cup Objects({<<Pair(k, c)>> : k \in StringsUpTo(MaxInner),
                 c \in Arrays({<<v>> : v \in Scalars(MaxInner)})
                       \cup Objects({<<Pair(l, v)>> : l \in StringsUpTo(MaxInner), v \in Scalars(MaxInner)})})
  \cup Objects({<<Pair(k, v), Pair(l, v)>> :
                 k, l \in StringsUpTo(MaxInner), v \in Scalars(MaxInner)})

\* The member lists of JSON objects as orderedObject leaves them.
KeysDiffer(v) ==
  v[1] = "object" => \A i, j \in DOMAIN v[2] : v[2][i][1] = v[2][j][1] => i = j

Init ==
  /\ value \in {v \in Values : KeysDiffer(v)}
  /\ mode \in {"compact", "pretty"}
  /\ wide \in (IF mode = "pretty" THEN 0..2 ELSE {0})
  /\ text = << >>
  /\ reading = Fail
  /\ phase = "json"

-------------------------------------------------------------------------------
Joined(parts, separator) ==
  FoldLeft(LAMBDA all, p : IF all = << >> THEN p ELSE all \o separator \o p, << >>, parts)

Wrap(open, t, close) == <<open>> \o t \o <<close>>

\* Mutant: a key is followed by a string without space.
SpaceUnlessString(v) == v[1] = "literal"

\* No space is needed before a value that begins with a bracket or a quote.
NeedsSpace(v) ==
  CASE v[1] = "string" -> RenderString(v[2], FALSE)[1] \notin Quotes
    [] v[1] = "literal" -> TRUE
    [] OTHER -> FALSE

\* writeCompactValueWithCustom
RECURSIVE Compact(_, _)
Compact(v, top) ==
  CASE v[1] = "string" -> RenderString(v[2], FALSE)
    [] v[1] = "literal" -> v[2]
    [] v[1] = "array" ->
         Wrap("[", Joined([i \in DOMAIN v[2] |-> Compact(v[2][i], FALSE)], <<" ">>), "]")
    [] v[1] = "object" ->
         LET members == [i \in DOMAIN v[2] |->
                           RenderString(v[2][i][1], TRUE)
                           \o (IF NeedsSpace(v[2][i][2]) THEN <<" ">> ELSE << >>)
                           \o Compact(v[2][i][2], FALSE)]
             body == Joined(members, <<" ">>)
         IN  IF v[2] = << >> \/ ~top THEN Wrap("{", body, "}") ELSE body

\* renderPrettyInlineValueWithCustom: every object has one member.
RECURSIVE OnOneLine(_)
OnOneLine(v) ==
  CASE v[1] = "array"  -> \A i \in DOMAIN v[2] : OnOneLine(v[2][i])
    [] v[1] = "object" -> Len(v[2]) = 1 /\ OnOneLine(v[2][1][2])
    [] OTHER           -> TRUE

\* writeValueWithCustom with its objects and arrays.  What a container holds is
\* narrower than it, so the wide levels are the outer ones.
RECURSIVE PrettyText(_, _)
PrettyMembers(members, levels) ==
  [i \in DOMAIN members |->
     RenderString(members[i][1], TRUE) \o <<" ">> \o PrettyText(members[i][2], levels)]

PrettyText(v, levels) ==
  LET inner == IF levels = 0 THEN 0 ELSE levels - 1
      parts == IF v[1] = "array"
               THEN [i \in DOMAIN v[2] |-> PrettyText(v[2][i], inner)]
               ELSE PrettyMembers(v[2], inner)
      lines == IF v[2] = << >> \/ (levels = 0 /\ OnOneLine(v)) THEN Joined(parts, <<" ">>)
               ELSE Wrap("nl", Joined(parts, <<"nl">>), "nl")
  IN  CASE v[1] = "string"  -> RenderString(v[2], FALSE)
        [] v[1] = "literal" -> v[2]
        [] v[1] = "array"   -> Wrap("[", lines, "]")
        [] v[1] = "object"  -> Wrap("{", lines, "}")

\* The members of the outermost object stand on lines of their own.
Pretty(v) ==
  (IF v[1] = "object" /\ v[2] # << >>
   THEN Joined(PrettyMembers(v[2], wide), <<"nl">>)
   ELSE PrettyText(v, wide)) \o <<"nl">>

FromJSON ==
  /\ phase = "json"
  /\ text' = IF mode = "compact" THEN Compact(value, TRUE) ELSE Pretty(value)
  /\ phase' = "ron"
  /\ UNCHANGED <<value, mode, wide, reading>>

-------------------------------------------------------------------------------
SkipOver(src, i, chars) ==
  CHOOSE j \in i..(Len(src) + 1) :
    /\ \A l \in i..(j - 1) : src[l] \in chars
    /\ j <= Len(src) => src[j] \notin chars

SkipWhitespace(src, i) == SkipOver(src, i, Blank)
SkipSpace(src, i) == SkipOver(src, i, Blank \cup {","})

StartsWith(src, i, c) == i <= Len(src) /\ src[i] = c

\* The scalar part of parseValueCurrent: a bare token may be a literal.
ParseScalar(src, i) ==
  LET t == ParseKey(src, i)
  IN  IF ~t.ok THEN Fail
      ELSE IF src[i] \notin Quotes \cup {","} /\ Literal(SubSeq(src, i, t.next - 1))
           THEN [t EXCEPT !.token = <<"literal", t.token>>]
      ELSE [t EXCEPT !.token = <<"string", t.token>>]

RECURSIVE ParseValue(_, _)
RECURSIVE ParseElements(_, _, _)
RECURSIVE ParseMembers(_, _, _, _)

ParseValue(src, i) ==
  IF StartsWith(src, i, "{") THEN ParseMembers(src, SkipWhitespace(src, i + 1), {}, FALSE)
  ELSE IF StartsWith(src, i, "[") THEN ParseElements(src, SkipWhitespace(src, i + 1), << >>)
  ELSE ParseScalar(src, i)

ParseElements(src, i, sofar) ==
  IF StartsWith(src, i, "]") THEN Token(<<"array", sofar>>, i + 1)
  ELSE LET v == ParseValue(src, i)
       IN  IF ~v.ok THEN Fail
           ELSE ParseElements(src, SkipSpace(src, v.next), Append(sofar, v.token))

\* The last value of a key stays.
Put(members, k, v) == {m \in members : m[1] # k} \cup {Pair(k, v)}

\* The members of an object up to its brace, or of one without braces up to
\* the end of the text.
ParseMembers(src, i, sofar, elided) ==
  IF (elided /\ i > Len(src)) \/ (~elided /\ StartsWith(src, i, "}"))
  THEN Token(<<"object", sofar>>, i + 1)
  ELSE LET k == ParseKey(src, i)
           v == ParseValue(src, SkipWhitespace(src, k.next))
       IN  IF ~k.ok THEN Fail
           ELSE IF ~v.ok THEN Fail
           ELSE ParseMembers(src, SkipSpace(src, v.next), Put(sofar, k.token, v.token), elided)

\* parseWithMaxDepth, without a limit.
Parse(src) ==
  LET start == SkipSpace(src, 1)
      bare == start <= Len(src) /\ src[start] \notin {"{", "["}
      elided == IF bare THEN ParseMembers(src, start, {}, TRUE) ELSE Fail
      single == ParseValue(src, start)
  IN  IF elided.ok THEN elided
      ELSE IF ~single.ok THEN Fail
      ELSE IF SkipSpace(src, single.next) <= Len(src) THEN Fail ELSE single

Read ==
  /\ phase = "ron"
  /\ reading' = Parse(text)
  /\ phase' = "read"
  /\ UNCHANGED <<value, mode, wide, text>>

Next == FromJSON \/ Read

Spec == Init /\ [][Next]_vars

-------------------------------------------------------------------------------
\* A value without the order of its members.
RECURSIVE Meaning(_)
Meaning(v) ==
  CASE v[1] = "array"  -> <<"array", [i \in DOMAIN v[2] |-> Meaning(v[2][i])]>>
    [] v[1] = "object" -> <<"object", {Pair(v[2][i][1], Meaning(v[2][i][2])) : i \in DOMAIN v[2]}>>
    [] OTHER           -> v

ReadBack == reading.ok /\ reading.token = Meaning(value)

\* The strings the quoting of renderString does not survive.  An apostrophe at
\* either end runs into the quotes (an odd number of nothing else is told
\* apart).
Merges(s) ==
  /\ s # << >> /\ "'" \in {s[1], s[Len(s)]}
  /\ (\A i \in DOMAIN s : s[i] = "'") => Len(s) % 2 = 0

\* After the quote a blank lets it stand for itself if a bracket follows.
Detaches(s) ==
  /\ s # << >> /\ s[1] = " "
  /\ \E i \in DOMAIN s : s[i] \in Bracket
  /\ \A i \in DOMAIN s : s[i] # "'"

\* Before a delimiter an even number of quotes is the empty string.
Empties(s) ==
  /\ s # << >> /\ s[1] \in Delimiter \ {"nl", "'"}
  /\ QuoteCount(s) % 2 = 0

Lost(s) == Merges(s) \/ Detaches(s) \/ Empties(s)

\* An empty key has quotes only, and so has a key of apostrophes; in compact
\* mode the quotes of the value follow at once.
RunsOn(k, v) ==
  /\ mode = "compact"
  /\ \A i \in DOMAIN k : k[i] = "'"
  /\ v[1] = "string" /\ ~NeedsSpace(v)

RECURSIVE Misread(_)
Misread(v) ==
  CASE v[1] = "string"  -> Lost(v[2])
    [] v[1] = "literal" -> FALSE
    [] v[1] = "array"   -> \E i \in DOMAIN v[2] : Misread(v[2][i])
    [] v[1] = "object"  ->
         \E i \in DOMAIN v[2] : \/ Lost(v[2][i][1]) \/ Misread(v[2][i][2])
                               \/ RunsOn(v[2][i][1], v[2][i][2])

\* Every value comes back from its text, in either mode and however it is laid
\* out, but for the strings above; of those none does that is the whole value.
RoundTrips ==
  phase = "read" =>
    /\ ~Misread(value) => ReadBack
    /\ value[1] = "string" /\ Misread(value) => ~ReadBack

\* convert.go:285: "FromJSON converts JSON to one RON value."
OneValue == phase = "read" => ReadBack
===============================================================================
