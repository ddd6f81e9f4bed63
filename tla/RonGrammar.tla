------------------------------- MODULE RonGrammar -------------------------------
(***************************************************************************)
(* What a RON text means, as the generic parser (parse.go) and the         *)
(* canonical one (canonical_ron.go) read it.                               *)
(*                                                                         *)
(* A reading is a record: err says how it went ("none", "syntax", "deep"   *)
(* for ErrNestingTooDeep), next is the position behind what was read.      *)
(* A value is <<"word", w>>, <<"array", sequence>> or                      *)
(* <<"object", function from keys to values>>.                             *)
(***************************************************************************)
EXTENDS RonLexemes, FiniteSets, SequencesExt, FiniteSetsExt

\* The canonical parser also validates the words.
Accepted(src, i, canonical) ==
  IsWord(src, i) /\ (canonical => src[i] \notin NonUnicode)

\* A word that is a value and looks like a number must be one to the canonical
\* parser; as a key it is a string.
AcceptedValue(src, i, canonical) ==
  Accepted(src, i, canonical) /\ (canonical => src[i] \notin NonFinite)

Read(value, next) == [err |-> "none", value |-> value, next |-> next]
Failed(err) == [err |-> err]

NoMembers == [k \in {} |-> << >>]

\* parseValueCurrent and parseCanonicalValueCurrent; a canonical object must
\* not repeat a key.
RECURSIVE ValueAt(_, _, _, _, _)
RECURSIVE MembersFrom(_, _, _, _, _, _)
RECURSIVE ElementsFrom(_, _, _, _, _, _)

ValueAt(src, i, depth, limit, canonical) ==
  IF Starts(src, i, Open)
  THEN IF TooDeep(depth, limit) THEN Failed("deep")
       ELSE IF src[i] = "{"
            THEN MembersFrom(src, i + 1, depth + 1, limit, canonical, NoMembers)
            ELSE ElementsFrom(src, i + 1, depth + 1, limit, canonical, << >>)
  ELSE IF AcceptedValue(src, i, canonical) THEN Read(<<"word", src[i]>>, i + 1)
  ELSE Failed("syntax")

MembersFrom(src, i, depth, limit, canonical, sofar) ==
  IF Starts(src, i, {"}"}) THEN Read(<<"object", sofar>>, i + 1)
  ELSE IF ~Accepted(src, i, canonical) \/ (canonical /\ src[i] \in DOMAIN sofar)
       THEN Failed("syntax")
  ELSE LET v == ValueAt(src, i + 1, depth, limit, canonical)
       IN  IF v.err # "none" THEN v
           ELSE MembersFrom(src, SkipCommas(src, v.next), depth, limit, canonical,
                            (src[i] :> v.value) @@ sofar)

ElementsFrom(src, i, depth, limit, canonical, sofar) ==
  IF Starts(src, i, {"]"}) THEN Read(<<"array", sofar>>, i + 1)
  ELSE LET v == ValueAt(src, i, depth, limit, canonical)
       IN  IF v.err # "none" THEN v
           ELSE ElementsFrom(src, SkipCommas(src, v.next), depth, limit, canonical,
                             Append(sofar, v.value))

\* A whole text without the braces of its object.  canonical_ron.go reports
\* every failure the same way, parse.go keeps the two apart.
RECURSIVE ElidedFrom(_, _, _, _, _)
ElidedFrom(src, i, limit, canonical, sofar) ==
  IF i > Len(src) THEN Read(<<"object", sofar>>, i)
  ELSE IF ~Accepted(src, i, canonical) THEN Failed("syntax")
  ELSE LET v == ValueAt(src, i + 1, 1, limit, canonical)
       IN  IF v.err # "none" THEN (IF canonical THEN Failed("syntax") ELSE v)
           ELSE IF canonical /\ src[i] \in DOMAIN sofar THEN Failed("syntax")
           ELSE ElidedFrom(src, SkipCommas(src, v.next), limit, canonical,
                           (src[i] :> v.value) @@ sofar)

\* One value and nothing behind it.
SingleValue(src, limit, canonical) ==
  LET v == ValueAt(src, SkipCommas(src, 1), 0, limit, canonical)
  IN  IF v.err = "none" /\ SkipCommas(src, v.next) <= Len(src)
      THEN Failed("syntax") ELSE v

\* A text that does not start with a bracket is first tried as an object
\* without braces, and then as a single value.
ReadText(src, limit, canonical) ==
  LET start == SkipCommas(src, 1)
      elided == ElidedFrom(src, start, limit, canonical, NoMembers)
  IN  IF start <= Len(src) /\ ~Starts(src, start, Open) /\ elided.err # "syntax"
      THEN elided
      ELSE SingleValue(src, limit, canonical)

\* parseWithMaxDepth.
Parse(src, limit) == ReadText(src, limit, FALSE)

\* The reading part of canonicalRONToJSON.
CanonicalParse(src, limit) == ReadText(src, limit, TRUE)

-------------------------------------------------------------------------------
\* How deep the brackets of a text nest.
BracketDepth(src) ==
  LET opened(n) == Cardinality({i \in 1..n : src[i] \in Open})
      closed(n) == Cardinality({i \in 1..n : src[i] \in Close})
  IN  Max({opened(n) - closed(n) : n \in 0..Len(src)})

\* How deep a text nests that says value, counting an object without braces.
Nesting(src, value) ==
  LET elided == value[1] = "object" /\ ~Starts(src, SkipCommas(src, 1), Open)
  IN  BracketDepth(src) + (IF elided THEN 1 ELSE 0)
===============================================================================
