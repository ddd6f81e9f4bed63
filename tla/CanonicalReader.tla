---------------------------- MODULE CanonicalReader ----------------------------
(***************************************************************************)
(* The reading half of ToJSONInto with Mode(Canonical): canonicalRONToJSON *)
(* reads a text into a tree and reports a value or an error.  The module   *)
(* compares its answers with those of the parser of the other modes.       *)
(***************************************************************************)
EXTENDS RonGrammar

CONSTANTS
  MaxText,    \* bound of the model: the lexemes of a text
  MaxLimit    \* bound of the model: the largest MaxNestingDepth

VARIABLES
  src,       \* the text
  limit,     \* MaxNestingDepth, 0 for none
  answer     \* << >> before the call, then the reading

vars == <<src, limit, answer>>

Init ==
  /\ src \in Texts(MaxText)
  /\ limit \in 0..MaxLimit
  /\ answer = << >>

CanonicalRONToJSON ==
  /\ answer = << >>
  /\ answer' = << CanonicalParse(src, limit) >>
  /\ UNCHANGED <<src, limit>>

Next == CanonicalRONToJSON

Spec == Init /\ [][Next]_vars

-------------------------------------------------------------------------------
Answered == answer # << >>
Accepts == Answered /\ answer[1].err = "none"

\* How many words of the text a value still shows.
RECURSIVE WordsIn(_)
WordsIn(v) ==
  IF v[1] = "word" THEN IF v[2] = "," THEN 0 ELSE 1
  ELSE IF v[1] = "array" THEN FoldLeft(LAMBDA n, w : n + WordsIn(w), 0, v[2])
  ELSE MapThenSumSet(LAMBDA k : (IF k = "," THEN 0 ELSE 1) + WordsIn(v[2][k]),
                     DOMAIN v[2])

WordsOf(text) == Cardinality({i \in DOMAIN text : text[i] \in Word})

\* The words that are values, and not keys, of a value.
RECURSIVE ValueWords(_)
ValueWords(v) ==
  IF v[1] = "word" THEN {v[2]} ELSE UNION {ValueWords(v[2][k]) : k \in DOMAIN v[2]}

\* What the canonical parser accepts means what it means in the other modes.
SameMeaning ==
  Accepts => answer[1] = Parse(src, limit)

\* Without a limit it accepts exactly the well-formed texts of which nothing is
\* lost to a duplicate key, every word is a canonical string and every number is
\* finite: a rejected text is either ill formed, or repeats a key, or holds a
\* refused string, or has for a value a number no float64 holds.
AcceptsExactly ==
  Answered /\ limit = 0 =>
    LET whole == Parse(src, 0)
    IN  Accepts = /\ whole.err = "none"
                  /\ WordsIn(whole.value) = WordsOf(src)
                  /\ \A i \in DOMAIN src : src[i] \notin NonUnicode
                  /\ ValueWords(whole.value) \cap NonFinite = {}

\* A limit only ever takes answers away: what is accepted nests no deeper, and
\* what is accepted without a limit and nests no deeper is accepted with it.
LimitRespected ==
  Answered /\ limit > 0 =>
    LET whole == CanonicalParse(src, 0)
    IN  Accepts = (whole.err = "none" /\ Nesting(src, whole.value) <= limit)

\* A text that would be accepted if it were not for the limit.
DeeperThanLimit ==
  Answered /\ limit > 0 /\
    LET whole == CanonicalParse(src, 0)
    IN  whole.err = "none" /\ Nesting(src, whole.value) > limit

\* A text that begins with a bracket and nests too deep is said to be too deep,
\* and no text whose brackets nest no deeper than the limit is.
BracketTooDeep ==
  LET start == SkipCommas(src, 1)
  IN  /\ DeeperThanLimit /\ Starts(src, start, Open) => answer[1].err = "deep"
      /\ Answered /\ answer[1].err = "deep" =>
           Starts(src, start, Open) /\ limit > 0 /\ BracketDepth(src) > limit

\* convert.go:79: "ErrNestingTooDeep reports a value deeper than MaxNestingDepth."
TooDeepReported == DeeperThanLimit => answer[1].err = "deep"
===============================================================================
