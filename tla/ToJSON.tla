--------------------------------- MODULE ToJSON ---------------------------------
(***************************************************************************)
(* ToJSONInto (convert.go): the output mode decides which of two readers   *)
(* gets the text, the one that writes as it reads (DirectWriter) or the    *)
(* one that builds a tree (CanonicalReader).  The caller sees one function *)
(* and expects one language.                                               *)
(***************************************************************************)
EXTENDS DirectWriter, RonGrammar

CONSTANT MaxCanonical   \* bound of the model: the lexemes of a canonical text

VARIABLES
  canonical,   \* Mode(Canonical) was given
  answer       \* what the canonical reader answered, << >> before

Canon == INSTANCE CanonicalReader WITH MaxText <- MaxCanonical

\* Texts with words that only the canonical reader looks into go to it alone.
InitCall ==
  /\ Init
  /\ canonical \in BOOLEAN
  /\ IF canonical THEN Len(src) <= MaxCanonical
     ELSE \A i \in DOMAIN src : src[i] \notin NonUnicode \cup NonFinite
  /\ answer = << >>

WriteDirectly == ~canonical /\ Next /\ UNCHANGED <<canonical, answer>>

ReadCanonically ==
  /\ canonical /\ Canon!CanonicalRONToJSON
  /\ UNCHANGED <<canonical, pos, stack, nesting, dst, scratch, depth, tables, phase>>

ToJSONInto == WriteDirectly \/ ReadCanonically

allVars == <<vars, canonical, answer>>

SpecCall == InitCall /\ [][ToJSONInto]_allVars

--------------------------------------------------------------------------------
Returned == IF canonical THEN Canon!Answered ELSE Done

\* JSON, as a JSON reader takes it: an object's members in any order.
Join(texts) ==
  FoldLeft(LAMBDA all, t : IF all = << >> THEN t ELSE all \o Punct(",") \o t,
           << >>, texts)

RECURSIVE JSONTexts(_)
JSONTexts(v) ==
  IF v[1] = "word" THEN { <<v>> }
  ELSE IF v[1] = "array"
       THEN LET choices == [i \in DOMAIN v[2] |-> JSONTexts(v[2][i])]
                picks == {p \in [DOMAIN choices -> UNION {choices[i] : i \in DOMAIN choices}] :
                            \A i \in DOMAIN choices : p[i] \in choices[i]}
            IN  {Punct("[") \o Join(p) \o Punct("]") : p \in picks}
       ELSE LET Named(k) == {<< <<"word", k>> >> \o Punct(":") \o t : t \in JSONTexts(v[2][k])}
                orders == SetToSeqs(DOMAIN v[2])
                picks == UNION {{p \in [DOMAIN o -> UNION {Named(k) : k \in DOMAIN v[2]}] :
                                   \A i \in DOMAIN o : p[i] \in Named(o[i])} : o \in orders}
            IN  {Punct("{") \o Join(p) \o Punct("}") : p \in picks}

\* The direct writer and the tree parser give the same answer to every text: it
\* is accepted by both or by neither, with the same error, and the JSON the
\* one writes, behind what the caller's buffer held, is the value the other
\* reads, duplicates resolved the same way.
AgreesWithParser ==
  Done =>
    LET tree == Parse(src, limit)
    IN  /\ (phase = "ok") = (tree.err = "none")
        /\ (phase = "failed deep") = (tree.err = "deep")
        /\ phase = "ok" => \E text \in JSONTexts(tree.value) : dst = Already \o text

\* MaxNestingDepth n accepts of the well-formed texts exactly those that nest no
\* deeper than n (dropped duplicates included), and says of the others that they
\* are too deep, also after an object without braces was tried and given up.
DepthLimitExact ==
  Done /\ limit > 0 =>
    LET whole == Parse(src, 0)
    IN  whole.err = "none" =>
          phase = IF Nesting(src, whole.value) <= limit THEN "ok" ELSE "failed deep"

\* What the canonical reader accepts means what it means in the other modes,
\* and without a limit it accepts exactly the well-formed texts of which nothing
\* is lost to a duplicate key, every word is a canonical string and every number
\* that is a value is finite.
CanonicalExact == canonical => Canon!SameMeaning /\ Canon!AcceptsExactly

\* A limit only takes answers away, and only those of texts that nest deeper.
\* Of these, the ones that begin with a bracket are reported as too deep, and
\* nothing is that does not nest too deep.
CanonicalLimit == canonical => Canon!LimitRespected /\ Canon!BracketTooDeep

\* convert.go:79: "ErrNestingTooDeep reports a value deeper than MaxNestingDepth."
\* In canonical mode it does not report an object without braces: the attempt at
\* the object forgets which error ended it (canonical_ron.go:59), and the text is
\* then read as one value with something behind it.
TooDeepReported == canonical => Canon!TooDeepReported
================================================================================
