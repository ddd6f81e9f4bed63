------------------------------ MODULE TextMeaning ------------------------------
(***************************************************************************)
(* The JSON a RON text stands for, by rules instead of by a function: the  *)
(* judgements below are those that the steps of the generic parser         *)
(* (parse.go) can reach, and no others.  An object keeps, of the values of *)
(* a key, the last one.                                                    *)
(***************************************************************************)
EXTENDS DirectWriter

\* The positions in a text and the one behind it.
Place(text) == 1..(Len(text) + 1)

Entry == [key : Scanned, json : Seq(Token)]

\* Within d containers the value at i ends before j and is this JSON.
Value(d, i, j, json) == <<"value", d, i, j, json>>

\* The array at i, the d-th of the containers, has these values before j.
ArrayUpTo(d, i, j, values) == <<"array", d, i, j, values>>

\* Likewise an object.  The one without braces is at 0.
ObjectUpTo(d, i, j, entries) == <<"object", d, i, j, entries>>

Judgement(text) ==
  LET At == Place(text)
  IN  {Value(d, i, j, t) : d \in Nat, i \in At, j \in At, t \in Seq(Token)}
        \cup {ArrayUpTo(d, i, j, v) : d \in Nat, i \in At, j \in At, v \in Seq(Seq(Token))}
        \cup {ObjectUpTo(d, i, j, e) : d \in Nat, i \in At \cup {0}, j \in At, e \in Seq(Entry)}

-------------------------------------------------------------------------------
\* JSON texts with commas between them.
Separated(texts) ==
  LET comma(i) == IF i > 1 THEN Punct(",") ELSE << >>
  IN  FlattenSeq([i \in DOMAIN texts |-> comma(i) \o texts[i]])

ArrayText(values) == Punct("[") \o Separated(values) \o Punct("]")

EntryText(e) == << <<"word", e.key>> >> \o Punct(":") \o e.json
EntriesText(entries) ==
  Punct("{") \o Separated([i \in DOMAIN entries |-> EntryText(entries[i])]) \o Punct("}")

\* The last write of a key wins and takes the last place.
Put(entries, k, json) ==
  LET same == {i \in DOMAIN entries : entries[i].key = k}
      others == IF same = {} THEN entries
                ELSE RemoveAt(entries, CHOOSE i \in same : TRUE)
  IN  Append(others, [key |-> k, json |-> json])

\* parseValueCurrent of a word.
WordRule(S, text) ==
  \A d \in Nat, i \in Place(text) :
    IsWord(text, i) => Value(d, i, i + 1, << <<"word", text[i]>> >>) \in S

\* parseValueCurrent of an array: it opens within the limit (enterContainer), a
\* value is followed by separators, and it closes.
ArrayRule(S, text, max) ==
  /\ \A d \in Nat, i \in Place(text) :
       Starts(text, i, {"["}) /\ ~TooDeep(d, max) => ArrayUpTo(d + 1, i, i + 1, << >>) \in S
  /\ \A d \in Nat, i, j, k \in Place(text), v \in Seq(Seq(Token)), t \in Seq(Token) :
       ArrayUpTo(d, i, j, v) \in S /\ Value(d, j, k, t) \in S
         => ArrayUpTo(d, i, SkipCommas(text, k), Append(v, t)) \in S
  /\ \A d \in Nat, i, j \in Place(text), v \in Seq(Seq(Token)) :
       ArrayUpTo(d + 1, i, j, v) \in S /\ Starts(text, j, {"]"})
         => Value(d, i, j + 1, ArrayText(v)) \in S

\* parseValueCurrent of an object, and parseWithMaxDepth of the one without
\* braces, which counts as a level.
ObjectRule(S, text, max) ==
  /\ \A d \in Nat, i \in Place(text) :
       Starts(text, i, {"{"}) /\ ~TooDeep(d, max) => ObjectUpTo(d + 1, i, i + 1, << >>) \in S
  /\ LET start == SkipCommas(text, 1)
     IN  start <= Len(text) /\ ~Starts(text, start, Open)
           => ObjectUpTo(1, 0, start, << >>) \in S
  /\ \A d \in Nat, i \in Place(text) \cup {0}, j, k \in Place(text),
        e \in Seq(Entry), t \in Seq(Token) :
       ObjectUpTo(d, i, j, e) \in S /\ IsWord(text, j) /\ Value(d, j + 1, k, t) \in S
         => ObjectUpTo(d, i, SkipCommas(text, k), Put(e, text[j], t)) \in S
  /\ \A d \in Nat, i, j \in Place(text), e \in Seq(Entry) :
       ObjectUpTo(d + 1, i, j, e) \in S /\ Starts(text, j, {"}"})
         => Value(d, i, j + 1, EntriesText(e)) \in S

Rules(S, text, max) ==
  WordRule(S, text) /\ ArrayRule(S, text, max) /\ ObjectRule(S, text, max)

\* What follows from the rules, and nothing else.
Reads(text, max) ==
  {r \in Judgement(text) : \A S \in SUBSET Judgement(text) : Rules(S, text, max) => r \in S}

\* The text is no object without braces.
NoElided(text, max) == \A e : ObjectUpTo(1, 0, Len(text) + 1, e) \notin Reads(text, max)

\* The JSON of a whole text: an object without braces to its end, or else one
\* value with nothing but separators behind it.
Means(text, max, json) ==
  LET start == SkipCommas(text, 1)
  IN  \/ \E e \in Seq(Entry) :
           ObjectUpTo(1, 0, Len(text) + 1, e) \in Reads(text, max) /\ json = EntriesText(e)
      \/ /\ NoElided(text, max)
         /\ \E j \in Place(text) :
              Value(0, start, j, json) \in Reads(text, max) /\ SkipCommas(text, j) > Len(text)

-------------------------------------------------------------------------------
\* JSON by its own grammar, again the least set: an object has no key twice.
DistinctKeys(entries) ==
  \A i, j \in DOMAIN entries : entries[i].key = entries[j].key => i = j

JsonRules(S) ==
  /\ \A w \in Scanned : << <<"word", w>> >> \in S
  /\ \A v \in Seq(S) : ArrayText(v) \in S
  /\ \A e \in Seq([key : Scanned, json : S]) : DistinctKeys(e) => EntriesText(e) \in S

Json == {t \in Seq(Token) : \A S \in SUBSET Seq(Token) : JsonRules(S) => t \in S}
================================================================================
