------------------------------- MODULE RonStrings -------------------------------
(***************************************************************************)
(* Strings of RON text: how renderString writes one (render.go) and how    *)
(* parse.go scans one.  A text is a sequence of characters, which stand    *)
(* for the classes the two distinguish: "a" is any run of characters       *)
(* without a meaning, "true" a reserved word if it stands alone, and "0" a *)
(* number, "nl" the line feed, which is white space between values and a   *)
(* backslash and an "n" in a string, "dquote" the double quote.            *)
(***************************************************************************)
EXTENDS Naturals, FiniteSets, SequencesExt, FiniteSetsExt

Quotes == {"'", "dquote"}
Blank == {" ", "nl"}
Bracket == {"{", "}", "[", "]"}
Delimiter == Quotes \cup Blank \cup Bracket \cup {","}

\* What looksLikeNumberBytes and the comparisons with literals accept, as far
\* as these characters can spell it.
Literal(token) == token = <<"true">> \/ token = <<"0">>

-------------------------------------------------------------------------------
\* renderString
Structural(s) == s = << >> \/ \E i \in DOMAIN s : s[i] \in Delimiter \ {"nl"}

Escaped(s) ==
  LET e[i \in 0..Len(s)] ==
        IF i = 0 THEN << >>
        ELSE e[i - 1] \o (CASE s[i] = "backslash" -> <<"backslash", "backslash">>
                            [] s[i] = "nl" -> <<"backslash", "n">>
                            [] OTHER       -> <<s[i]>>)
  IN  e[Len(s)]

\* One quote more than the longest run of quotes in the text.
QuoteCount(s) ==
  1 + Max({0} \cup {n \in 1..Len(s) : \E i \in 1..(Len(s) - n + 1) :
                                        \A j \in i..(i + n - 1) : s[j] = "'"})

\* A key stays bare even if it reads like a literal.
RenderString(s, key) ==
  LET text == Escaped(s)
      quote == [i \in 1..QuoteCount(text) |-> "'"]
  IN  IF ~Structural(s) /\ (key \/ ~Literal(text)) THEN text
      ELSE quote \o text \o quote

-------------------------------------------------------------------------------
\* Scanning.  A result is [ok, token, next]; token is what was read, decoded.
Fail == [ok |-> FALSE]
Token(token, next) == [ok |-> TRUE, token |-> token, next |-> next]

\* decodeEscape of the characters there are.
EscapeOf(c) ==
  CASE c \in {"backslash", "dquote"} -> c [] c = "n" -> "nl" [] OTHER -> "none"

EscapeAt(src, i) ==
  IF i + 1 > Len(src) THEN "none" ELSE EscapeOf(src[i + 1])

\* scanTokenEnd and decodeStringSpan in one pass: up to a delimiter.
RECURSIVE ScanToken(_, _, _)
ScanToken(src, i, token) ==
  IF i > Len(src) THEN Token(token, i)
  ELSE IF src[i] = "backslash"
       THEN IF EscapeAt(src, i) = "none" THEN Fail
            ELSE ScanToken(src, i + 2, Append(token, EscapeAt(src, i)))
  ELSE IF src[i] \in Delimiter THEN Token(token, i)
  ELSE ScanToken(src, i + 1, Append(token, src[i]))

\* The run of a character from i on.
Run(src, i, c) ==
  Max({n \in 0..(Len(src) - i + 1) : \A j \in i..(i + n - 1) : src[j] = c})

\* Up to a run of at least count quotes; of a longer run the rest is left.
RECURSIVE ScanQuoted(_, _, _, _, _)
ScanQuoted(src, i, quote, count, token) ==
  IF i > Len(src) THEN Fail
  ELSE IF src[i] = "backslash"
       THEN IF EscapeAt(src, i) = "none" THEN Fail
            ELSE ScanQuoted(src, i + 2, quote, count, Append(token, EscapeAt(src, i)))
  ELSE IF src[i] = "nl" THEN Fail
  ELSE IF src[i] = quote
       THEN LET run == Run(src, i, quote)
            IN  IF run >= count THEN Token(token, i + count)
                ELSE ScanQuoted(src, i + run, quote, count,
                                token \o SubSeq(src, i, i + run - 1))
  ELSE ScanQuoted(src, i + 1, quote, count, Append(token, src[i]))

EndsAt(src, i) == i > Len(src) \/ src[i] \in Delimiter

\* parseQuotedString: an even run of quotes alone is the empty string, some odd
\* ones are a string of apostrophes, any other run opens a string.
ParseQuoted(src, i) ==
  LET quote == src[i]
      count == Run(src, i, quote)
  IN  IF EndsAt(src, i + count) /\ count % 2 = 0 THEN Token(<< >>, i + count)
      ELSE IF EndsAt(src, i + count) /\ quote = "'" /\ count >= 5 /\ (count - 2) % 3 = 0
           THEN Token([j \in 1..((count - 2) \div 3) |-> "'"], i + count)
      ELSE ScanQuoted(src, i + count, quote, count, << >>)

\* Before white space an apostrophe stands for itself if a bracket or the end
\* of the text comes before the next apostrophe.
StandsAlone(src, i) ==
  \/ i = Len(src)
  \/ /\ i < Len(src) /\ src[i + 1] \in Blank
     /\ \A j \in (i + 2)..Len(src) :
          src[j] = "'" => \E l \in (i + 2)..(j - 1) : src[l] \in Bracket

\* parseApostropheValue
ParseApostrophe(src, i) ==
  LET quoted == ParseQuoted(src, i)
  IN  IF StandsAlone(src, i) THEN Token(<<"'">>, i + 1)
      ELSE IF quoted.ok THEN quoted
      ELSE IF EndsAt(src, i + 1) THEN Token(<<"'">>, i + 1)
      ELSE Fail

\* parseKeyCurrent
ParseKey(src, i) ==
  IF i > Len(src) THEN Fail
  ELSE CASE src[i] = ","  -> ScanToken(src, i + 1, <<",">>)
         [] src[i] = "'"  -> ParseApostrophe(src, i)
         [] src[i] = "dquote" -> ParseQuoted(src, i)
         [] src[i] \in Bracket -> Fail
         [] OTHER -> LET t == ScanToken(src, i, << >>)
                     IN  IF t.ok /\ t.next = i THEN Fail ELSE t
===============================================================================
