------------------------------- MODULE RonLexemes -------------------------------
(***************************************************************************)
(* A RON text as all readers see it (parse.go): a sequence of lexemes with *)
(* white space between them: brackets, commas, plain words and words that  *)
(* cannot be scanned (a bad escape, an open quote).  Where a value or a    *)
(* key is expected a comma is a word too.                                  *)
(***************************************************************************)
EXTENDS Naturals, Sequences

CONSTANTS
  Word,       \* the words that scan
  NonUnicode, \* the words among them that validateCanonicalString refuses
  NonFinite,  \* the words among them that look like numbers, such as 1e999, and
              \* are too large for a float64
  BadWord     \* a word that does not scan

Open  == {"{", "["}
Close == {"}", "]"}
Scanned == Word \cup {","}
Lexeme == Open \cup Close \cup Scanned \cup {BadWord}

\* What parseKeyCurrent and the scalar part of parseValueCurrent accept.
IsWord(src, i) == i <= Len(src) /\ src[i] \in Scanned

Starts(src, i, lexemes) == i <= Len(src) /\ src[i] \in lexemes

\* skipSpace and skipSeparators pass over commas; skipWhitespace does not.
SkipCommas(src, i) ==
  CHOOSE j \in i..(Len(src) + 1) :
    /\ \A l \in i..(j - 1) : src[l] = ","
    /\ j <= Len(src) => src[j] # ","

\* Mutant: one level too many.
TooDeepLate(depth, limit) == limit > 0 /\ depth > limit

\* enterContainer: no limit is 0.
TooDeep(depth, limit) == limit > 0 /\ depth >= limit

\* The texts of at most n lexemes.
Texts(n) == UNION {[1..l -> Lexeme] : l \in 0..n}
================================================================================
