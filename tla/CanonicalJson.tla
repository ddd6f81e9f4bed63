------------------------------ MODULE CanonicalJson ------------------------------
(***************************************************************************)
(* canonicalJSON (rfc8785.go): JSON that FromJSON and MarshalJSON bring is *)
(* searched for lone surrogates, decoded without duplicate keys, and its   *)
(* strings are checked.                                                    *)
(*                                                                         *)
(* A document is [k |-> "lit", raw], a number, an array or an object whose *)
(* keys are literals.  raw is what stands between the quotes: characters,  *)
(* "\" and, as one element, the four digits of an escape, by what they are:*)
(* "hi" or "lo" surrogates, "bmp" a character, "nonchar" a noncharacter.   *)
(*                                                                         *)
(* A number is [neg, digits, point], 0.digits * 10^point, its digits the   *)
(* shortest that tell it from its neighbours: the first and the last are   *)
(* not 0, and there are none of 0.                                         *)
(***************************************************************************)
EXTENDS Integers, SequencesExt, FiniteSetsExt

Hex4 == {"hi", "lo", "bmp", "nonchar"}

At(raw, i) == IF i \in DOMAIN raw THEN raw[i] ELSE "\""

\* Behind a high surrogate at i: an escape with a low one.
SecondIsLow(raw, i) == At(raw, i + 2) = "\\" /\ At(raw, i + 3) = "u" /\ At(raw, i + 4) = "lo"

\* The search from element i of a literal on, as the places it stops at.  It
\* looks at what follows a backslash and steps over it.
RECURSIVE LoneFrom(_, _)
LoneFrom(raw, i) ==
  /\ i <= Len(raw)
  /\ IF raw[i] # "\\" THEN LoneFrom(raw, i + 1)
     ELSE IF At(raw, i + 1) # "u" THEN LoneFrom(raw, i + 2)
     ELSE IF At(raw, i + 2) = "hi"
          THEN ~SecondIsLow(raw, i + 1) \/ LoneFrom(raw, i + 6)
     ELSE At(raw, i + 2) = "lo" \/ LoneFrom(raw, i + 3)

\* What the decoder makes of a literal: a lone surrogate becomes U+FFFD.
RECURSIVE Unescape(_)
Unescape(raw) ==
  IF raw = << >> THEN << >>
  ELSE IF raw[1] # "\\" THEN <<97>> \o Unescape(Tail(raw))
  ELSE IF At(raw, 2) # "u" THEN <<92>> \o Unescape(SubSeq(raw, 3, Len(raw)))
  ELSE IF At(raw, 3) = "hi" /\ At(raw, 4) = "\\" /\ At(raw, 5) = "u" /\ At(raw, 6) = "lo"
  THEN <<65536>> \o Unescape(SubSeq(raw, 7, Len(raw)))
  ELSE <<CASE raw[3] = "bmp" -> 57344 [] raw[3] = "nonchar" -> 65535 [] OTHER -> 65533>>
       \o Unescape(SubSeq(raw, 4, Len(raw)))

\* validateCanonicalString.
CanonicalString(text) == \A i \in DOMAIN text : text[i] >= 0 /\ text[i] # 65535

--------------------------------------------------------------------------------
\* The elements of raw that are digits of an escape, by what precedes them: an
\* odd run of backslashes and a u.
Escaped(raw, i) ==
  /\ i > 2 /\ raw[i - 1] = "u" /\ raw[i - 2] = "\\"
  /\ LET run == CHOOSE n \in 1..(i - 2) :
                  /\ \A j \in 1..n : raw[i - 1 - j] = "\\"
                  /\ i - 2 = n \/ raw[i - 2 - n] # "\\"
     IN  run % 2 = 1

\* A surrogate that is not one of a pair, high before low.
IsLone(raw, i) ==
  /\ Escaped(raw, i)
  /\ \/ raw[i] = "hi" /\ ~(i + 3 \in DOMAIN raw /\ Escaped(raw, i + 3) /\ raw[i + 3] = "lo" /\ raw[i + 1] = "\\")
     \/ raw[i] = "lo" /\ ~(i > 3 /\ Escaped(raw, i - 3) /\ raw[i - 3] = "hi")

--------------------------------------------------------------------------------
\* appendRFC8785Number: a float64 as ECMAScript writes it, laid out again from
\* the text of strconv.FormatFloat(value, 'g', -1).
Zeros(n) == [i \in 1..n |-> 0]

\* FormatFloat: a mantissa, its digits before the point, and an exponent.
\* Below 10^-4 and from 10^6 on it writes one digit before the point.
FormatG(value) ==
  LET p == value.point
      d == value.digits
  IN  IF p - 1 < -4 \/ p - 1 >= 6 THEN [digits |-> d, before |-> 1, exponent |-> p - 1]
      ELSE IF p <= 0 THEN [digits |-> Zeros(1 - p) \o d, before |-> 1, exponent |-> 0]
      ELSE [digits |-> d \o Zeros(p - Len(d)), before |-> p, exponent |-> 0]

LeadingZeros(digits) ==
  CHOOSE n \in 0..Len(digits) :
    /\ \A i \in 1..n : digits[i] = 0
    /\ n = Len(digits) \/ digits[n + 1] # 0

\* Mutant: the zeros before the first digit are not counted.
DecimalExpUntrimmed(g) == g.before + g.exponent

DecimalExp(g) == g.before + g.exponent - LeadingZeros(g.digits)

\* The switch over decimalExp, its result as digits before and behind the
\* point and an exponent, << >> for none.
Layout(digits, e) ==
  CASE e > 0 /\ e <= 21 ->
         IF Len(digits) <= e
         THEN [whole |-> digits \o Zeros(e - Len(digits)), part |-> << >>, exp |-> << >>]
         ELSE [whole |-> SubSeq(digits, 1, e), part |-> SubSeq(digits, e + 1, Len(digits)), exp |-> << >>]
    [] e > -6 /\ e <= 0 -> [whole |-> <<0>>, part |-> Zeros(-e) \o digits, exp |-> << >>]
    [] OTHER -> [whole |-> <<digits[1]>>, part |-> Tail(digits), exp |-> <<e - 1>>]

Text(neg, layout) == [neg |-> neg, whole |-> layout.whole, part |-> layout.part, exp |-> layout.exp]

AppendNumber(value) ==
  IF value.digits = << >>
  THEN Text(FALSE, [whole |-> <<0>>, part |-> << >>, exp |-> << >>])
  ELSE LET g == FormatG(value)
           digits == SubSeq(g.digits, LeadingZeros(g.digits) + 1, Len(g.digits))
       IN  Text(value.neg, Layout(digits, DecimalExp(g)))

--------------------------------------------------------------------------------
\* The number a text denotes, its zeros at either end taken off.
Trim(digits) ==
  LET kept == {i \in DOMAIN digits : digits[i] # 0}
      first == CHOOSE i \in kept : \A j \in kept : i <= j
      last == CHOOSE i \in kept : \A j \in kept : j <= i
  IN  IF kept = {} THEN << >> ELSE SubSeq(digits, first, last)

Denotes(text) ==
  LET digits == text.whole \o text.part
  IN  [neg |-> text.neg, digits |-> Trim(digits),
       point |-> IF Trim(digits) = << >> THEN 0
                 ELSE Len(text.whole) - LeadingZeros(digits)
                      + (IF text.exp = << >> THEN 0 ELSE text.exp[1])]
================================================================================
