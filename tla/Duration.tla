-------------------------------- MODULE Duration --------------------------------
(***************************************************************************)
(* The payload of #dur (vocabulary_time.go, vocabulary.go): a day-time     *)
(* duration, P[nD][T[nH][nM][n[.f]S]], kept in a signed integer of Width   *)
(* bits whose sums and products wrap.                                      *)
(*                                                                         *)
(* A text is a sequence of characters, a run of digits being one of them.  *)
(* The units are those of the code scaled down: a second has one digit of  *)
(* fraction, in base Second, where the code has nine in base ten.          *)
(***************************************************************************)
EXTENDS Integers, Sequences, FiniteSets, TLC

CONSTANTS
  Width,      \* the bits of a duration, 64 in the code
  Second,     \* the ticks of a second, 10^9 in the code
  MaxNumber   \* bound of the model: the largest number in a text

Minute == 3 * Second
Hour == 2 * Minute
Day == 2 * Hour

Least == -(2 ^ (Width - 1))
Most == 2 ^ (Width - 1) - 1

Wrap(x) == ((x - Least) % (2 ^ Width)) + Least

NumberText == {ToString(n) : n \in 0..MaxNumber}
NumberOf(t) == CHOOSE n \in 0..MaxNumber : ToString(n) = t

IsNumber(text, i) == i <= Len(text) /\ text[i] \in NumberText
Is(text, i, c) == i <= Len(text) /\ text[i] = c

Invalid == [ok |-> FALSE, ticks |-> 0]
Valid(ticks) == [ok |-> TRUE, ticks |-> ticks]

UnitOf == [H |-> Hour, M |-> Minute, S |-> Second]

\* What may still follow a component.
After == [H |-> {"M", "S"}, M |-> {"S"}, S |-> {}]

\* The loop over the components behind the T.
RECURSIVE TimeFrom(_, _, _, _)
TimeFrom(text, i, units, total) ==
  IF i > Len(text) THEN Valid(total)
  ELSE IF ~IsNumber(text, i) \/ NumberOf(text[i]) > Most THEN Invalid
  ELSE LET fraction == Is(text, i + 1, ".")
           j == IF fraction THEN i + 3 ELSE i + 1
           part == IF fraction THEN NumberOf(text[i + 2]) ELSE 0
       IN  IF fraction /\ (~IsNumber(text, i + 2) \/ NumberOf(text[i + 2]) >= Second)
           THEN Invalid
           ELSE IF j > Len(text) \/ text[j] \notin units \/ (fraction /\ text[j] # "S")
           THEN Invalid
           ELSE LET ticks == Wrap(NumberOf(text[i]) * UnitOf[text[j]])
                IN  TimeFrom(text, j + 1, After[text[j]],
                             Wrap(Wrap(total + ticks) + part))

ParseUnsigned(text) ==
  LET days == IsNumber(text, 2) /\ Is(text, 3, "D")
      total == IF days THEN Wrap(NumberOf(text[2]) * Day) ELSE 0
      rest == IF days THEN 4 ELSE 2
  IN  IF Len(text) < 2 \/ text[1] # "P" \/ (days /\ NumberOf(text[2]) > Most)
      THEN Invalid
      ELSE IF rest > Len(text) THEN Valid(total)
      ELSE IF text[rest] # "T" \/ rest = Len(text) THEN Invalid
      ELSE TimeFrom(text, rest + 1, {"H", "M", "S"}, total)

\* parseTimePayload, the case of #dur.
ParseDuration(text) ==
  IF Is(text, 1, "-")
  THEN LET d == ParseUnsigned(Tail(text))
       IN  IF d.ok THEN Valid(Wrap(-d.ticks)) ELSE Invalid
  ELSE ParseUnsigned(text)

\* Division of the code truncates toward zero.
Quot(x, unit) == IF x < 0 THEN -((-x) \div unit) ELSE x \div unit

Opt(condition, text) == IF condition THEN text ELSE << >>

Num(n) == << ToString(n) >>

\* Mutant: the fraction of a second is dropped.
RenderWholeSeconds(value) ==
  LET d == Quot(value, Day)
      h == Quot(value - d * Day, Hour)
      m == Quot(value - d * Day - h * Hour, Minute)
      s == Quot(value - d * Day - h * Hour - m * Minute, Second)
  IN  << "P" >> \o Opt(d > 0, Num(d) \o <<"D">>)
      \o Opt(h > 0 \/ m > 0 \/ s > 0 \/ d = 0,
             << "T" >> \o Opt(h > 0, Num(h) \o <<"H">>) \o Opt(m > 0, Num(m) \o <<"M">>)
             \o Opt(s > 0 \/ (h = 0 /\ m = 0), Num(s) \o <<"S">>))

\* The components of a value that is not negative, or that has no negation.
RenderMagnitude(value) ==
  LET d == Quot(value, Day)
      h == Quot(value - d * Day, Hour)
      m == Quot(value - d * Day - h * Hour, Minute)
      s == Quot(value - d * Day - h * Hour - m * Minute, Second)
      f == value - d * Day - h * Hour - m * Minute - s * Second
      seconds == s > 0 \/ f > 0 \/ (h = 0 /\ m = 0 /\ d = 0)
      time == h > 0 \/ m > 0 \/ s > 0 \/ f > 0 \/ d = 0
  IN  << "P" >>
      \o Opt(d > 0, Num(d) \o <<"D">>)
      \o Opt(time, << "T" >>
               \o Opt(h > 0, Num(h) \o <<"H">>)
               \o Opt(m > 0, Num(m) \o <<"M">>)
               \o Opt(seconds, Num(s) \o Opt(f > 0, <<".">> \o Num(f)) \o <<"S">>))

\* typedTaggedMemberWithCustom, the case of a duration.
RenderDuration(value) ==
  IF value < 0 THEN << "-" >> \o RenderMagnitude(Wrap(-value)) ELSE RenderMagnitude(value)

--------------------------------------------------------------------------------
\* What a text says, without a width: every number times its unit.
UnitTicks(c) == IF c = "D" THEN Day ELSE UnitOf[c]

Says(text) ==
  LET at == {i \in 1..(Len(text) - 1) : text[i] \in NumberText /\ text[i + 1] \in {"D", "H", "M", "S"}}
      whole == {i \in at : i = 1 \/ text[i - 1] # "."}
      dotted == {i \in 1..(Len(text) - 1) : text[i] \in NumberText /\ text[i + 1] = "."}
      part == {i \in at : i > 1 /\ text[i - 1] = "."}
      SumOver(S, F(_)) == LET sum[T \in SUBSET S] ==
                            IF T = {} THEN 0
                            ELSE LET i == CHOOSE i \in T : TRUE IN F(i) + sum[T \ {i}]
                          IN  sum[S]
      size == SumOver(whole, LAMBDA i : NumberOf(text[i]) * UnitTicks(text[i + 1]))
              + SumOver(dotted, LAMBDA i : NumberOf(text[i]) * Second)
              + SumOver(part, LAMBDA i : NumberOf(text[i]))
  IN  IF Is(text, 1, "-") THEN -size ELSE size
================================================================================
