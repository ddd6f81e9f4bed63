------------------------------ MODULE DirectWriter ------------------------------
(***************************************************************************)
(* ToJSONInto in the modes that are not canonical (convert.go,             *)
(* json_direct.go): RON is written as JSON while it is being read, without *)
(* a tree in between.  The recursion is a stack of open containers.  The   *)
(* text of an object's member values goes to a scratch buffer of its own,  *)
(* because a later duplicate may drop a member; an array writes straight   *)
(* to the buffer of its container.  A text that does not start with a      *)
(* bracket is first read as an object without braces; unless that fails    *)
(* for its depth, the reader then goes back and reads one value.           *)
(*                                                                         *)
(* JSON output is a sequence of tokens; <<"word", w>> is a scalar.         *)
(***************************************************************************)
EXTENDS RonLexemes, FiniteSets, SequencesExt

CONSTANTS
  MaxText,    \* bound of the model: the lexemes of a text
  MaxLimit    \* bound of the model: the largest MaxNestingDepth

ASSUME WriterAssumption == MaxText \in Nat /\ MaxLimit \in Nat

VARIABLES
  src,        \* the text
  limit,      \* MaxNestingDepth, 0 for none
  pos,        \* parser.pos
  stack,      \* the containers being read, innermost last
  nesting,    \* parser.nestingDepth
  dst,        \* the caller's buffer
  scratch,    \* parser.jsonScratch: the buffers
  depth,      \* parser.jsonScratchDepth: how many of them are in use
  tables,     \* parser.jsonMemberScratchDepth
  phase       \* "start", "elided" or "value" (what is being read), "end" (the
              \* value is read), an error that unwinds the stack, or the result

vars == <<src, limit, pos, stack, nesting, dst, scratch, depth, tables, phase>>

Already == << <<"already">> >>    \* what the caller had in the buffer

NoKey == "no key"

\* A word is no bracket; that no key is being read is no word either.
ASSUME WordAssumption == Word \cap (Open \cup Close \cup {NoKey}) = {}

Punct(c) == << <<c>> >>

\* Nothing is read yet.
Unread ==
  /\ pos = 1
  /\ stack = << >>
  /\ nesting = 0
  /\ dst = Already
  /\ scratch = << >>
  /\ depth = 0
  /\ tables = 0
  /\ phase = "start"

Init == src \in Texts(MaxText) /\ limit \in 0..MaxLimit /\ Unread

-------------------------------------------------------------------------------
Reading == phase \in {"value", "elided"}
Top == stack[Len(stack)]
Outer == SubSeq(stack, 1, Len(stack) - 1)

InObject == stack # << >> /\ Top.kind # "array"
InArray  == stack # << >> /\ Top.kind = "array"

\* A value is due: at the top of the text, in an array, or after a key.
ValueDue ==
  \/ stack = << >> /\ phase = "value"
  \/ InArray
  \/ InObject /\ Top.key # NoKey

\* Buffer 0 is dst.  The value being read goes to the scratch buffer of the
\* object it is a member of, else to the buffer its array writes to.
Target == IF stack = << >> THEN 0 ELSE IF InObject THEN Top.own ELSE Top.out

Bytes(b) == IF b = 0 THEN dst ELSE scratch[b]

Write(b, tokens) ==
  IF b = 0 THEN /\ dst' = dst \o tokens
                /\ UNCHANGED scratch
           ELSE /\ scratch' = [scratch EXCEPT ![b] = @ \o tokens]
                /\ UNCHANGED dst

\* Mutant: the stack of buffers does not grow.
ScratchInPlace ==
  IF depth = Len(scratch) THEN scratch ELSE [scratch EXCEPT ![depth + 1] = << >>]

\* nextJSONScratch: the next buffer of the stack, reset.
NextScratch ==
  IF depth = Len(scratch) THEN Append(scratch, << >>)
  ELSE [scratch EXCEPT ![depth + 1] = << >>]

\* Mutant: the first write wins.
SetFirst(members, k, from, to) ==
  IF \E i \in DOMAIN members : members[i].key = k THEN members
  ELSE Append(members, [key |-> k, start |-> from, end |-> to])

\* jsonMembers.Set, as JsonMembers shows it to behave: last write wins.
SetMember(members, k, from, to) ==
  LET same == {i \in DOMAIN members : members[i].key = k}
      others == IF same = {} THEN members
                ELSE RemoveAt(members, CHOOSE i \in same : TRUE)
  IN  Append(others, [key |-> k, start |-> from, end |-> to])

\* writeJSONObjectMembers.
MemberText(m, bytes) ==
  << <<"word", m.key>> >> \o Punct(":") \o SubSeq(bytes, m.start + 1, m.end)

ObjectText(members, bytes) ==
  LET comma(i) == IF i > 1 THEN Punct(",") ELSE << >>
      texts == [i \in DOMAIN members |-> comma(i) \o MemberText(members[i], bytes)]
  IN  Punct("{") \o FlattenSeq(texts) \o Punct("}")

-------------------------------------------------------------------------------
\* A value is written, its container takes it in, the separators behind it are
\* skipped, and an array that goes on writes its comma.  frames is the stack
\* without the value's own frame.
Deliver(frames, target, text, next) ==
  LET n == Len(frames)
      top == frames[n]
      after == IF n = 0 THEN next ELSE SkipCommas(src, next)
      array == n > 0 /\ top.kind = "array"
      goesOn == array /\ after <= Len(src) /\ src[after] # "]"
      end == Len(Bytes(target)) + Len(text)
      taken == [top EXCEPT !.key = NoKey,
                  !.members = SetMember(@, top.key, top.from, end)]
  IN  /\ Write(target, IF goesOn THEN text \o Punct(",") ELSE text)
      /\ pos' = after
      /\ stack' = IF n = 0 \/ array THEN frames ELSE [frames EXCEPT ![n] = taken]
      /\ phase' = IF n = 0 THEN "end" ELSE phase

Fail(err) ==
  /\ phase' = err
  /\ UNCHANGED <<src, limit, pos, stack, nesting, dst, scratch, depth, tables>>

ObjectFrame(kind, out) ==
  [kind |-> kind, out |-> out, own |-> depth + 1, members |-> << >>,
   key |-> NoKey, from |-> 0]

\* toJSONIntoState: which way the text starts.
StartText ==
  /\ phase = "start"
  /\ LET start == SkipCommas(src, 1)
         elided == start <= Len(src) /\ ~Starts(src, start, Open)
     IN  /\ pos' = start
         /\ phase' = IF elided THEN "elided" ELSE "value"
         /\ IF elided
            THEN /\ nesting' = 1
                 /\ stack' = << ObjectFrame("elided", 0) >>
                 /\ scratch' = NextScratch
                 /\ depth' = depth + 1
                 /\ tables' = tables + 1
            ELSE UNCHANGED <<nesting, stack, scratch, depth, tables>>
  /\ UNCHANGED <<src, limit, dst>>

\* A key, in an object or in the text without braces.
ReadKey ==
  /\ Reading /\ InObject /\ Top.key = NoKey
  /\ IsWord(src, pos)
  /\ stack' = [stack EXCEPT ![Len(stack)].key = src[pos],
                            ![Len(stack)].from = Len(Bytes(Top.own))]
  /\ pos' = pos + 1
  /\ UNCHANGED <<src, limit, nesting, dst, scratch, depth, tables, phase>>

BadKey ==
  /\ Reading /\ InObject /\ Top.key = NoKey
  /\ ~IsWord(src, pos)
  /\ Top.kind = "object" => ~Starts(src, pos, {"}"})
  /\ Top.kind = "elided" => pos <= Len(src)
  /\ Fail("syntax")

WriteWord ==
  /\ Reading /\ ValueDue
  /\ IsWord(src, pos)
  /\ Deliver(stack, Target, << <<"word", src[pos]>> >>, pos + 1)
  /\ UNCHANGED <<src, limit, nesting, depth, tables>>

\* Mutant: a closing bracket is never reported.
BracketPasses ==
  /\ Reading /\ ValueDue
  /\ ~IsWord(src, pos) /\ ~Starts(src, pos, Open)
  /\ ~Starts(src, pos, {"]"})
  /\ Fail("syntax")

\* No value where one is due: the end, a closing bracket, a bad word.  In an
\* array the closing bracket is its end.
BadValue ==
  /\ Reading /\ ValueDue
  /\ ~IsWord(src, pos) /\ ~Starts(src, pos, Open)
  /\ ~(InArray /\ Starts(src, pos, {"]"}))
  /\ Fail("syntax")

TooDeepValue ==
  /\ Reading /\ ValueDue
  /\ Starts(src, pos, Open) /\ TooDeep(nesting, limit)
  /\ Fail("deep")

OpenObject ==
  /\ Reading /\ ValueDue
  /\ Starts(src, pos, {"{"}) /\ ~TooDeep(nesting, limit)
  /\ scratch' = NextScratch
  /\ depth' = depth + 1
  /\ tables' = tables + 1
  /\ nesting' = nesting + 1
  /\ stack' = Append(stack, ObjectFrame("object", Target))
  /\ pos' = pos + 1
  /\ UNCHANGED <<src, limit, dst, phase>>

OpenArray ==
  /\ Reading /\ ValueDue
  /\ Starts(src, pos, {"["}) /\ ~TooDeep(nesting, limit)
  /\ Write(Target, IF pos = Len(src) THEN << >> ELSE Punct("["))
  /\ nesting' = nesting + 1
  /\ stack' = Append(stack, [kind |-> "array", out |-> Target])
  /\ pos' = pos + 1
  /\ UNCHANGED <<src, limit, depth, tables, phase>>

CloseArray ==
  /\ Reading /\ InArray
  /\ Starts(src, pos, {"]"})
  /\ Deliver(Outer, Top.out, Punct("]"), pos + 1)
  /\ nesting' = nesting - 1
  /\ UNCHANGED <<src, limit, depth, tables>>

\* The members are written behind each other, and the scratch is given back.
CloseObject ==
  /\ Reading /\ InObject /\ Top.kind = "object" /\ Top.key = NoKey
  /\ Starts(src, pos, {"}"})
  /\ Deliver(Outer, Top.out, ObjectText(Top.members, scratch[Top.own]), pos + 1)
  /\ depth' = depth - 1
  /\ tables' = tables - 1
  /\ nesting' = nesting - 1
  /\ UNCHANGED <<src, limit>>

\* The end of a text without braces is the end of its object.
FinishElided ==
  /\ phase = "elided" /\ Len(stack) = 1 /\ Top.key = NoKey
  /\ pos > Len(src)
  /\ Write(0, ObjectText(Top.members, scratch[Top.own]))
  /\ depth' = depth - 1
  /\ tables' = tables - 1
  /\ stack' = << >>
  /\ phase' = "ok"
  /\ UNCHANGED <<src, limit, pos, nesting>>

\* After the single value only separators may follow.
FinishValue ==
  /\ phase = "end"
  /\ pos' = SkipCommas(src, pos)
  /\ phase' = IF pos' > Len(src) THEN "ok" ELSE "failed syntax"
  /\ UNCHANGED <<src, limit, stack, nesting, dst, scratch, depth, tables>>

-------------------------------------------------------------------------------
Unwinding == phase \in {"syntax", "deep"}

\* Mutant: the error path keeps the scratch.
UnwindKeeping ==
  /\ Unwinding /\ stack # << >> /\ Top.kind # "elided"
  /\ stack' = Outer
  /\ nesting' = nesting - 1
  /\ UNCHANGED <<src, limit, pos, dst, scratch, depth, tables, phase>>

\* An error leaves a container: its scratch and its level are given back.
UnwindContainer ==
  /\ Unwinding /\ stack # << >> /\ Top.kind # "elided"
  /\ stack' = Outer
  /\ nesting' = nesting - 1
  /\ IF Top.kind = "object" THEN depth' = depth - 1 /\ tables' = tables - 1
                            ELSE UNCHANGED <<depth, tables>>
  /\ UNCHANGED <<src, limit, pos, dst, scratch, phase>>

\* The object without braces failed for its depth: that is the result.
ElidedTooDeep ==
  /\ phase = "deep" /\ stack # << >> /\ Top.kind = "elided"
  /\ stack' = << >>
  /\ depth' = depth - 1
  /\ tables' = tables - 1
  /\ phase' = "failed deep"
  /\ UNCHANGED <<src, limit, pos, nesting, dst, scratch>>

\* It failed otherwise: back to the start, to read a single value.
FallBack ==
  /\ phase = "syntax" /\ stack # << >> /\ Top.kind = "elided"
  /\ stack' = << >>
  /\ depth' = depth - 1
  /\ tables' = tables - 1
  /\ dst' = SubSeq(dst, 1, Len(Already))
  /\ pos' = SkipCommas(src, 1)
  /\ nesting' = 0
  /\ phase' = "value"
  /\ UNCHANGED <<src, limit, scratch>>

GiveUp ==
  /\ Unwinding /\ stack = << >>
  /\ phase' = IF phase = "deep" THEN "failed deep" ELSE "failed syntax"
  /\ UNCHANGED <<src, limit, pos, stack, nesting, dst, scratch, depth, tables>>

Next ==
  \/ StartText
  \/ ReadKey \/ BadKey
  \/ WriteWord \/ BadValue \/ TooDeepValue
  \/ OpenObject \/ OpenArray \/ CloseArray \/ CloseObject
  \/ FinishElided \/ FinishValue
  \/ UnwindContainer \/ ElidedTooDeep \/ FallBack \/ GiveUp

Spec == Init /\ [][Next]_vars /\ WF_vars(Next)

-------------------------------------------------------------------------------
Results == {"ok", "failed syntax", "failed deep"}
Done == phase \in Results

-------------------------------------------------------------------------------
Punctuation == {<<c>> : c \in Open \cup Close \cup {",", ":", "already"}}
Token == Punctuation \cup {<<"word", w>> : w \in Scanned}
Member == [key : Scanned, start : Nat, end : Nat]
Frame ==
  [kind : {"object", "elided"}, out : Nat, own : Nat, members : Seq(Member),
   key : Scanned \cup {NoKey}, from : Nat]
    \cup [kind : {"array"}, out : Nat]

\* The types of the writer's state.
TypeOK ==
  /\ src \in Seq(Lexeme) /\ limit \in Nat
  /\ pos \in 1..(Len(src) + 1)
  /\ stack \in Seq(Frame)
  /\ dst \in Seq(Token) /\ scratch \in Seq(Seq(Token))
  /\ nesting \in Nat /\ depth \in 0..Len(scratch) /\ tables \in Nat
  /\ phase \in {"start", "elided", "value", "end", "syntax", "deep"} \cup Results

\* Each object being read has a scratch buffer and a member table of its own,
\* in the order of the nesting, on every path through the errors; when the call
\* returns all are given back.
Objects(n) == {i \in 1..n : stack[i].kind # "array"}
ScratchBalanced ==
  /\ depth = Cardinality(Objects(Len(stack))) /\ tables = depth
  /\ \A i \in Objects(Len(stack)) : stack[i].own = Cardinality(Objects(i))

\* A container never writes to a buffer that an object inside it owns: what an
\* object has collected cannot be overwritten by its parent.
WritesOutward ==
  \A i, j \in DOMAIN stack :
    i <= j /\ stack[j].kind # "array" => stack[i].out < stack[j].own

\* The nesting the limit is compared with is the nesting of the text, the brace
\* less object included, whatever was unwound.
NestingCounted == Reading => nesting = Len(stack)

\* Reading the object without braces leaves no trace in the caller's buffer
\* until it has succeeded.
ElidedLeavesNoTrace == phase = "elided" => dst = Already

\* What the caller had in the buffer stays in front of whatever is written.
CallersBytesKept == Len(dst) >= Len(Already) /\ SubSeq(dst, 1, Len(Already)) = Already

\* The members of an object are pieces of what its buffer holds, so none is cut
\* out of a buffer that was reset or that is shorter.
MembersInBuffer ==
  \A i \in Objects(Len(stack)) :
    LET held == Len(scratch[stack[i].own])
    IN  /\ stack[i].from <= held
        /\ \A m \in DOMAIN stack[i].members :
             /\ stack[i].members[m].start <= stack[i].members[m].end
             /\ stack[i].members[m].end <= held

\* Every text is answered.
Answered == <>Done

\* Whatever path a call takes, through errors and through the object without
\* braces that was tried in vain: buffers, tables, nesting and output are those
\* of the objects that are being read.
UnwindsExactly ==
  /\ ScratchBalanced /\ WritesOutward /\ NestingCounted
  /\ ElidedLeavesNoTrace /\ CallersBytesKept /\ MembersInBuffer
===============================================================================
