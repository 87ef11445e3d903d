------------------------------ MODULE JsonReader ------------------------------
(***************************************************************************)
(* What the package tool does with a project file: the reader of             *)
(* include/rapidjson/reader.h under its default flags, and the document it   *)
(* reports to, whose stack of values document.h keeps.  A step reads one     *)
(* bracket, sign or word, or one character of a string or a number, and the  *)
(* white space behind it; frames are the calls of ParseObject and ParseArray *)
(* under way.  Of a number only its form is kept, not its value, and         *)
(* exponents too big for a double are left out.                              *)
(***************************************************************************)
EXTENDS Naturals, Sequences, SequencesExt, FiniteSets, TLC

VARIABLES
    text,     \* the characters read: single ones, or text without a special one
    at,       \* the position in it
    frames,   \* the objects and arrays under way: <<kind, values seen in it>>
    expect,   \* what is read next
    token,    \* the string or number under way
    stack,    \* the values of the document that no other value holds
    error     \* the parse error, or none

jvars == <<text, at, frames, expect, token, stack, error>>

kParseErrorNone == ""
Nul == "NUL"
Quote == "\""
Backslash == "\\"
Blank == {" ", "\n", "\r", "\t"}
Digit == {"0", "1", "2", "5", "8"}
Control == {"\n", "\r", "\t", "bs", "ff", "us"}

CharAt(i) == IF i <= Len(text) THEN text[i] ELSE Nul
Peek == CharAt(at)
Skip(t, i) == CHOOSE j \in i..(Len(t) + 1) :
                 (j > Len(t) \/ t[j] \notin Blank) /\ \A k \in i..(j - 1) : t[k] \in Blank
Consume == at' = Skip(text, at + 1)
Advance == at' = at + 1

\* The values of the document; an object holds its names and values in turn.
Value(kind, chars, parts) == [kind |-> kind, chars |-> chars, parts |-> parts]
Scalar(kind) == Value(kind, <<>>, <<>>)

\* Parse of a new text
Parse(t) ==
    /\ text' = t /\ at' = Skip(t, 1) /\ frames' = <<>> /\ token' = <<>> /\ stack' = <<>>
    /\ IF Skip(t, 1) > Len(t) \/ t[Skip(t, 1)] = Nul THEN expect' = "end" /\ error' = "DocumentEmpty"
       ELSE expect' = "value" /\ error' = kParseErrorNone

Reading == error = kParseErrorNone /\ expect # "end"
Fail(code) ==
    /\ error' = code
    /\ UNCHANGED <<at, frames, expect, token, stack>>

\* a handler of the document puts a value on its stack; what follows depends on
\* the call under way
Push(value) == stack' = Append(stack, value)
Container == frames[Len(frames)][1]
Seen == frames[Len(frames)][2]
Behind == IF frames = <<>> THEN "root" ELSE "separator"

-----------------------------------------------------------------------------
\* ParseValue, ParseNull, ParseTrue, ParseFalse
Words == {"null", "true", "false"}
Literal ==
    /\ Reading /\ expect = "value" /\ Peek \in Words
    /\ Push(Scalar(Peek)) /\ Consume /\ expect' = Behind
    /\ UNCHANGED <<frames, token, error>>

StartOf == [c \in {"{", "["} |-> IF c = "{" THEN "object" ELSE "array"]
EndOf == [object |-> "}", array |-> "]"]

\* StartObject and StartArray; a closing bracket may follow at once
Start ==
    /\ Reading /\ expect = "value" /\ Peek \in DOMAIN StartOf
    /\ Push(Scalar(StartOf[Peek])) /\ frames' = Append(frames, <<StartOf[Peek], 0>>)
    /\ Consume /\ expect' = "first"
    /\ UNCHANGED <<token, error>>

\* EndObject and EndArray: the n members or elements leave the stack and become
\* parts of the value below them
\* slip: a member is one value
HeldHalf(n) == n
Held(n) == IF Container = "object" THEN 2 * n ELSE n
Close(n) ==
    LET below == Len(stack) - Held(n) IN
    /\ stack' = Append(SubSeq(stack, 1, below - 1),
                       [stack[below] EXCEPT !.parts = SubSeq(stack, below + 1, Len(stack))])
    /\ frames' = Front(frames)
    /\ Consume /\ expect' = (IF Len(frames) = 1 THEN "root" ELSE "separator")
    /\ UNCHANGED <<token, error>>

Inside == IF Container = "object" THEN "name" ELSE "value"

\* behind the opening bracket
First ==
    /\ Reading /\ expect = "first"
    /\ IF Peek = EndOf[Container] THEN Close(0)
       ELSE expect' = Inside /\ UNCHANGED <<at, frames, token, stack, error>>

MemberName ==
    /\ Reading /\ expect = "name"
    /\ IF Peek = Quote THEN
          /\ token' = <<>> /\ expect' = "key" /\ Advance
          /\ UNCHANGED <<frames, stack, error>>
       ELSE Fail("ObjectMissName")

Colon ==
    /\ Reading /\ expect = "colon"
    /\ IF Peek = ":" THEN Consume /\ expect' = "value" /\ UNCHANGED <<frames, token, stack, error>>
       ELSE Fail("ObjectMissColon")

\* behind a member or an element
Separator ==
    /\ Reading /\ expect = "separator"
    /\ IF Peek = "," THEN
          /\ frames' = [frames EXCEPT ![Len(frames)][2] = @ + 1]
          /\ Consume /\ expect' = Inside /\ UNCHANGED <<token, stack, error>>
       ELSE IF Peek = EndOf[Container] THEN Close(Seen + 1)
       ELSE Fail(IF Container = "object" THEN "ObjectMissCommaOrCurlyBracket" ELSE "ArrayMissCommaOrSquareBracket")

\* Parse: nothing but white space may follow the root
Root ==
    /\ Reading /\ expect = "root"
    /\ IF Peek = Nul THEN expect' = "end" /\ UNCHANGED <<at, frames, token, stack, error>>
       ELSE Fail("DocumentRootNotSingular")

-----------------------------------------------------------------------------
\* ParseString and ParseStringToStream; token holds the characters so far
StringStart ==
    /\ Reading /\ expect = "value" /\ Peek = Quote
    /\ token' = <<>> /\ expect' = "string" /\ Advance
    /\ UNCHANGED <<frames, stack, error>>

InString == Reading /\ expect \in {"key", "string"}

StringEnd ==
    /\ InString /\ Peek = Quote
    /\ Push(Value("string", token, <<>>)) /\ Consume
    /\ expect' = (IF expect = "key" THEN "colon" ELSE Behind) /\ token' = <<>>
    /\ UNCHANGED <<frames, error>>

Put(char, length) ==
    /\ token' = Append(token, char) /\ at' = at + length
    /\ UNCHANGED <<frames, expect, stack, error>>

StringChar ==
    /\ InString /\ Peek \notin {Quote, Backslash}
    /\ IF Peek = Nul THEN Fail("StringMissQuotationMark")
       ELSE IF Peek \in Control THEN Fail("StringEscapeInvalid")
       ELSE Put(Peek, 1)

Escape == [e \in {Quote, Backslash, "/", "b", "f", "n", "r", "t"} |->
    CASE e = "b" -> "bs" [] e = "f" -> "ff" [] e = "n" -> "\n" [] e = "r" -> "\r" [] e = "t" -> "\t"
      [] OTHER -> e]
HexDigit == [c \in {"0", "1", "2", "5", "8", "9", "a", "A", "C", "D", "e", "E", "F"} |->
    CASE c = "0" -> 0 [] c = "1" -> 1 [] c = "2" -> 2 [] c = "5" -> 5 [] c = "8" -> 8 [] c = "9" -> 9
      [] c \in {"a", "A"} -> 10 [] c = "C" -> 12 [] c = "D" -> 13 [] c \in {"e", "E"} -> 14 [] OTHER -> 15]
Hex4At(i) == \A k \in i..(i + 3) : CharAt(k) \in DOMAIN HexDigit
Hex4(i) == 4096 * HexDigit[CharAt(i)] + 256 * HexDigit[CharAt(i + 1)]
           + 16 * HexDigit[CharAt(i + 2)] + HexDigit[CharAt(i + 3)]
Encode(n) ==
    CASE n = 0 -> Nul [] n = 8 -> "bs" [] n = 9 -> "\t" [] n = 10 -> "\n" [] n = 12 -> "ff" [] n = 13 -> "\r"
      [] n = 31 -> "us" [] n = 34 -> Quote [] n = 92 -> Backslash [] OTHER -> "point" \o ToString(n)

Lead == 55296..56319    \* D800..DBFF
Trail == 56320..57343   \* DC00..DFFF
Joined(lead, trail) == 1024 * (lead - 55296) + (trail - 56320) + 65536

StringEscape ==
    /\ InString /\ Peek = Backslash
    /\ LET e == CharAt(at + 1) IN
       IF e \in DOMAIN Escape THEN Put(Escape[e], 2)
       ELSE IF e # "u" THEN Fail("StringEscapeInvalid")
       ELSE IF ~ Hex4At(at + 2) THEN Fail("StringUnicodeEscapeInvalidHex")
       ELSE IF Hex4(at + 2) \notin Lead THEN Put(Encode(Hex4(at + 2)), 6)
       ELSE IF CharAt(at + 6) # Backslash \/ CharAt(at + 7) # "u" THEN Fail("StringUnicodeSurrogateInvalid")
       ELSE IF ~ Hex4At(at + 8) THEN Fail("StringUnicodeEscapeInvalidHex")
       ELSE IF Hex4(at + 8) \notin Trail THEN Fail("StringUnicodeSurrogateInvalid")
       ELSE Put(Encode(Joined(Hex4(at + 2), Hex4(at + 8))), 12)

-----------------------------------------------------------------------------
\* ParseNumber: token says how far it got, read behind what
NumberStart ==
    /\ Reading /\ expect = "value" /\ Peek \notin Words \cup DOMAIN StartOf \cup {Quote}
    /\ expect' = "number" /\ token' = <<"start">>
    /\ UNCHANGED <<at, frames, stack, error>>

\* slip: zeros may lead
ReachedLeading(state, c) ==
    CASE state = "start" /\ c = "-" -> "minus"
      [] state \in {"start", "minus", "int"} /\ c \in Digit -> "int"
      [] state = "int" /\ c = "." -> "point"
      [] state \in {"point", "frac"} /\ c \in Digit -> "frac"
      [] state \in {"int", "frac"} /\ c \in {"e", "E"} -> "exp"
      [] state = "exp" /\ c \in {"+", "-"} -> "sign"
      [] state \in {"exp", "sign", "power"} /\ c \in Digit -> "power"
      [] OTHER -> "over"
Reached(state, c) ==
    CASE state = "start" /\ c = "-" -> "minus"
      [] state \in {"start", "minus"} /\ c = "0" -> "zero"
      [] state \in {"start", "minus", "int"} /\ c \in Digit -> "int"
      [] state \in {"zero", "int"} /\ c = "." -> "point"
      [] state \in {"point", "frac"} /\ c \in Digit -> "frac"
      [] state \in {"zero", "int", "frac"} /\ c \in {"e", "E"} -> "exp"
      [] state = "exp" /\ c \in {"+", "-"} -> "sign"
      [] state \in {"exp", "sign", "power"} /\ c \in Digit -> "power"
      [] OTHER -> "over"

Number ==
    /\ Reading /\ expect = "number"
    /\ LET there == Reached(token[1], Peek) IN
       IF there # "over" THEN token' = <<there>> /\ Advance /\ UNCHANGED <<frames, expect, stack, error>>
       ELSE IF token[1] \in {"start", "minus"} THEN Fail("ValueInvalid")
       ELSE IF token[1] = "point" THEN Fail("NumberMissFraction")
       ELSE IF token[1] \in {"exp", "sign"} THEN Fail("NumberMissExponent")
       ELSE /\ Push(Scalar("number")) /\ at' = Skip(text, at) /\ expect' = Behind /\ token' = <<>>
            /\ UNCHANGED <<frames, error>>

JNext ==
    /\ \/ Literal \/ Start \/ First \/ MemberName \/ Colon \/ Separator \/ Root
       \/ StringStart \/ StringEnd \/ StringChar \/ StringEscape \/ NumberStart \/ Number
    /\ UNCHANGED text

-----------------------------------------------------------------------------
\* What an object or array under way has read in full, and what of the member or
\* element it is at: of a member its name, then its value.
InFull(i) == IF frames[i][1] = "object" THEN 2 * frames[i][2] ELSE frames[i][2]
InPart(i) ==
    IF i < Len(frames) THEN IF frames[i][1] = "object" THEN 1 ELSE 0
    ELSE CASE expect = "separator" -> IF frames[i][1] = "object" THEN 2 ELSE 1
           [] expect = "colon" -> 1
           [] expect \in {"value", "string", "number"} -> IF frames[i][1] = "object" THEN 1 ELSE 0
           [] OTHER -> 0
NamesIn(i) == frames[i][2] + IF InPart(i) = 0 THEN 0 ELSE 1

\* Each one under way has its own value on the stack, behind it what was read in
\* it, and behind that the value of the one inside it.
Owns(places, i) ==
    /\ stack[places[i]] = Scalar(frames[i][1])
    /\ \A j \in 1..(i - 1) : places[j] < places[i]
    /\ places[i] + 1 + InFull(i) + InPart(i)
           = IF i < Len(frames) THEN places[i + 1] ELSE Len(stack) + 1
    /\ frames[i][1] = "object" =>
           \A n \in 1..NamesIn(i) : stack[places[i] + 2 * n - 1].kind = "string"
Laid(places) == places[1] = 1 /\ \A i \in DOMAIN frames : Owns(places, i)

\* A finished object holds a name in front of every value.
Paired(value) ==
    value.kind = "object" =>
        \E n \in 0..Len(value.parts) :
            /\ Len(value.parts) = 2 * n
            /\ \A m \in 1..n : value.parts[2 * m - 1].kind = "string"

\* The values of the document and the calls under way agree: every object and
\* array under way has its own value and what was read in it on the stack, so
\* that EndObject takes its own members and no one else's, names and values in
\* turn; and what was read to its end is one value.
StackAccounts ==
    /\ IF frames = <<>>
       THEN Len(stack) = IF expect = "root" \/ (expect = "end" /\ error = kParseErrorNone)
                         THEN 1 ELSE 0
       ELSE \E places \in [DOMAIN frames -> DOMAIN stack] : Laid(places)
    /\ \A k \in DOMAIN stack : Paired(stack[k])
=============================================================================
