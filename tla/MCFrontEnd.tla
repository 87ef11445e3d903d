------------------------------ MODULE MCFrontEnd ------------------------------
(***************************************************************************)
(* The parser on tokens of every kind, and the front end on all short       *)
(* sources and on longer expressions: against the grammar, against how the  *)
(* tokens read, against arithmetic.                                         *)
(***************************************************************************)
EXTENDS FrontEnd, Spelling, Reading, ParserItems

Name == Token("TOKEN_ID", "x")
One == Token("NUM", "1")
IntName == Token("TOKEN_INT", "int")
Open == Token("LPAREN", "(")
Close == Token("RPAREN", ")")
Curly == Token("LBRACE", "{")
Uncurly == Token("RBRACE", "}")
Comma == Token("TOKEN_COMMA", ",")
Semicolon == Token("TOKEN_SEMICOLON", ";")
Plus == Token("TOKEN_PLUS", "+")
Times == Token("TOKEN_MUL", "*")
Equal == Token("TOKEN_EQUAL", "=")
Same == Token("TOKEN_CEQ", "==")
Not == Token("TOKEN_NOT", "!")
If == Token("TOKEN_IF", "if")
Else == Token("TOKEN_ELSE", "else")
Return == Token("TOKEN_RETURN", "return")
Extern == Token("TOKEN_EXTERN", "extern")

\* every construct is begun: expressions, declarations, functions, conditions
Words == {Name, One, Open, Close, Curly, Uncurly, Comma, Semicolon, Plus, Times,
          Equal, Same}
Beginnings ==
    { <<>>, <<Not>>, <<IntName, Name>>, <<Name, Name>>, <<One, Plus, Name>>,
      <<IntName, Name, Open, IntName, Name>>, <<Extern, IntName, Name, Open>>,
      <<If, Open, One, Close, Curly, Uncurly, Else>>,
      <<If, Open, One, Close, Curly, Uncurly, Else, If, Open, One, Close>>,
      <<Open, IntName, Close, Open, IntName>>, <<Return>>, <<Name, Equal>>,
      <<Name, Same, Name>>, <<Name, Open, One, Comma>> }

Upto(n, chars) == UNION {[1..k -> chars] : k \in 0..n}

\* an operand, an operator and an operand, with or without a blank in between
Gap == {<<>>, <<" ">>}
Operands == {<<"1">>, <<"3">>, <<"-", "1">>, <<"-", " ", "3">>}
Sums == {<<"+">>, <<"-">>, <<"*">>, <<"/">>}
Compares == {<<"<">>, <<"<", "=">>, <<">">>, <<">", "=">>, <<"=", "=">>, <<"!", "=">>}

Pairs(ops) == {a \o g \o o \o h \o b : a, b \in Operands, g, h \in Gap, o \in ops}
Triples == {a \o o \o b \o g \o p \o g \o <<"3">> : a \in {<<"1">>, <<"3">>, <<"-", "3">>},
               b \in {<<" ", "1", " ">>, <<"3", " ">>, <<" ", "-", "1">>}, g \in Gap, o, p \in Sums}

Expressions ==
    Upto(3, {"1", "3", "+", "-", "*", "/", " "}) \cup Pairs(Sums \cup Compares) \cup Triples
Scraps == Upto(4, {"x", "e", "1", ".", "-", "=", "!", "'", "\n"})

Programs == Expressions \cup Scraps
NoStart == {<<>>}
Inequalities == Pairs({<<"!", "=">>})

-----------------------------------------------------------------------------
\* the tokens from a position on, and where each begins
RECURSIVE TokensFrom(_, _), Onwards(_, _)
TokensFrom(s, i) == Onwards(s, Scan(s, i))
Onwards(s, r) == IF r.token.sym = "$end" THEN <<>> ELSE <<r>> \o TokensFrom(s, r.next)
Scanned(t) == [k \in DOMAIN t |-> t[k].token]

\* The tokens come from outside (there is no source to go on in), or from the
\* scanner, which reads a source.
MCInit ==
    \/ Init /\ source = <<>> /\ pos = 0 /\ worth = <<>>
    \/ start = <<>> /\ FInit
FromTokens == pos = 0 /\ Next /\ UNCHANGED <<source, pos, worth>>
FromSource == pos > 0 /\ FNext
MCNext == FromTokens \/ FromSource
MCSpec == MCInit /\ [][MCNext]_fvars /\ WF_fvars(FromTokens)

-----------------------------------------------------------------------------
\* An expression groups as written: + and - loosest, from the left; an operator
\* of the rule "op", which has no precedence, takes the operand directly in
\* front of it and all that follows.
Grouping ==
    result = "accept" /\ Len(Statements) = 1 /\ Statements[1].kind = "exprstmt" =>
        Statements[1].children[1] = Reads(SelectSeq(tokens, LAMBDA t : t # Semicolon))

\* A semicolon outside brackets ends a statement, though the parser may finish
\* one before it has seen what follows: the statements up to some one spell what
\* stands in front of it.
SemicolonEnds ==
    result = "accept" =>
    \A i \in DOMAIN tokens :
        tokens[i] = Semicolon /\ Depth(tokens, i) = 0 =>
        \E n \in 0..Len(Statements) :
            SameText(FlattenSeq([k \in 1..n |-> Spelt[Deepest][Statements[k]]]),
                     Bare(SubSeq(tokens, 1, i - 1)))

\* Whatever tokens come, yyparse ends: it never folds empty or single symbols
\* for ever.
Ends == pos = 0 => <>(result # "running")

-----------------------------------------------------------------------------
Generated == result = "accept" /\ Len(worth) = Len(Statements)

Blanked(s, k) == SubSeq(s, 1, k - 1) \o <<" ">> \o SubSeq(s, k, Len(s))
BlanksIn(t) == \A k \in DOMAIN t : Scanned(TokensFrom(Blanked(source, t[k].next), 1)) = Scanned(t)

\* Tokens do not depend on their surroundings: a blank put behind any of them
\* changes none, in front of it or after it.
BlankNeutral == pos = 1 => BlanksIn(TokensFrom(source, 1))

-----------------------------------------------------------------------------
\* How an expression reads to one who takes every sign for an operator.
Symbol(c) ==
    LET exact == {l \in Range(Literals) : l[1] = c} IN
    IF exact = {} THEN "none" ELSE (CHOOSE l \in exact : TRUE)[2]
RECURSIVE Natural(_)
Natural(s) ==
    IF s = <<>> THEN <<>>
    ELSE IF s[1] \in Blank THEN Natural(Tail(s))
    ELSE LET n == IF s[1] \in Digit
                  THEN Largest({k \in DOMAIN s : Digits(SubSeq(s, 1, k))})
                  ELSE IF Len(s) > 1 /\ s[2] = "=" THEN 2 ELSE 1
             text == Joined(SubSeq(s, 1, n))
         IN << Token(IF s[1] \in Digit THEN "NUM" ELSE Symbol(text), text) >>
              \o Natural(SubSeq(s, n + 1, Len(s)))

\* an expression of numbers and the given operators, signs in front of operands
WellFormed(ts, infix) ==
    /\ ts # <<>> /\ Last(ts).sym = "NUM"
    /\ \A i \in DOMAIN ts :
        /\ ts[i].sym \in infix \cup {"NUM", "TOKEN_PLUS", "TOKEN_MINUS"}
        /\ ts[i].sym = "NUM" /\ i > 1 => ts[i - 1].sym # "NUM"
        /\ ts[i].sym \in infix \ {"TOKEN_PLUS", "TOKEN_MINUS"} => i > 1 /\ ts[i - 1].sym = "NUM"

\* a sign directly in front of a digit, behind an operand
Glued(s) ==
    \E i \in 2..(Len(s) - 1) :
        /\ s[i] \in Sign /\ s[i + 1] \in Digit
        /\ \E j \in 1..(i - 1) : s[j] \in Digit /\ All(SubSeq(s, j + 1, i - 1), Blank)

\* the value in the integers
RECURSIVE Exact(_)
Exact(e) ==
    IF e.kind = "int" THEN atol(source)[e.text]
    ELSE IF e.kind = "un"
    THEN IF e.text = "-" THEN - Exact(e.children[1]) ELSE Exact(e.children[1])
    ELSE LET l == Exact(e.children[1])
             r == Exact(e.children[2])
         IN CASE e.text = "+" -> l + r
              [] e.text = "-" -> l - r
              [] e.text = "*" -> l * r
              [] e.text = "/" -> Quotient(l, r)

RECURSIVE Fits(_)
Fits(e) ==
    /\ Exact(e) \in (- (Modulus("i32") \div 2))..(Modulus("i32") \div 2 - 1)
    /\ \A i \in DOMAIN e.children : Fits(e.children[i])

\* An arithmetic expression compiles to one statement worth what arithmetic says
\* (modulo the width, and exactly where nothing overflows in front of a /),
\* unless a sign stands directly in front of a digit behind an operand: then the
\* scanner takes it for part of the number, and the program is two statements.
ArithmeticHolds ==
    LET ts == Natural(source) IN
    All(source, {"1", "3", "+", "-", "*", "/", " "})
    /\ WellFormed(ts, Arithmetic) =>
        /\ result # "error"
        /\ Generated =>
            IF Glued(source) THEN Len(worth) > 1
            ELSE LET e == Reads(ts) IN
                 /\ Len(worth) = 1
                 /\ (\A t \in Range(ts) : t.sym # "TOKEN_DIV") \/ Fits(e) =>
                        worth[1] = Residue("i32", Exact(e))

Compared(op, a, b) ==
    CASE op = "<" -> a < b [] op = "<=" -> a <= b [] op = ">" -> a > b
      [] op = ">=" -> a >= b [] op = "==" -> a = b [] op = "!=" -> a # b

\* the places of an operator in a comparison of two numbers
Comparison(ts, ops) ==
    {i \in DOMAIN ts : /\ ts[i].text \in ops
                       /\ WellFormed(SubSeq(ts, 1, i - 1), {})
                       /\ WellFormed(SubSeq(ts, i + 1, Len(ts)), {})}

LeftOf(ts, i) == Exact(Reads(SubSeq(ts, 1, i - 1)))
RightOf(ts, i) == Exact(Reads(SubSeq(ts, i + 1, Len(ts))))

\* the program compiles to one bit: the answer to the comparison
AnswersAt(ts, i) == worth = <<Bit(Compared(ts[i].text, LeftOf(ts, i), RightOf(ts, i)))>>

\* A minus apart from the left number takes the whole comparison (Grouping).
TakesAll == Scan(source, 1).token.text = "-"

\* Comparisons of two numbers by ==, <=, >= and > say what they say of integers,
\* with and without signs and blanks; < says so of numbers on one side of zero,
\* for it reads its operands without a sign.
Comparisons ==
    Generated /\ ~ TakesAll =>
    LET ts == Natural(source) IN
    \A i \in Comparison(ts, {"==", "<=", ">=", ">", "<"}) :
        ts[i].text # "<" \/ (LeftOf(ts, i) < 0) = (RightOf(ts, i) < 0) => AnswersAt(ts, i)

\* != tells whether two numbers differ: parser.y lists it among the operators
\* ("= == != < <= > >="), with a token of its own, and BinOpAst::codegen compares
\* for it.  The scanner answers the token of <.
InequalityHolds ==
    Generated /\ ~ TakesAll =>
    LET ts == Natural(source) IN \A i \in Comparison(ts, {"!="}) : AnswersAt(ts, i)
=============================================================================
