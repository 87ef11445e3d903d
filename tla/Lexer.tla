--------------------------------- MODULE Lexer ---------------------------------
(***************************************************************************)
(* The scanner: the rules of src/src/lex.l as yyFlexLexer::yylex of         *)
(* lex.yy.cpp applies them.  The longest match counts, and among the rules  *)
(* that match as much the first.  The source is a sequence of characters.   *)
(* The keywords of the language are Chinese words; here they are written    *)
(* int, return, extern, if and else, of letters like any name.              *)
(***************************************************************************)
LOCAL INSTANCE Integers
LOCAL INSTANCE SequencesExt
LOCAL INSTANCE Sequences

Joined(chars) == FoldLeft(LAMBDA text, c : text \o c, "", chars)

Digit == {"0", "1", "2", "3", "4", "5", "6", "7", "8", "9"}
Letter == {"a", "e", "i", "f", "n", "r", "t", "u", "x", "_"}
Sign == {"+", "-"}
Blank == {" ", "\n"}
Quote == {"\"", "'"}

\* The rules that match one text, in the order of lex.l; != is a token that also
\* stands for <.
Literals == <<
    <<";", "TOKEN_SEMICOLON">>, <<",", "TOKEN_COMMA">>, <<"(", "LPAREN">>, <<")", "RPAREN">>,
    <<"]", "RBRACKET">>, <<"[", "LBRACKET">>, <<"{", "LBRACE">>, <<"}", "RBRACE">>,
    <<"+", "TOKEN_PLUS">>, <<"-", "TOKEN_MINUS">>, <<"*", "TOKEN_MUL">>, <<"/", "TOKEN_DIV">>,
    <<"==", "TOKEN_CEQ">>, <<"=", "TOKEN_EQUAL">>, <<"!=", "TOKEN_NLT">>, <<"<", "TOKEN_NLT">>,
    <<"<=", "TOKEN_NLE">>, <<">", "TOKEN_NGT">>, <<">=", "TOKEN_NGE">>, <<"^", "TOKEN_XOR">>,
    <<"%", "TOKEN_MOD">>, <<"<<", "TOKEN_SHL">>, <<">>", "TOKEN_SHR">>, <<"&&", "TOKEN_AND">>,
    <<"||", "TOKEN_OR">>, <<"if", "TOKEN_IF">>, <<"else", "TOKEN_ELSE">>, <<".", "TOKEN_DOT">>,
    <<"!", "TOKEN_NOT">>, <<"int", "TOKEN_INT">>, <<"return", "TOKEN_RETURN">>,
    <<"extern", "TOKEN_EXTERN">> >>

All(w, S) == \A i \in DOMAIN w : w[i] \in S
Unsigned(w) == IF w # <<>> /\ w[1] \in Sign THEN Tail(w) ELSE w
Digits(w) == w # <<>> /\ All(w, Digit)

\* slip: a text may go on to the end of the source
StringOpen(w) == Len(w) > 1 /\ w[1] \in Quote /\ \A i \in 2..(Len(w) - 1) : w[i] \notin {"\"", "\n"}

\* (\"[^"\n]*\"|\'[^"\n]*\'): a single quote may stand inside single quotes
String(w) ==
    /\ Len(w) > 1 /\ w[1] \in Quote /\ Last(w) = w[1]
    /\ \A i \in 2..(Len(w) - 1) : w[i] \notin {"\"", "\n"}

\* [-+]?\d+\.\d* or \d+\.?\d*[eE][-+]?\d+: only the first may have a sign
Float(w) ==
    \/ \E i \in DOMAIN w :
          w[i] = "." /\ Digits(Unsigned(SubSeq(w, 1, i - 1))) /\ All(SubSeq(w, i + 1, Len(w)), Digit)
    \/ \E i \in DOMAIN w :
          LET mantissa == SubSeq(w, 1, i - 1)
              dots == SelectSeq(mantissa, LAMBDA c : c = ".")
          IN /\ w[i] = "e" /\ Digits(Unsigned(SubSeq(w, i + 1, Len(w))))
             /\ mantissa # <<>> /\ mantissa[1] # "." /\ Len(dots) <= 1
             /\ All(mantissa, Digit \cup {"."})

\* slip: a number has no sign
NumUnsigned(w) == Digits(w)

\* [-+]?[0-9]+: a sign in front of a digit is part of the number
Num(w) == Digits(Unsigned(w))

Id(w) == w # <<>> /\ w[1] \in Letter /\ All(w, Letter \cup Digit)

\* What the first rule that matches a whole word makes of it: a token, nothing
\* (the last rule, which takes any one character), or there is no such rule.
Ignored == [sym |-> "ignored", text |-> ""]
Unmatched == [sym |-> "unmatched", text |-> ""]

RuleOf(w) ==
    LET text == Joined(w)
        exact == {l \in Range(Literals) : l[1] = text}
        answer(sym) == [sym |-> sym, text |-> text]
    IN IF exact # {} THEN answer((CHOOSE l \in exact : TRUE)[2])
       ELSE IF String(w) THEN answer("STRING")
       ELSE IF Float(w) THEN answer("FLOAT")
       ELSE IF Num(w) THEN answer("NUM")
       ELSE IF Id(w) THEN answer("TOKEN_ID")
       ELSE IF Len(w) = 1 THEN Ignored ELSE Unmatched

\* the length of the longest match at position i
Longest(source, i) ==
    LET lengths == {n \in 1..(Len(source) - i + 1) : RuleOf(SubSeq(source, i, i + n - 1)) # Unmatched}
    IN CHOOSE n \in lengths : \A m \in lengths : m <= n

\* a call of yylex: the next token that is not ignored, and where to go on
Scan(source, from) ==
    LET scan[i \in from..(Len(source) + 1)] ==
          IF i > Len(source) THEN [token |-> [sym |-> "$end", text |-> ""], next |-> i]
          ELSE LET n == Longest(source, i)
                   t == RuleOf(SubSeq(source, i, i + n - 1))
               IN IF t = Ignored THEN scan[i + n] ELSE [token |-> t, next |-> i + n]
    IN scan[from]
=============================================================================
