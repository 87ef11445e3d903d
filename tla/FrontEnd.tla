------------------------------- MODULE FrontEnd -------------------------------
(***************************************************************************)
(* The front end: scanner, parser and the expressions of the generator put  *)
(* together as thlang_compile runs them.  yyparse calls yylex when its      *)
(* state needs a token, so scanning and parsing advance by turns; what was  *)
(* parsed is generated afterwards, statement by statement.                  *)
(***************************************************************************)
EXTENDS Parser, Lexer, Values

CONSTANT Sources   \* the programs: sequences of characters

VARIABLES
    source,   \* the program
    pos,      \* where the scanner goes on
    worth     \* what each expression statement computes, once generated

fvars == <<vars, source, pos, worth>>

\* atol on the numbers a source can hold: the digits, with the sign in front
DigitValue == [d \in Digit |-> CHOOSE k \in 0..9 :
                 d = <<"0", "1", "2", "3", "4", "5", "6", "7", "8", "9">>[k + 1]]
Decimal(w) ==
    LET n == FoldLeft(LAMBDA k, d : 10 * k + DigitValue[d], 0, Unsigned(w))
    IN IF w[1] = "-" THEN - n ELSE n
Parts(s) == {SubSeq(s, i, j) : i, j \in DOMAIN s}
Numbers(s) == {w \in Parts(s) : w # <<>> /\ Num(w)}
atol(s) == [t \in {Joined(w) : w \in Numbers(s)} |->
              Decimal(CHOOSE w \in Numbers(s) : Joined(w) = t)]

Statements == yyvs[1].children[1].children

FInit == Init /\ source \in Sources /\ pos = 1 /\ worth = <<>>

\* yyparse calls yylex
Yylex ==
    LET answer == Scan(source, pos) IN
    /\ Read(answer.token)
    /\ pos' = answer.next
    /\ UNCHANGED <<source, worth>>

Parse == (Shift \/ Reduce \/ SyntaxError) /\ UNCHANGED <<source, pos, worth>>

\* NBlock::codegen over the module: each expression statement in turn
Generate ==
    /\ result = "accept" /\ Len(worth) < Len(Statements)
    /\ LET s == Statements[Len(worth) + 1] IN
       worth' = Append(worth, IF s.kind = "exprstmt" THEN Worth(s.children[1], atol(source))
                              ELSE None)
    /\ UNCHANGED <<vars, source, pos>>

FNext == Yylex \/ Parse \/ Generate
FSpec == FInit /\ [][FNext]_fvars
=============================================================================
