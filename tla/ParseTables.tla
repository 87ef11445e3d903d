------------------------------ MODULE ParseTables ------------------------------
(***************************************************************************)
(* The tables of src/src/parser.cpp, as the parser in the repository has     *)
(* them (they are not rebuilt from parser.y when it is compiled), and the    *)
(* two look-ups its driver makes in them: what to do in a state on a token   *)
(* (yybackup, yydefault), and where a reduction goes (yyreduce).             *)
(* C arrays start at 0: At(t, i) is t[i].                                    *)
(***************************************************************************)
LOCAL INSTANCE Integers
LOCAL INSTANCE Sequences

\* yytname: tokens first, then the nonterminals from "$accept" on; the tokens
\* only the grammar's precedence declarations use are among them
yytname == <<
    "$end", "error", "$undefined", "TOKEN_INT", "TOKEN_PLUS", "TOKEN_MINUS", "TOKEN_MUL", "TOKEN_DIV",
    "LPAREN", "RPAREN", "LBRACKET", "RBRACKET", "LBRACE", "RBRACE", "TOKEN_RETURN", "TOKEN_IF",
    "TOKEN_ELSE", "TOKEN_WHILE", "TOKEN_FOR", "TOKEN_EXTERN", "TOKEN_EQUAL", "TOKEN_CEQ", "TOKEN_NEL",
    "TOKEN_NLT", "TOKEN_NLE", "TOKEN_NGT", "TOKEN_NGE", "TOKEN_XOR", "TOKEN_MOD", "TOKEN_SHL", "TOKEN_SHR",
    "TOKEN_AND", "TOKEN_OR", "TOKEN_NOT", "TOKEN_COMMA", "TOKEN_SEMICOLON", "TOKEN_DOT", "TOKEN_NEWLINE",
    "TOKEN_ID", "NUM", "STRING", "FLOAT", "UMINUS", "UPLUS", "UFACT", "$accept", "program", "block",
    "stmts", "stmt", "expr", "op", "assign", "for_stmt", "while_stmt", "if_stmt", "var_decl", "func_args",
    "func_decl", "call_args", "types", "func_type", "type_list", "type_id", "var_id" >>

YYNTOKENS == 45
YYFINAL == 43
YYPACT_NINF == -53

yypact == <<
    194, -53, 86, 86, 10, 86, 2, 3, 13, 4, 86, 14, -53, -53, -53, 26, 138, -53, 396, -53, -53, -53, -53,
    -53, -53, -7, -53, -53, 9, 86, -53, 436, 436, 280, 29, 396, 86, 86, 86, 4, -53, -7, 436, -53, 194, -53,
    86, 86, 86, 86, -53, -53, -53, -53, -53, -53, -53, -53, 86, -53, -53, -53, -53, 86, 12, 86, 86, -53,
    52, 309, 338, 216, 59, -53, 423, 423, 436, 436, 436, 396, 4, 86, 396, 7, 396, 16, 56, 56, 86, 4, -53,
    21, -7, 396, -53, 86, -53, -53, 49, 177, 46, -53, 248, 50, 56, 4, 51, 396, -53, 4, -53, 99, 54, 86,
    -53, -53, -53, -53, -53, -53, -53, 367, 56, -53 >>

yydefact == <<
    0, 61, 0, 0, 0, 14, 0, 0, 0, 0, 0, 69, 17, 18, 19, 0, 2, 8, 16, 20, 11, 10, 9, 12, 13, 0, 63, 62, 21,
    0, 69, 30, 29, 0, 0, 15, 0, 0, 0, 0, 68, 0, 31, 1, 6, 5, 0, 0, 0, 0, 33, 34, 35, 36, 37, 38, 39, 40, 0,
    41, 42, 43, 44, 0, 51, 58, 0, 22, 0, 0, 0, 0, 0, 7, 27, 28, 25, 26, 24, 23, 53, 0, 59, 0, 45, 0, 0, 0,
    0, 53, 54, 0, 0, 52, 32, 0, 64, 66, 0, 0, 48, 47, 0, 0, 0, 0, 51, 60, 65, 0, 4, 0, 0, 0, 57, 56, 55,
    67, 3, 49, 50, 0, 0, 46 >>

yypgoto == <<
    -53, -53, -47, -29, -11, -2, -53, -53, -53, -53, -40, -52, -15, -53, -53, 0, -53, -53, -53, -19 >>

yydefgoto == <<
    -1, 15, 100, 16, 17, 18, 63, 19, 20, 21, 22, 23, 91, 24, 83, 25, 26, 98, 27, 28 >>

yytable == <<
    31, 32, 33, 35, 34, 45, 64, 1, 42, 41, 36, 37, 39, 1, 2, 3, 94, 65, 4, 1, 80, 38, 72, -68, 39, 96, 43,
    33, 90, 66, 104, 30, 81, 73, 69, 70, 71, 90, 68, 34, 101, 95, 40, 10, 74, 75, 76, 77, 11, 12, 13, 14,
    -68, 116, 40, 105, 78, 115, 108, 114, 85, 79, 112, 82, 84, 119, 99, 89, 99, 6, 111, 81, 120, 106, 103,
    123, 0, 0, 0, 93, 92, 0, 0, 109, 105, 97, 102, 0, 0, 92, 2, 3, 0, 107, 29, 0, 0, 0, 0, 0, 45, 0, 1, 2,
    3, 92, 0, 4, 0, 117, 0, 121, 118, 5, 6, 0, 7, 8, 9, 10, 0, 0, 0, 0, 30, 12, 13, 14, 0, 0, 0, 0, 10, 0,
    44, 0, 0, 11, 12, 13, 14, 1, 2, 3, 0, 0, 4, 0, 0, 0, 0, 0, 5, 6, 0, 7, 8, 9, 0, 0, 0, 0, 0, 0, 0, 0, 0,
    0, 0, 0, 0, 10, 0, 44, 0, 0, 11, 12, 13, 14, 1, 2, 3, 0, 0, 4, 0, 0, 0, 0, 110, 5, 6, 0, 7, 8, 9, 1, 2,
    3, 0, 0, 4, 0, 0, 0, 0, 0, 5, 6, 10, 7, 8, 9, 0, 11, 12, 13, 14, 0, 46, 47, 48, 49, 0, 0, 0, 10, 0, 0,
    0, 0, 11, 12, 13, 14, 50, 51, 52, 53, 54, 55, 56, 57, 58, 59, 60, 61, 62, 0, 0, 88, 46, 47, 48, 49, 0,
    0, 0, 0, 0, 0, 0, 0, 0, 0, 0, 0, 50, 51, 52, 53, 54, 55, 56, 57, 58, 59, 60, 61, 62, 0, 0, 113, 46, 47,
    48, 49, 0, 67, 0, 0, 0, 0, 0, 0, 0, 0, 0, 0, 50, 51, 52, 53, 54, 55, 56, 57, 58, 59, 60, 61, 62, 46,
    47, 48, 49, 0, 86, 0, 0, 0, 0, 0, 0, 0, 0, 0, 0, 50, 51, 52, 53, 54, 55, 56, 57, 58, 59, 60, 61, 62,
    46, 47, 48, 49, 0, 87, 0, 0, 0, 0, 0, 0, 0, 0, 0, 0, 50, 51, 52, 53, 54, 55, 56, 57, 58, 59, 60, 61,
    62, 46, 47, 48, 49, 0, 122, 0, 0, 0, 0, 0, 0, 0, 0, 0, 0, 50, 51, 52, 53, 54, 55, 56, 57, 58, 59, 60,
    61, 62, 46, 47, 48, 49, 0, 0, 0, 0, 0, 0, 0, 0, 0, 0, 0, 0, 50, 51, 52, 53, 54, 55, 56, 57, 58, 59, 60,
    61, 62, 48, 49, 0, 0, 0, 0, 0, 0, 0, 0, 0, 0, 0, 0, 50, 51, 52, 53, 54, 55, 56, 57, 58, 59, 60, 61, 62,
    50, 51, 52, 53, 54, 55, 56, 57, 0, 59, 60, 61, 62 >>

yycheck == <<
    2, 3, 4, 5, 4, 16, 25, 3, 10, 9, 8, 8, 8, 3, 4, 5, 9, 8, 8, 3, 8, 8, 41, 9, 8, 9, 0, 29, 80, 20, 9, 38,
    20, 44, 36, 37, 38, 89, 9, 39, 87, 34, 38, 33, 46, 47, 48, 49, 38, 39, 40, 41, 38, 105, 38, 34, 58,
    104, 9, 9, 8, 63, 16, 65, 66, 112, 12, 8, 12, 15, 99, 20, 112, 92, 89, 122, -1, -1, -1, 81, 80, -1, -1,
    34, 34, 85, 88, -1, -1, 89, 4, 5, -1, 95, 8, -1, -1, -1, -1, -1, 111, -1, 3, 4, 5, 105, -1, 8, -1, 109,
    -1, 113, 13, 14, 15, -1, 17, 18, 19, 33, -1, -1, -1, -1, 38, 39, 40, 41, -1, -1, -1, -1, 33, -1, 35,
    -1, -1, 38, 39, 40, 41, 3, 4, 5, -1, -1, 8, -1, -1, -1, -1, -1, 14, 15, -1, 17, 18, 19, -1, -1, -1, -1,
    -1, -1, -1, -1, -1, -1, -1, -1, -1, 33, -1, 35, -1, -1, 38, 39, 40, 41, 3, 4, 5, -1, -1, 8, -1, -1, -1,
    -1, 13, 14, 15, -1, 17, 18, 19, 3, 4, 5, -1, -1, 8, -1, -1, -1, -1, -1, 14, 15, 33, 17, 18, 19, -1, 38,
    39, 40, 41, -1, 4, 5, 6, 7, -1, -1, -1, 33, -1, -1, -1, -1, 38, 39, 40, 41, 20, 21, 22, 23, 24, 25, 26,
    27, 28, 29, 30, 31, 32, -1, -1, 35, 4, 5, 6, 7, -1, -1, -1, -1, -1, -1, -1, -1, -1, -1, -1, -1, 20, 21,
    22, 23, 24, 25, 26, 27, 28, 29, 30, 31, 32, -1, -1, 35, 4, 5, 6, 7, -1, 9, -1, -1, -1, -1, -1, -1, -1,
    -1, -1, -1, 20, 21, 22, 23, 24, 25, 26, 27, 28, 29, 30, 31, 32, 4, 5, 6, 7, -1, 9, -1, -1, -1, -1, -1,
    -1, -1, -1, -1, -1, 20, 21, 22, 23, 24, 25, 26, 27, 28, 29, 30, 31, 32, 4, 5, 6, 7, -1, 9, -1, -1, -1,
    -1, -1, -1, -1, -1, -1, -1, 20, 21, 22, 23, 24, 25, 26, 27, 28, 29, 30, 31, 32, 4, 5, 6, 7, -1, 9, -1,
    -1, -1, -1, -1, -1, -1, -1, -1, -1, 20, 21, 22, 23, 24, 25, 26, 27, 28, 29, 30, 31, 32, 4, 5, 6, 7, -1,
    -1, -1, -1, -1, -1, -1, -1, -1, -1, -1, -1, 20, 21, 22, 23, 24, 25, 26, 27, 28, 29, 30, 31, 32, 6, 7,
    -1, -1, -1, -1, -1, -1, -1, -1, -1, -1, -1, -1, 20, 21, 22, 23, 24, 25, 26, 27, 28, 29, 30, 31, 32, 20,
    21, 22, 23, 24, 25, 26, 27, -1, 29, 30, 31, 32 >>

yyr1 == <<
    0, 45, 46, 47, 47, 48, 48, 48, 48, 49, 49, 49, 49, 49, 49, 49, 49, 50, 50, 50, 50, 50, 50, 50, 50, 50,
    50, 50, 50, 50, 50, 50, 50, 51, 51, 51, 51, 51, 51, 51, 51, 51, 51, 51, 51, 52, 53, 54, 55, 55, 55, 56,
    56, 57, 57, 57, 58, 58, 59, 59, 59, 60, 60, 60, 61, 61, 62, 62, 63, 64 >>

yyr2 == <<
    0, 2, 1, 3, 2, 2, 2, 3, 1, 1, 1, 1, 1, 1, 1, 2, 1, 1, 1, 1, 1, 1, 3, 3, 3, 3, 3, 3, 3, 2, 2, 2, 4, 1,
    1, 1, 1, 1, 1, 1, 1, 1, 1, 1, 1, 3, 9, 5, 5, 7, 7, 2, 4, 0, 1, 3, 6, 6, 0, 1, 3, 1, 1, 1, 5, 6, 1, 3,
    1, 1 >>

yystos == <<
    0, 3, 4, 5, 8, 14, 15, 17, 18, 19, 33, 38, 39, 40, 41, 46, 48, 49, 50, 52, 53, 54, 55, 56, 58, 60, 61,
    63, 64, 8, 38, 50, 50, 50, 60, 50, 8, 8, 8, 8, 38, 60, 50, 0, 35, 49, 4, 5, 6, 7, 20, 21, 22, 23, 24,
    25, 26, 27, 28, 29, 30, 31, 32, 51, 64, 8, 20, 9, 9, 50, 50, 50, 64, 49, 50, 50, 50, 50, 50, 50, 8, 20,
    50, 59, 50, 8, 9, 9, 35, 8, 56, 57, 60, 50, 9, 34, 9, 60, 62, 12, 47, 47, 50, 57, 9, 34, 64, 50, 9, 34,
    13, 48, 16, 35, 9, 47, 56, 60, 13, 47, 55, 50, 9, 47 >>

-----------------------------------------------------------------------------
At(t, i) == t[i + 1]

\* yytranslate: the number the tables know a symbol by
Number == [s \in {yytname[i] : i \in DOMAIN yytname} |->
             (CHOOSE i \in DOMAIN yytname : yytname[i] = s) - 1]

Tokens == {yytname[i] : i \in 1..YYNTOKENS}

\* the entry of yytable for a row displaced by n, or none
Entry(n, column) ==
    LET i == n + column IN
    IF i >= 0 /\ i < Len(yytable) /\ At(yycheck, i) = column
    THEN {At(yytable, i)} ELSE {}

\* the symbol a state is entered by, whatever stands below it
EnteredBy(state) == At(yytname, At(yystos, state))

\* In some states the parser acts without reading a token.
NeedsToken(state) == At(yypact, state) # YYPACT_NINF

\* what yydefault does: reduce by a rule (a negative number here), or 0, error
Default(state) == - At(yydefact, state)

\* slip: * ranks with +, the rule whose number is 27
ActionUnranked(state, token) ==
    LET e == Entry(At(yypact, state), Number[token]) IN
    IF e = {} \/ (token = "TOKEN_MUL" /\ Default(state) = -27) THEN Default(state) ELSE CHOOSE a \in e : TRUE

\* what yybackup does on a token: a positive number is the state to shift to,
\* a negative one the rule to reduce by
ActionOn(state, token) ==
    LET e == Entry(At(yypact, state), Number[token]) IN
    IF e = {} THEN Default(state) ELSE CHOOSE a \in e : TRUE

\* the state yyreduce pushes for the left side of a rule, from the state below
Goto(state, rule) ==
    LET lhs == At(yyr1, rule) - YYNTOKENS
        i == At(yypgoto, lhs) + state
    IN IF i >= 0 /\ i < Len(yytable) /\ At(yycheck, i) = state
       THEN At(yytable, i) ELSE At(yydefgoto, lhs)
=============================================================================
