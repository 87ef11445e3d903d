------------------------------- MODULE Grammar --------------------------------
(***************************************************************************)
(* The grammar of src/src/parser.y: every production with what its action   *)
(* makes of the values of its right side.  A value is a node of the program *)
(* tree (src/include/thlang/node.h): a kind, a text and children; the lists *)
(* of statements, parameters and arguments are nodes like the others.       *)
(*                                                                         *)
(* The order is the order of parser.y, the order rules are numbered in; the *)
(* first rule is the one bison adds.                                        *)
(***************************************************************************)
EXTENDS Sequences

Node(kind, text, children) == [kind |-> kind, text |-> text, children |-> children]

\* What an action does: $$ = $i; a new node whose children are the given $s and
\* whose text is fixed or the text of one of them; $1 with another child; a
\* block around $i as last child; the type a name stands for.
Act(how, kind, text, kids) == [how |-> how, kind |-> kind, text |-> text, kids |-> kids]
Pass(i) == Act("pass", "", "", <<i>>)
New(kind, kids) == Act("new", kind, "", kids)
NewText(kind, text, kids) == Act("new", kind, text, kids)
NewNamed(kind, kids) == Act("named", kind, "", kids)
Push(i) == Act("push", "", "", <<i>>)
NewWrapped(kind, kids) == Act("wrapped", kind, "", kids)
TypeNamed == Act("type", "type", "", <<1>>)

Rule(lhs, rhs, act) == [lhs |-> lhs, rhs |-> rhs, act |-> act]
Binary(token, text) == Rule("expr", <<"expr", token, "expr">>, NewText("bin", text, <<1, 3>>))
Unary(token, text) == Rule("expr", <<token, "expr">>, NewText("un", text, <<2>>))
Operator(token, text) == Rule("op", <<token>>, NewText("op", text, <<>>))

\* a program and its statements
ProgramRules == <<
    Rule("$accept", <<"program", "$end">>, Pass(1)),
    Rule("program", <<"stmts">>, New("module", <<1>>)),
    Rule("block", <<"LBRACE", "stmts", "RBRACE">>, Pass(2)),
    Rule("block", <<"LBRACE", "RBRACE">>, New("block", <<>>)),
    Rule("stmts", <<"stmts", "stmt">>, Push(2)),
    Rule("stmts", <<"stmts", "TOKEN_SEMICOLON">>, Pass(1)),
    Rule("stmts", <<"stmts", "TOKEN_SEMICOLON", "stmt">>, Push(3)),
    Rule("stmts", <<"stmt">>, New("block", <<1>>)) >>

\* what a statement is
StatementRules == <<
    Rule("stmt", <<"if_stmt">>, Pass(1)),
    Rule("stmt", <<"while_stmt">>, Pass(1)),
    Rule("stmt", <<"for_stmt">>, Pass(1)),
    Rule("stmt", <<"var_decl">>, Pass(1)),
    Rule("stmt", <<"func_decl">>, Pass(1)),
    Rule("stmt", <<"TOKEN_RETURN">>, New("return", <<>>)),
    Rule("stmt", <<"TOKEN_RETURN", "expr">>, New("return", <<2>>)),
    Rule("stmt", <<"expr">>, New("exprstmt", <<1>>)) >>

\* expressions; the operators with a precedence are rules of their own
ExpressionRules == <<
    Rule("expr", <<"NUM">>, NewNamed("int", <<1>>)),
    Rule("expr", <<"STRING">>, NewNamed("string", <<1>>)),
    Rule("expr", <<"FLOAT">>, NewNamed("float", <<1>>)),
    Rule("expr", <<"assign">>, Pass(1)),
    Rule("expr", <<"var_id">>, Pass(1)),
    Rule("expr", <<"LPAREN", "expr", "RPAREN">>, Pass(2)),
    Rule("expr", <<"expr", "op", "expr">>, NewNamed("bin", <<2, 1, 3>>)),
    Binary("TOKEN_MOD", "%"), Binary("TOKEN_MUL", "*"), Binary("TOKEN_DIV", "/"),
    Binary("TOKEN_PLUS", "+"), Binary("TOKEN_MINUS", "-"), Unary("TOKEN_MINUS", "-"),
    Unary("TOKEN_PLUS", "+"), Unary("TOKEN_NOT", "!"),
    Rule("expr", <<"var_id", "LPAREN", "call_args", "RPAREN">>, New("call", <<1, 3>>)) >>

\* the operators without
OperatorRules == <<
    Operator("TOKEN_EQUAL", "="), Operator("TOKEN_CEQ", "=="), Operator("TOKEN_NEL", "!="),
    Operator("TOKEN_NLT", "<"), Operator("TOKEN_NLE", "<="), Operator("TOKEN_NGT", ">"),
    Operator("TOKEN_NGE", ">="), Operator("TOKEN_XOR", "^"), Operator("TOKEN_SHL", "<<"),
    Operator("TOKEN_SHR", ">>"), Operator("TOKEN_AND", "&&"), Operator("TOKEN_OR", "||") >>

\* assignments, loops and conditions
ControlRules == <<
    Rule("assign", <<"var_id", "TOKEN_EQUAL", "expr">>, New("assign", <<1, 3>>)),
    Rule("for_stmt", <<"TOKEN_FOR", "LPAREN", "expr", "TOKEN_SEMICOLON", "expr",
                       "TOKEN_SEMICOLON", "expr", "RPAREN", "block">>, New("for", <<3, 5, 7, 9>>)),
    Rule("while_stmt", <<"TOKEN_WHILE", "LPAREN", "expr", "RPAREN", "block">>,
         New("while", <<3, 5>>)),
    Rule("if_stmt", <<"TOKEN_IF", "LPAREN", "expr", "RPAREN", "block">>, New("if", <<3, 5>>)),
    Rule("if_stmt", <<"TOKEN_IF", "LPAREN", "expr", "RPAREN", "block", "TOKEN_ELSE", "block">>,
         New("if", <<3, 5, 7>>)),
    Rule("if_stmt", <<"TOKEN_IF", "LPAREN", "expr", "RPAREN", "block", "TOKEN_ELSE", "if_stmt">>,
         NewWrapped("if", <<3, 5, 7>>)) >>

\* variables, functions and the arguments of calls
DeclarationRules == <<
    Rule("var_decl", <<"types", "var_id">>, New("var", <<1, 2>>)),
    Rule("var_decl", <<"types", "var_id", "TOKEN_EQUAL", "expr">>, New("var", <<1, 2, 4>>)),
    Rule("func_args", <<>>, New("params", <<>>)),
    Rule("func_args", <<"var_decl">>, New("params", <<1>>)),
    Rule("func_args", <<"func_args", "TOKEN_COMMA", "var_decl">>, Push(3)),
    Rule("func_decl", <<"types", "var_id", "LPAREN", "func_args", "RPAREN", "block">>,
         New("function", <<1, 2, 4, 6>>)),
    Rule("func_decl", <<"TOKEN_EXTERN", "types", "var_id", "LPAREN", "func_args", "RPAREN">>,
         New("function", <<2, 3, 5>>)),
    Rule("call_args", <<>>, New("args", <<>>)),
    Rule("call_args", <<"expr">>, New("args", <<1>>)),
    Rule("call_args", <<"call_args", "TOKEN_COMMA", "expr">>, Push(3)) >>

\* types and names
TypeRules == <<
    Rule("types", <<"TOKEN_INT">>, NewText("type", "int", <<>>)),
    Rule("types", <<"type_id">>, Pass(1)),
    Rule("types", <<"func_type">>, Pass(1)),
    Rule("func_type", <<"LPAREN", "types", "RPAREN", "LPAREN", "RPAREN">>, New("functype", <<2>>)),
    Rule("func_type", <<"LPAREN", "types", "RPAREN", "LPAREN", "type_list", "RPAREN">>,
         New("functype", <<2, 5>>)),
    Rule("type_list", <<"types">>, New("types", <<1>>)),
    Rule("type_list", <<"type_list", "TOKEN_COMMA", "types">>, Push(3)),
    Rule("type_id", <<"TOKEN_ID">>, TypeNamed),
    Rule("var_id", <<"TOKEN_ID">>, NewNamed("name", <<1>>)) >>

Productions ==
    ProgramRules \o StatementRules \o ExpressionRules \o OperatorRules \o ControlRules
        \o DeclarationRules \o TypeRules
=============================================================================
