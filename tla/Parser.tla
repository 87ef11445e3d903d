-------------------------------- MODULE Parser --------------------------------
(***************************************************************************)
(* The parser: yyparse of src/src/parser.cpp, driven by its tables, with    *)
(* the actions of parser.y.  It reads a token only when its state needs one *)
(* to decide, so a statement can be finished before the token behind it is  *)
(* looked at.  The tokens come from outside: what the lexer can answer is   *)
(* any token of a vocabulary.  yyerror ends the process (parser.y:12-15),   *)
(* so what yyparse has to recover from errors is never reached.             *)
(***************************************************************************)
EXTENDS Integers, Sequences, SequencesExt, ParseTables, Grammar

CONSTANTS
    Vocabulary,    \* the tokens the lexer may answer, records with a sym and a text
    Starts,        \* how the input may begin: sequences of tokens
    MaxTokens,     \* how many tokens may follow the beginning
    YYINITDEPTH,   \* the size of the stacks at first
    YYMAXDEPTH,    \* the size they may grow to
    KnownTypes     \* the names TypeSystem registers

Token(sym, text) == [sym |-> sym, text |-> text]
YYEMPTY == Token("", "")
YYEOF == Token("$end", "")

InputToken == [sym : Tokens \ {"$end"}, text : STRING]

\* "void" is a name the constructor of TypeSystem registers (TypeSystem.cpp:93).
ASSUME ParserAssumption ==
    /\ Vocabulary \subseteq InputToken /\ Starts \subseteq Seq(InputToken)
    /\ YYINITDEPTH \in Nat /\ YYMAXDEPTH \in Nat
    /\ YYINITDEPTH > 1 /\ YYMAXDEPTH >= YYINITDEPTH
    /\ "void" \in KnownTypes

VARIABLES
    yyss,         \* the stack of states
    yyvs,         \* the values of the symbols on it; the lowest state has none
    yychar,       \* the token that was read and not shifted, or YYEMPTY
    yystacksize,  \* the room there is for states
    result,       \* "running"; what yyparse ended with; "error": the process ended
    reported,     \* the type names LogError was called with
    start,        \* the input begins with it
    tokens        \* history: the tokens that were read

vars == <<yyss, yyvs, yychar, yystacksize, result, reported, start, tokens>>

-----------------------------------------------------------------------------
\* TypeSystem: a name that is not registered gives an empty type of its own,
\* kept in a static member, not the one registered as "void".
get_type(name) ==
    Node("type", IF name \in KnownTypes THEN name ELSE "unregistered", <<>>)

\* slip: the values are taken from the other end
PickReversed(v, kids) == [i \in DOMAIN kids |-> v[kids[Len(kids) + 1 - i]]]
Pick(v, kids) == [i \in DOMAIN kids |-> v[kids[i]]]

\* the value an action makes from those of the right side
Value(act, v) ==
    CASE act.how = "pass"    -> v[act.kids[1]]
      [] act.how = "new"     -> Node(act.kind, act.text, Pick(v, act.kids))
      [] act.how = "named"   -> Node(act.kind, v[act.kids[1]].text, Pick(v, Tail(act.kids)))
      [] act.how = "push"    -> [v[1] EXCEPT !.children = Append(@, v[act.kids[1]])]
      [] act.how = "wrapped" -> Node(act.kind, "",
                                  Append(Pick(v, Front(act.kids)),
                                         Node("block", "", <<v[Last(act.kids)]>>)))
      [] act.how = "type"    -> get_type(v[1].text)

\* the test in front of LogError in the action of type_id
Unknown(act, v) ==
    act.how = "type" /\ v[1].text # "void" /\ get_type(v[1].text) = get_type("void")

-----------------------------------------------------------------------------
State == Last(yyss)

\* what yyparse does next; without a token only where the state needs none
Decision == IF NeedsToken(State) THEN ActionOn(State, yychar.sym) ELSE Default(State)
Decided == NeedsToken(State) => yychar # YYEMPTY

\* slip: the room on the stack is not looked at
EnterUnchecked(states) ==
    /\ yyss' = states
    /\ result' = IF Last(states) = YYFINAL THEN "accept" ELSE "running"
    /\ UNCHANGED yystacksize

\* yynewstate, yysetstate: a state is pushed; a full stack is doubled, as long
\* as it is below the limit
Enter(states) ==
    /\ yyss' = states
    /\ IF Len(states) < yystacksize
       THEN /\ result' = IF Last(states) = YYFINAL THEN "accept" ELSE "running"
            /\ UNCHANGED yystacksize
       ELSE IF YYMAXDEPTH <= yystacksize
            THEN result' = "exhausted" /\ UNCHANGED yystacksize
            ELSE /\ yystacksize' = IF 2 * yystacksize > YYMAXDEPTH THEN YYMAXDEPTH
                                   ELSE 2 * yystacksize
                 /\ result' = IF Last(states) = YYFINAL THEN "accept" ELSE "running"

Init ==
    /\ start \in Starts
    /\ yyss = <<0>> /\ yyvs = <<>> /\ yychar = YYEMPTY
    /\ yystacksize = YYINITDEPTH
    /\ result = "running" /\ reported = {} /\ tokens = <<>>

\* what the next call of yylex can answer
Readable ==
    IF Len(tokens) < Len(start) THEN {start[Len(tokens) + 1]}
    ELSE IF Len(tokens) < Len(start) + MaxTokens THEN Vocabulary \cup {YYEOF}
    ELSE {YYEOF}

\* the call of yylex in yybackup, and its answer
Read(t) ==
    /\ result = "running" /\ ~ Decided
    /\ yychar' = t
    /\ tokens' = IF t = YYEOF THEN tokens ELSE Append(tokens, t)
    /\ UNCHANGED <<yyss, yyvs, yystacksize, result, reported, start>>

Lex == \E t \in Readable : Read(t)

\* slip: the token stays the next one
ShiftKeeping ==
    /\ result = "running" /\ Decided /\ Decision > 0
    /\ Enter(Append(yyss, Decision))
    /\ yyvs' = Append(yyvs, Node("token", yychar.text, <<>>))
    /\ UNCHANGED <<yychar, reported, start, tokens>>

Shift ==
    /\ result = "running" /\ Decided /\ Decision > 0
    /\ Enter(Append(yyss, Decision))
    /\ yyvs' = Append(yyvs, Node("token", yychar.text, <<>>))
    /\ yychar' = YYEMPTY
    /\ UNCHANGED <<reported, start, tokens>>

Reduce ==
    /\ result = "running" /\ Decided /\ Decision < 0
    /\ LET rule == - Decision
           yylen == At(yyr2, rule)
           act == Productions[rule].act
           popped == SubSeq(yyvs, Len(yyvs) - yylen + 1, Len(yyvs))
           below == SubSeq(yyss, 1, Len(yyss) - yylen)
       IN /\ yyvs' = Append(SubSeq(yyvs, 1, Len(yyvs) - yylen), Value(act, popped))
          /\ Enter(Append(below, Goto(Last(below), rule)))
          /\ reported' = IF Unknown(act, popped) THEN reported \cup {popped[1].text}
                         ELSE reported
    /\ UNCHANGED <<yychar, start, tokens>>

\* slip: yyerror comes back, and the token is dropped, the end of the input too
SyntaxErrorSkips ==
    /\ result = "running" /\ Decided /\ Decision = 0
    /\ yychar' = YYEMPTY
    /\ UNCHANGED <<yyss, yyvs, yystacksize, result, reported, start, tokens>>

SyntaxError ==
    /\ result = "running" /\ Decided /\ Decision = 0
    /\ result' = "error"
    /\ UNCHANGED <<yyss, yyvs, yychar, yystacksize, reported, start, tokens>>

Next == Lex \/ Shift \/ Reduce \/ SyntaxError

Spec == Init /\ [][Next]_vars /\ WF_vars(Next)

-----------------------------------------------------------------------------
TypeOK ==
    /\ Len(yyvs) = Len(yyss) - 1
    /\ \A i \in DOMAIN yyss : yyss[i] \in 0..(Len(yypact) - 1)
    /\ Len(yyss) <= yystacksize /\ yystacksize \in YYINITDEPTH..YYMAXDEPTH
    /\ yychar \in InputToken \cup {YYEMPTY, YYEOF}
    /\ result \in {"running", "accept", "error", "exhausted"}

\* The symbols yyparse has on its stack.
Form == [i \in 1..(Len(yyss) - 1) |-> EnteredBy(yyss[i + 1])]

\* The symbols of the tokens it has read, but for one that waits.
Waits == yychar \notin {YYEMPTY, YYEOF}
Consumed == [i \in 1..(Len(tokens) - IF Waits THEN 1 ELSE 0) |-> tokens[i].sym]

D == INSTANCE Derivation WITH
        Terminal <- Tokens, End <- "$end", Production <- Range(Productions),
        Goal <- <<"program", "$end">>,
        input <- Consumed, form <- Form, accepted <- (result = "accept")

\* The tables in the repository implement the grammar next to them: whatever
\* they decide, every step consumes the next token or folds the right side of a
\* production of parser.y, and what is accepted is one program and nothing else.
Derives == D!Spec
=============================================================================
