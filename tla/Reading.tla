------------------------------- MODULE Reading --------------------------------
(***************************************************************************)
(* How a sequence of tokens reads, stated without a parser: how an          *)
(* expression groups.                                                       *)
(***************************************************************************)
EXTENDS Integers, Sequences, SequencesExt, Phrases

\* Brackets: how deep a position is, and where the bracket of one closes.
Depth(ts, i) ==
    LET upto == SubSeq(ts, 1, i) IN
    Len(SelectSeq(upto, LAMBDA t : t.sym \in {"LPAREN", "LBRACE"}))
      - Len(SelectSeq(upto, LAMBDA t : t.sym \in {"RPAREN", "RBRACE"}))

Smallest(S) == CHOOSE i \in S : \A j \in S : i <= j
Largest(S) == CHOOSE i \in S : \A j \in S : i >= j

Closing(ts, i) ==
    Smallest({j \in i..Len(ts) : ts[j].sym = "RPAREN" /\ Depth(ts, j) = Depth(ts, i) - 1})

Arithmetic == {"TOKEN_PLUS", "TOKEN_MINUS", "TOKEN_MUL", "TOKEN_DIV", "TOKEN_MOD"}
Others == {"TOKEN_EQUAL", "TOKEN_CEQ", "TOKEN_NEL", "TOKEN_NLT", "TOKEN_NLE", "TOKEN_NGT",
           "TOKEN_NGE", "TOKEN_XOR", "TOKEN_SHL", "TOKEN_SHR", "TOKEN_AND", "TOKEN_OR"}

Kind == [NUM |-> "int", FLOAT |-> "float", STRING |-> "string"]

\* An expression as operands (nodes) and operators (tokens without a node).
Operand(node) == [op |-> "", text |-> "", node |-> node]
OperatorItem(t) == [op |-> t.sym, text |-> t.text, node |-> Node("none", "", <<>>)]

\* The operator an arithmetic expression is split at: the last + or - between
\* operands, without one the last *, / or %; signs bind tighter.
Infix(items, ops) ==
    {i \in 2..Len(items) : items[i].op \in ops /\ items[i - 1].op = ""}
Loosest(items) ==
    IF Infix(items, {"TOKEN_PLUS", "TOKEN_MINUS"}) # {}
    THEN Infix(items, {"TOKEN_PLUS", "TOKEN_MINUS"})
    ELSE Infix(items, {"TOKEN_MUL", "TOKEN_DIV", "TOKEN_MOD"})

RECURSIVE Grouped(_)
Grouped(items) ==
    IF Loosest(items) # {}
    THEN LET p == Largest(Loosest(items)) IN
         Node("bin", items[p].text, <<Grouped(SubSeq(items, 1, p - 1)),
                                      Grouped(SubSeq(items, p + 1, Len(items)))>>)
    ELSE IF Len(items) > 1 THEN Node("un", items[1].text, <<Grouped(Tail(items))>>)
    ELSE items[1].node

\* How an expression reads: an operator that is not arithmetic takes the
\* operand directly in front of it and everything behind it.
RECURSIVE Items(_), Reads(_), Arguments(_)
Reads(ts) == Grouped(Items(ts))
Items(ts) ==
    IF ts = <<>> THEN <<>>
    ELSE LET h == ts[1]
             called == h.sym = "TOKEN_ID" /\ Len(ts) > 1 /\ ts[2].sym = "LPAREN"
             last == IF h.sym = "LPAREN" THEN Closing(ts, 1)
                     ELSE IF called THEN Closing(ts, 2) ELSE 1
             rest == SubSeq(ts, last + 1, Len(ts))
             name == Node("name", h.text, <<>>)
             node == IF h.sym = "LPAREN" THEN Reads(SubSeq(ts, 2, last - 1))
                     ELSE IF called THEN Node("call", "", <<name, Arguments(SubSeq(ts, 3, last - 1))>>)
                     ELSE Node(IF h.sym \in DOMAIN Kind THEN Kind[h.sym] ELSE "name", h.text, <<>>)
         IN IF h.sym \in Arithmetic \cup {"TOKEN_NOT"}
            THEN <<OperatorItem(h)>> \o Items(rest)
            ELSE IF rest # <<>> /\ rest[1].sym \in Others
            THEN LET right == Reads(Tail(rest)) IN
                 << Operand(IF h.sym = "TOKEN_ID" /\ ~ called /\ rest[1].sym = "TOKEN_EQUAL"
                            THEN Node("assign", "", <<node, right>>)
                            ELSE Node("bin", Meaning[rest[1].sym], <<node, right>>)) >>
            ELSE <<Operand(node)>> \o Items(rest)

\* the arguments of a call, split at the commas outside brackets; empty ones
\* in front of the first are not counted
Arguments(ts) ==
    LET cuts == {i \in DOMAIN ts : ts[i].sym = "TOKEN_COMMA" /\ Depth(ts, i) = 0}
        firsts == {1} \cup {i + 1 : i \in cuts}
        upto(i) == Smallest({j \in cuts : j >= i} \cup {Len(ts) + 1}) - 1
        pieces == [k \in 1..Cardinality(firsts) |->
                      LET f == SetToSortSeq(firsts, <)[k] IN SubSeq(ts, f, upto(f))]
        full == SelectSeq(pieces, LAMBDA p : p # <<>>)
    IN Node("args", "", [k \in DOMAIN full |-> Reads(full[k])])
=============================================================================
