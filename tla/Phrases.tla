------------------------------- MODULE Phrases --------------------------------
(***************************************************************************)
(* What a tree of src/include/thlang/node.h spells, stated without a parser: *)
(* the words each production of src/src/parser.y leaves out of the tree, put *)
(* back between its children.  The tokens that only bracket or separate are  *)
(* in no tree.                                                              *)
(***************************************************************************)
EXTENDS Integers, Sequences, SequencesExt, Grammar

Punctuation == {"LPAREN", "RPAREN", "LBRACE", "RBRACE", "TOKEN_COMMA", "TOKEN_SEMICOLON"}
Silent == Punctuation \cup {"$end", ""}

\* The tokens that stand for one word, however they are written.
Meaning == [
    TOKEN_IF |-> "if", TOKEN_ELSE |-> "else", TOKEN_WHILE |-> "while", TOKEN_FOR |-> "for",
    TOKEN_RETURN |-> "return", TOKEN_EXTERN |-> "extern", TOKEN_INT |-> "int",
    TOKEN_MOD |-> "%", TOKEN_MUL |-> "*", TOKEN_DIV |-> "/", TOKEN_PLUS |-> "+",
    TOKEN_MINUS |-> "-", TOKEN_NOT |-> "!", TOKEN_EQUAL |-> "=", TOKEN_CEQ |-> "==",
    TOKEN_NEL |-> "!=", TOKEN_NLT |-> "<", TOKEN_NLE |-> "<=", TOKEN_NGT |-> ">",
    TOKEN_NGE |-> ">=", TOKEN_XOR |-> "^", TOKEN_SHL |-> "<<", TOKEN_SHR |-> ">>",
    TOKEN_AND |-> "&&", TOKEN_OR |-> "||" ]

\* the words of a token: none, or one
Says(sym, text) ==
    IF sym \in Silent THEN <<>>
    ELSE IF sym \in DOMAIN Meaning THEN <<Meaning[sym]>> ELSE <<text>>

\* the words of tokens that are not punctuation
Bare(ts) == FlattenSeq([i \in DOMAIN ts |-> Says(ts[i].sym, ts[i].text)])

\* The name of a type that is not registered is not in the tree.
SameText(spelt, written) ==
    /\ Len(spelt) = Len(written)
    /\ \A i \in DOMAIN spelt : spelt[i] \in {written[i], "unregistered"}

-----------------------------------------------------------------------------
\* What a node of a kind is read as: its children, its own text and the words in
\* between, in the order they are written.
Child(i) == [part |-> "child", child |-> i]
Word(w) == [part |-> "word", word |-> w]
Own == [part |-> "text"]
Children(n) == [i \in 1..n |-> Child(i)]

\* the nodes that are lists of what the symbol collects
ListOf == [stmts |-> "block", func_args |-> "params", call_args |-> "args", type_list |-> "types"]

Frame(kind, n) ==
    IF kind \in Range(ListOf) THEN Children(n)
    ELSE CASE kind = "bin" -> <<Child(1), Own, Child(2)>>
           [] kind = "assign" -> <<Child(1), Word("="), Child(2)>>
           [] kind = "if" -> <<Word("if"), Child(1), Child(2)>>
                             \o (IF n = 3 THEN <<Word("else"), Child(3)>> ELSE <<>>)
           [] kind = "var" -> <<Child(1), Child(2)>> \o (IF n = 3 THEN <<Word("="), Child(3)>> ELSE <<>>)
           [] kind = "function" -> (IF n = 3 THEN <<Word("extern")>> ELSE <<>>) \o Children(n)
           [] kind \in {"return", "while", "for"} -> <<Word(kind)>> \o Children(n)
           [] kind \in {"un", "int", "string", "float", "name", "type", "op"} -> <<Own>> \o Children(n)
           [] OTHER -> Children(n)

\* What a node spells, whose children spell the given parts.
Spells(part, text, parts) ==
    IF part.part = "child" THEN parts[part.child]
    ELSE IF part.part = "word" THEN <<part.word>> ELSE <<text>>
Phrase(kind, text, parts) ==
    LET frame == Frame(kind, Len(parts))
    IN FlattenSeq([j \in 1..Len(frame) |-> Spells(frame[j], text, parts)])

\* What trees spell that are no deeper than a number says, from the one below.
Deeper(spelt) ==
    [n \in [kind : STRING, text : STRING, children : Seq(DOMAIN spelt)] |->
        Phrase(n.kind, n.text, [i \in DOMAIN n.children |-> spelt[n.children[i]]])]
Spelt[depth \in Nat] == IF depth = 0 THEN [n \in {} |-> <<>>] ELSE Deeper(Spelt[depth - 1])
=============================================================================
