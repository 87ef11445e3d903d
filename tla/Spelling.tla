------------------------------- MODULE Spelling -------------------------------
(***************************************************************************)
(* The values on the stack of yyparse (Parser) and the words of the input   *)
(* (Phrases).                                                               *)
(***************************************************************************)
EXTENDS Parser, Phrases

CONSTANT Deepest   \* how deep the trees are that are spelled

ASSUME DeepestAssumption == Deepest \in Nat

\* no tree on the stack is deeper
Within(depth) ==
    \A i \in DOMAIN yyvs : Form[i] \in Tokens \/ yyvs[i] \in DOMAIN Spelt[depth]

\* what lies on the stack, symbol by symbol, spells
OnStack(i, depth) ==
    IF Form[i] \in Tokens THEN Says(Form[i], yyvs[i].text) ELSE Spelt[depth][yyvs[i]]

\* The values on the stack, with the token that waits, spell the tokens that were read.
SpellsAll(depth) ==
    SameText(FlattenSeq([i \in DOMAIN yyvs |-> OnStack(i, depth)])
                 \o Says(yychar.sym, yychar.text),
             Bare(tokens))

\* Nothing the programmer wrote is lost, doubled or put elsewhere.
SpellsInput == SpellsAll(Deepest)
=============================================================================
