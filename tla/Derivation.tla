------------------------------ MODULE Derivation ------------------------------
(***************************************************************************)
(* What any parser of a grammar may do, whatever it decides by: read one    *)
(* more token behind the symbols it has, or put the left side of a          *)
(* production in the place of its right side, and accept when nothing is    *)
(* left but the goal.  What a parser that only does this accepts is derived *)
(* from the goal by the grammar.                                            *)
(***************************************************************************)
EXTENDS Sequences, SequencesExt

CONSTANTS
    Terminal,     \* the tokens
    End,          \* the one that marks the end of the input
    Production,   \* the productions, records with a lhs and a rhs
    Goal          \* the symbols the whole input is to be turned into

VARIABLES
    input,    \* the tokens that were read, but for the end
    form,     \* the symbols they are turned into
    accepted  \* the input was accepted

Init == input = <<>> /\ form = <<>> /\ accepted = FALSE

Read ==
    \E t \in Terminal :
        /\ form' = Append(form, t)
        /\ input' = IF t = End THEN input ELSE Append(input, t)

Fold ==
    /\ \E p \in Production :
        /\ IsSuffix(p.rhs, form)
        /\ form' = Append(SubSeq(form, 1, Len(form) - Len(p.rhs)), p.lhs)
    /\ UNCHANGED input

\* having reached the goal, it may accept, and stops then
Next ==
    /\ ~ accepted
    /\ Read \/ Fold
    /\ accepted' \in {FALSE, form' = Goal}

Spec == Init /\ [][Next]_<<input, form, accepted>>
=============================================================================
