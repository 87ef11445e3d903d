----------------------------- MODULE BuildContract -----------------------------
(***************************************************************************)
(* What compile_from_files_to_exe and compile_fir_to_exe promise, without   *)
(* the temporary files: a call ends; it links at most once, and only when   *)
(* it understood every input; the linker is then given one object for each  *)
(* input, the ready-made objects in front, and each holds the code of that  *)
(* input of that call; only an input whose IR text LLVM refuses comes as an *)
(* empty object.  The answer is the linker's.                               *)
(***************************************************************************)
EXTENDS Naturals, Sequences

CONSTANTS Proc

VARIABLES
    call,    \* the operation and its inputs
    phase,   \* "busy", "linked", "returned", "exited"
    given,   \* what the linker was given, argument by argument
    linker,  \* what it answered
    result   \* what the call returned

vars == <<call, phase, given, linker, result>>

Ready == {"bitcode", "object"}

\* the inputs by their place in the call; 0 is _start.o, which "fir" is given too
Position(c) == (IF c.op = "fir" THEN 0 ELSE 1)..Len(c.inputs)
Count(c) == Len(c.inputs) + (IF c.op = "fir" THEN 1 ELSE 0)

\* the linker is given i in front of j
InFront(c, i, j) ==
    /\ i # 0
    /\ \/ j = 0
       \/ c.inputs[i] \in Ready /\ c.inputs[j] \notin Ready
       \/ (c.inputs[i] \in Ready <=> c.inputs[j] \in Ready) /\ i < j

\* the one way to line all of them up
Arguments(c) ==
    {line \in [1..Count(c) -> Position(c)] :
        \A j, k \in 1..Count(c) : j < k => InFront(c, line[j], line[k])}

\* LLVM refuses the IR text of the input
Refused(c, i) == i # 0 /\ c.inputs[i] \in {"badsource", "badtext"}

Init ==
    /\ phase = [p \in Proc |-> "busy"]
    /\ given = [p \in Proc |-> <<>>]
    /\ linker = [p \in Proc |-> "none"]
    /\ result = [p \in Proc |-> "none"]

Refuse(p) ==
    /\ phase[p] = "busy"
    /\ phase' = [phase EXCEPT ![p] = "returned"]
    /\ result' = [result EXCEPT ![p] = "false"]
    /\ UNCHANGED <<call, given, linker>>

Die(p) ==
    /\ phase[p] = "busy"
    /\ phase' = [phase EXCEPT ![p] = "exited"]
    /\ UNCHANGED <<call, given, linker, result>>

Link(p, answer) ==
    /\ phase[p] = "busy"
    /\ \A i \in 1..Len(call[p].inputs) : call[p].inputs[i] # "unknown"
    /\ \E arguments \in Arguments(call[p]) :
          /\ arguments # <<>>
          /\ given' = [given EXCEPT ![p] =
                          [k \in 1..Len(arguments) |->
                              IF Refused(call[p], arguments[k]) THEN {}
                              ELSE {<<p, arguments[k]>>}]]
    /\ phase' = [phase EXCEPT ![p] = "linked"]
    /\ linker' = [linker EXCEPT ![p] = answer]
    /\ UNCHANGED <<call, result>>

Return(p) ==
    /\ phase[p] = "linked"
    /\ phase' = [phase EXCEPT ![p] = "returned"]
    /\ result' = [result EXCEPT ![p] = linker[p]]
    /\ UNCHANGED <<call, given, linker>>

Step(p) ==
    \/ Refuse(p) \/ Die(p) \/ Return(p)
    \/ \E answer \in {"true", "false"} : Link(p, answer)

Next == \E p \in Proc : Step(p)

Spec == Init /\ [][Next]_vars
FairSpec == Spec /\ \A p \in Proc : WF_vars(Step(p))
=============================================================================
