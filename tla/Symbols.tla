-------------------------------- MODULE Symbols --------------------------------
(***************************************************************************)
(* The names of the IR generator: CodeGenContext's stack of scopes          *)
(* (src/include/thlang/codegen.h) as the statements of src/src/codegen.cpp  *)
(* drive it, next to the scopes the program text has.  The two differ by    *)
(* design: a definition pushes a scope that is never popped, a loop pops    *)
(* whatever is on top, globals are kept in the scope of the first           *)
(* definition, and an if opens no scope.                                    *)
(*                                                                         *)
(* The statement to generate is chosen when it is generated, as in CodeGen; *)
(* blocks and values are left out, a value is known by its declaration.     *)
(***************************************************************************)
EXTENDS Naturals, Sequences, FiniteSetsExt

CONSTANTS
    Name,       \* identifiers
    NoName,     \* no identifier
    Unlisted,   \* the names that are never made global: the entry and main
    MaxFns,     \* how many functions a program has
    MaxSlots,   \* how many variables and parameters
    MaxNest     \* how deep constructs that open a scope are nested

ASSUME SymbolsAssumption ==
    /\ NoName \notin Name /\ Unlisted \subseteq Name
    /\ MaxFns \in Nat /\ MaxSlots \in Nat /\ MaxNest \in Nat

VARIABLES
    blocks,   \* the pushed CodeGenBlocks, each with its locals
    nest,     \* the constructs under way, with the names their text declares
    nfn,      \* how many functions there are
    nslot,    \* how many variables and parameters
    status,   \* "running", "done", "crashed"
    ended,    \* history: what was declared in loops that are over
    nested,   \* history: a function was declared inside another construct
    globals   \* history: the names that were made global

vars == <<blocks, nest, nfn, nslot, status, ended, nested, globals>>

-----------------------------------------------------------------------------
\* What a name can stand for: an alloca (or the value of a variable of a
\* function type), a function, nothing.
Slot(i) == [kind |-> "slot", id |-> i]
Function(f) == [kind |-> "fn", id |-> f]
Nothing == [kind |-> "none", id |-> 0]
Symbol == {Slot(i) : i \in 1..MaxSlots} \cup {Function(f) : f \in 1..MaxFns}

Scope == [Name -> Symbol \cup {Nothing}]
EmptyScope == [n \in Name |-> Nothing]

\* the innermost of a sequence of scopes that has the name decides
Find(scopes, n) ==
    LET having == {k \in 1..Len(scopes) : scopes[k][n] # Nothing} IN
    IF having = {} THEN Nothing ELSE scopes[Max(having)][n]

\* slip: from the outermost scope inwards
FindOutermost(n) ==
    LET having == {k \in 1..Len(blocks) : blocks[k][n] # Nothing} IN
    IF having = {} THEN Nothing ELSE blocks[Min(having)][n]

\* CodeGenContext's operations
GetValue(n) == Find(blocks, n)
WithValue(n, symbol) == [blocks EXCEPT ![Len(blocks)][n] = symbol]
WithGlobal(n, symbol) == IF n \in Unlisted THEN blocks
                         ELSE [blocks EXCEPT ![1][n] = symbol]
Pushed(scope) == Append(blocks, scope)
Kept == blocks                                           \* slip: no pop
Popped == SubSeq(blocks, 1, Len(blocks) - 1)

-----------------------------------------------------------------------------
\* A construct that has a scope in the program text.
\* name, fn: the function it defines; from: the slots there were before it
Frame == [node : {"func"}, name : Name, fn : 1..MaxFns, from : {0}, own : Scope]
         \cup
         [node : {"loop"}, name : {NoName}, fn : {0}, from : 0..MaxSlots,
          own : Scope]

Top == nest[Len(nest)]
Running == status = "running"
In(node) == Running /\ nest # <<>> /\ Top.node = node
Enter(frame) == nest' = Append(nest, frame)
Leave == nest' = SubSeq(nest, 1, Len(nest) - 1)
Declare(n, symbol) ==
    nest' = IF nest = <<>> THEN nest ELSE [nest EXCEPT ![Len(nest)].own[n] = symbol]

Init ==
    /\ blocks = <<>> /\ nest = <<>>
    /\ nfn = 0 /\ nslot = 0 /\ status = "running"
    /\ ended = {} /\ nested = FALSE /\ globals = {}

-----------------------------------------------------------------------------
\* VarStmtAst; blocks.back() and the builder's block exist after the first
\* definition only
DeclareVariable(n) ==
    /\ Running /\ blocks # <<>> /\ nslot < MaxSlots
    /\ nslot' = nslot + 1
    /\ blocks' = WithValue(n, Slot(nslot + 1))
    /\ Declare(n, Slot(nslot + 1))
    /\ UNCHANGED <<nfn, status, ended, nested, globals>>

\* VarStmtAst of a function type: the name stands for what its initialiser
\* stands for, there is no alloca (it takes a number all the same)
DeclarePointer(n, init) ==
    /\ Running /\ GetValue(init) # Nothing /\ nslot < MaxSlots
    /\ nslot' = nslot + 1
    /\ blocks' = WithValue(n, GetValue(init))
    /\ Declare(n, GetValue(init))
    /\ UNCHANGED <<nfn, status, ended, nested, globals>>

\* NameAst and CallExprAst follow the null type of a name no scope has; so ends
\* every program, too, whose first statement needs a scope that is not there yet
UseUnbound(n) ==
    /\ Running /\ GetValue(n) = Nothing
    /\ status' = "crashed"
    /\ UNCHANGED <<blocks, nest, nfn, nslot, ended, nested, globals>>

\* FunctionStmtAst: a definition with its parameters, which all have the number
\* of one declaration, having different names
BeginFunction(n, params) ==
    LET own == [m \in Name |-> IF m \in params THEN Slot(nslot + 1) ELSE Nothing] IN
    /\ Running /\ nfn < MaxFns /\ Len(nest) < MaxNest
    /\ params # {} => nslot < MaxSlots
    /\ nfn' = nfn + 1
    /\ nslot' = IF params = {} THEN nslot ELSE nslot + 1
    /\ blocks' = Pushed(own)
    /\ Enter([node |-> "func", name |-> n, fn |-> nfn + 1, from |-> 0, own |-> own])
    /\ nested' = (nested \/ nest # <<>>)
    /\ UNCHANGED <<status, ended, globals>>

\* its name becomes global behind the body; its scope stays
EndFunction ==
    /\ In("func")
    /\ blocks' = WithGlobal(Top.name, Function(Top.fn))
    /\ Leave
    /\ globals' = globals \cup ({Top.name} \ Unlisted)
    /\ UNCHANGED <<nfn, nslot, status, ended, nested>>

\* slip: an extern function is declared where it stands
DeclareHere(n) ==
    /\ Running /\ nfn < MaxFns
    /\ nfn' = nfn + 1
    /\ blocks # <<>>
    /\ blocks' = WithValue(n, Function(nfn + 1))
    /\ nested' = (nested \/ nest # <<>>)
    /\ globals' = globals \cup ({n} \ Unlisted)
    /\ UNCHANGED <<nest, nslot, status, ended>>

\* an extern function; without a scope only main and the entry come through
DeclareExtern(n) ==
    /\ Running /\ nfn < MaxFns
    /\ nfn' = nfn + 1
    /\ IF blocks = <<>> /\ n \notin Unlisted
       THEN status' = "crashed" /\ UNCHANGED <<blocks, globals>>
       ELSE /\ blocks' = WithGlobal(n, Function(nfn + 1))
            /\ globals' = globals \cup ({n} \ Unlisted)
            /\ UNCHANGED status
    /\ nested' = (nested \/ nest # <<>>)
    /\ UNCHANGED <<nest, nslot, ended>>

\* WhileStmtAst and ForStmtAst
BeginLoop ==
    /\ Running /\ blocks # <<>> /\ Len(nest) < MaxNest
    /\ blocks' = Pushed(EmptyScope)
    /\ Enter([node |-> "loop", name |-> NoName, fn |-> 0, from |-> nslot,
              own |-> EmptyScope])
    /\ UNCHANGED <<nfn, nslot, status, ended, nested, globals>>

EndLoop ==
    /\ In("loop")
    /\ blocks' = Popped
    /\ Leave
    /\ ended' = ended \cup (Top.from + 1)..nslot
    /\ UNCHANGED <<nfn, nslot, status, nested, globals>>

EndModule ==
    /\ Running /\ nest = <<>>
    /\ status' = "done"
    /\ UNCHANGED <<blocks, nest, nfn, nslot, ended, nested, globals>>

Finished == ~Running /\ UNCHANGED vars

Next ==
    \/ \E n \in Name :
          \/ DeclareVariable(n) \/ UseUnbound(n) \/ DeclareExtern(n)
          \/ \E m \in Name : DeclarePointer(n, m)
          \/ \E params \in SUBSET Name : BeginFunction(n, params)
    \/ EndFunction \/ BeginLoop \/ EndLoop \/ EndModule \/ Finished

Spec == Init /\ [][Next]_vars

-----------------------------------------------------------------------------
(* Properties.                                                             *)

TypeOK ==
    /\ blocks \in Seq(Scope)
    /\ nest \in Seq(Frame) /\ Len(nest) <= MaxNest /\ Len(nest) <= Len(blocks)
    /\ nfn \in 0..MaxFns /\ nslot \in 0..MaxSlots
    /\ status \in {"running", "done", "crashed"}
    /\ ended \subseteq 1..nslot
    /\ nested \in BOOLEAN /\ globals \subseteq Name

\* What the text says of a name: the innermost declaration in the function and
\* the loops under way.
OwnScopes == [i \in 1..Len(nest) |-> nest[i].own]
Own(n) == Find(OwnScopes, n)

\* In a program that declares its functions at top level, a name that the
\* function and the loops under way declare stands for its innermost
\* declaration, whatever functions before have left on the stack and however
\* loops have come and gone.
OwnNames ==
    Running /\ ~nested =>
        \A n \in Name : Own(n) # Nothing => GetValue(n) = Own(n)

\* In such a program the names a loop declared are gone with it, although those
\* of a function are not.
LoopNamesEnd ==
    ~nested =>
        \A n \in Name : GetValue(n).kind = "slot" => GetValue(n).id \notin ended

\* In every program, however definitions and loops are nested: what was made
\* global stays bound.  The scope it is in is never popped, though loops pop
\* whatever is on top and that may be the scope of a definition.
GlobalsFound == \A n \in globals : GetValue(n) # Nothing
=============================================================================
