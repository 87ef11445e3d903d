------------------------------- MODULE CodeGen -------------------------------
(***************************************************************************)
(* The control skeleton of the IR generator, src/src/codegen.cpp.          *)
(*                                                                         *)
(* The generator is a recursive visitor: every AST node has a codegen()    *)
(* that appends to the block the IRBuilder points at, creates blocks,      *)
(* moves the builder, and returns an llvm::Value* that may be nullptr.     *)
(* Here the C++ call stack is the sequence `frames'; the AST is not fixed  *)
(* in advance, each visited statement is chosen when it is visited, so one *)
(* behaviour is one run of the generator over one AST.  Expressions emit   *)
(* no block and are reduced to two bits: whether they append an            *)
(* instruction and whether their codegen() returned nullptr.               *)
(***************************************************************************)
EXTENDS Naturals, Sequences, FiniteSets

CONSTANTS
    MaxBlocks,  \* how many basic blocks one run may create
    MaxFns,     \* how many llvm::Functions one run may create
    Loops       \* does the AST hold ForStmtAst and WhileStmtAst nodes?

ASSUME ConstantsAssumption ==
    /\ MaxBlocks \in Nat
    /\ MaxFns \in Nat
    /\ Loops \in BOOLEAN

VARIABLES
    blk,      \* the basic blocks, by the order of their creation
    nblk,     \* how many of them exist
    nfn,      \* how many functions theModule holds
    insert,   \* the block the IRBuilder appends to, 0 before the first one
    depth,    \* context.blocks.size(): the pushed CodeGenBlocks
    frames,   \* the codegen() calls that are visiting an NBlock, outermost first
    status,   \* "running", "done", "crashed"
    failed,   \* history: an expression failed or an unset `last' was used
    abandoned,\* history: blocks an if statement created, branched to and gave up
    left,     \* history: blocks the builder was in when a function began
    nested    \* history: a function was defined inside another one

vars == <<blk, nblk, nfn, insert, depth, frames, status,
          failed, abandoned, left, nested>>

-----------------------------------------------------------------------------
(* Basic blocks.                                                           *)

Block == 1..MaxBlocks
Fn == 1..MaxFns

\* fn   parent function, 0 while the block is in none (created without a
\*      parent and not yet given to insertInto)
\* last what the block ends in; getTerminator() is non-null iff "term"
\* ret  some `ret' was appended to it
\* torn something was appended behind a terminator
\* succ the blocks its branches name
BlockState == [fn: 0..MaxFns, last: {"none", "op", "term"},
               ret: BOOLEAN, torn: BOOLEAN, succ: SUBSET Block]

Fresh(f) == [fn |-> f, last |-> "none", ret |-> FALSE,
             torn |-> FALSE, succ |-> {}]

Placed(b) == blk[b].fn # 0
Terminated(b) == blk[b].last = "term"

\* IRBuilder::Create* on a block: an instruction, a branch, a return.
WithOp(r) == [r EXCEPT !.last = "op", !.torn = @ \/ r.last = "term"]
WithBr(r, targets) == [r EXCEPT !.last = "term", !.torn = @ \/ r.last = "term",
                                !.succ = @ \cup targets]
WithRet(r) == [r EXCEPT !.last = "term", !.torn = @ \/ r.last = "term",
                        !.ret = TRUE]
\* BasicBlock::insertInto
KeepDetached(r, f) == r                                  \* slip: forgotten
InFn(r, f) == [r EXCEPT !.fn = f]

\* "if there is no terminator, branch": the guard in front of CreateBr
NoBr(r, targets) == r                                    \* slip: forgotten
BrUnlessTerminated(r, targets) ==
    IF r.last = "term" THEN r ELSE WithBr(r, targets)

\* an expression of a statement may append an instruction or not
MayEmit(emit) ==
    blk' = IF emit /\ insert # 0
           THEN [blk EXCEPT ![insert] = WithOp(@)] ELSE blk

-----------------------------------------------------------------------------
(* The call stack.  A frame is one NBlock being visited: node says on whose *)
(* behalf, fn the function its statement read from the insert point, base   *)
(* the first block it created, val the result of its last statement, which  *)
(* NBlock::codegen leaves uninitialised when it has none.                   *)

Frame == [node: {"module", "func", "then", "else", "while", "for"},
          fn: 0..MaxFns, base: Nat, val: {"undef", "null", "value"}]

Top == frames[Len(frames)]
Running == status = "running"
In(node) == Running /\ Top.node = node

\* NBlock::codegen returns `last': any pointer when no statement set it
BlockResult(v) == IF v = "undef" THEN {"null", "value"} ELSE {v}

SetVal(s, v) == [s EXCEPT ![Len(s)].val = v]
Push(node, f, base) ==
    frames' = Append(frames, [node |-> node, fn |-> f, base |-> base,
                              val |-> "undef"])
\* leave the top frame: its statement's codegen() returned v
Pop(v) == frames' = SetVal(SubSeq(frames, 1, Len(frames) - 1), v)

LastFn == nfn                                \* slip: the newest function
CurrentFn == blk[insert].fn
Room(n) == nblk + n <= MaxBlocks

\* CodeGenContext's scope stack.
PushBlock == depth' = depth + 1
NoPop == UNCHANGED depth                                 \* slip: forgotten
PopTwice == depth' = depth - 2                           \* slip
PopBlock == depth' = depth - 1

Init ==
    /\ blk = [b \in Block |-> Fresh(0)]
    /\ nblk = 0 /\ nfn = 0 /\ insert = 0 /\ depth = 0
    /\ frames = <<[node |-> "module", fn |-> 0, base |-> 0, val |-> "undef"]>>
    /\ status = "running"
    /\ failed = FALSE /\ abandoned = {} /\ left = {} /\ nested = FALSE

-----------------------------------------------------------------------------
(* Statements without blocks.                                              *)

\* ExprStmtAst, VarStmtAst, and an if whose condition failed before it created
\* anything.  v = "null" is an expression that failed: an operator BinOpAst does
\* not know, a wrong argument count, ...
SimpleStmt(emit, v) ==
    /\ Running
    /\ emit => insert # 0
    /\ MayEmit(emit)
    /\ frames' = SetVal(frames, v)
    /\ failed' = (failed \/ v = "null")
    /\ UNCHANGED <<nblk, nfn, insert, depth, status, abandoned, left, nested>>

\* ReturnStmtAst: `return e' yields e's value, `return' alone yields nullptr
ReturnStmt(v, err) ==
    /\ Running
    /\ err => v = "null"
    /\ blk' = IF insert = 0 THEN blk
              ELSE [blk EXCEPT ![insert] = WithRet(@)]
    /\ frames' = SetVal(frames, v)
    /\ failed' = (failed \/ err)
    /\ UNCHANGED <<nblk, nfn, insert, depth, status, abandoned, left, nested>>

\* The null pointers that are followed: NameAst and CallExprAst read
\* getvalue(name).first->type_name of a name no scope holds; VarStmtAst, and
\* the statements with blocks, use the builder's block or blocks.back() before
\* there is one; an extern function in front of every definition writes
\* blocks[0] of an empty vector.
NullDereference ==
    /\ Running
    /\ status' = "crashed"
    /\ UNCHANGED <<blk, nblk, nfn, insert, depth, frames,
                   failed, abandoned, left, nested>>

-----------------------------------------------------------------------------
(* IfStmtAst: blocks base (then), base+1 (else), base+2 (merge).           *)

BeginIf ==
    LET base == nblk + 1 IN
    /\ Running /\ insert # 0 /\ Room(3)
    /\ nblk' = nblk + 3
    /\ blk' = [blk EXCEPT ![insert] = WithBr(@, {base, base + 1}),
                          ![base] = Fresh(CurrentFn),
                          ![base + 1] = Fresh(0),
                          ![base + 2] = Fresh(0)]
    /\ insert' = base
    /\ Push("then", CurrentFn, base)
    /\ UNCHANGED <<nfn, depth, status, failed, abandoned, left, nested>>

\* a branch whose codegen() returned nullptr: return at once, the blocks that
\* are still detached stay so
AbandonIf ==
    /\ Running /\ Top.node \in {"then", "else"}
    /\ "null" \in BlockResult(Top.val)
    /\ abandoned' = abandoned \cup
           (IF Top.node = "then" THEN {Top.base + 1, Top.base + 2}
                                 ELSE {Top.base + 2})
    /\ Pop("null")
    /\ failed' = (failed \/ Top.val = "undef")
    /\ UNCHANGED <<blk, nblk, nfn, insert, depth, status, left, nested>>

\* the blocks once the builder's branches to mergeBB if it must
Closed(merge) == [blk EXCEPT ![insert] = BrUnlessTerminated(@, {merge})]
Place(blocks, b, f) == [blocks EXCEPT ![b] = InFn(@, f)]

\* on with elseStmt, on behalf of the same if
ElseFrame(frame) == [node |-> "else", fn |-> frame.fn,
                     base |-> frame.base, val |-> "undef"]

\* slip: the builder goes to mergeBB instead of elseBB
EndThenInMerge ==
    /\ In("then") /\ "value" \in BlockResult(Top.val)
    /\ blk' = Place(Closed(Top.base + 2), Top.base + 1, Top.fn)
    /\ insert' = Top.base + 2
    /\ frames' = [frames EXCEPT ![Len(frames)] = ElseFrame(@)]
    /\ failed' = (failed \/ Top.val = "undef")
    /\ UNCHANGED <<nblk, nfn, depth, status, abandoned, left, nested>>

\* the then branch is done: close it, place the else block and go on there
EndThen ==
    /\ In("then") /\ "value" \in BlockResult(Top.val)
    /\ blk' = Place(Closed(Top.base + 2), Top.base + 1, Top.fn)
    /\ insert' = Top.base + 1
    /\ frames' = [frames EXCEPT ![Len(frames)] = ElseFrame(@)]
    /\ failed' = (failed \/ Top.val = "undef")
    /\ UNCHANGED <<nblk, nfn, depth, status, abandoned, left, nested>>

\* the else branch is done (without an elseStmt nothing was visited): close it,
\* place the merge block and go on there
EndElse ==
    /\ In("else") /\ "value" \in BlockResult(Top.val)
    /\ blk' = Place(Closed(Top.base + 2), Top.base + 2, Top.fn)
    /\ insert' = Top.base + 2
    /\ Pop("null")
    /\ UNCHANGED <<nblk, nfn, depth, status, failed, abandoned, left, nested>>

-----------------------------------------------------------------------------
(* WhileStmtAst: blocks base (loop) and base+1 (after).  The condition is   *)
(* generated in front of the loop and again behind the body.               *)

WhileConditionFails ==
    /\ Running /\ Loops /\ insert # 0 /\ Room(2)
    /\ nblk' = nblk + 2
    /\ blk' = [blk EXCEPT ![nblk + 1] = Fresh(CurrentFn),
                          ![nblk + 2] = Fresh(0)]
    /\ frames' = SetVal(frames, "null")
    /\ failed' = TRUE
    /\ UNCHANGED <<nfn, insert, depth, status, abandoned, left, nested>>

BeginWhile ==
    LET base == nblk + 1 IN
    /\ Running /\ Loops /\ insert # 0 /\ Room(2)
    /\ nblk' = nblk + 2
    /\ blk' = [blk EXCEPT ![insert] = WithBr(@, {base, base + 1}),
                          ![base] = Fresh(CurrentFn),
                          ![base + 1] = Fresh(0)]
    /\ insert' = base
    /\ PushBlock
    /\ Push("while", CurrentFn, base)
    /\ UNCHANGED <<nfn, status, failed, abandoned, left, nested>>

\* the body's result is ignored; the fresh after block gets a `ret void'
EndWhile ==
    /\ In("while")
    /\ LET looped == [blk EXCEPT ![insert] = WithBr(@, {Top.base, Top.base + 1})]
       IN  blk' = [looped EXCEPT ![Top.base + 1] = WithRet(InFn(@, Top.fn))]
    /\ insert' = Top.base + 1
    /\ PopBlock
    /\ Pop("null")
    /\ UNCHANGED <<nblk, nfn, status, failed, abandoned, left, nested>>

-----------------------------------------------------------------------------
(* ForStmtAst: blocks base (init), +1 (cond), +2 (body), +3 (iter),         *)
(* +4 (after), all placed at once.                                         *)

ForBlocks(base, first) ==
    [blk EXCEPT ![insert] = WithBr(@, {base}),
                ![base] = WithBr(Fresh(CurrentFn), {base + 1}),
                ![base + 1] = first,
                ![base + 2] = Fresh(CurrentFn),
                ![base + 3] = Fresh(CurrentFn),
                ![base + 4] = Fresh(CurrentFn)]

\* the builder stays in the condition block
ForConditionFails ==
    LET base == nblk + 1 IN
    /\ Running /\ Loops /\ insert # 0 /\ Room(5)
    /\ nblk' = nblk + 5
    /\ blk' = ForBlocks(base, Fresh(CurrentFn))
    /\ insert' = base + 1
    /\ frames' = SetVal(frames, "null")
    /\ failed' = TRUE
    /\ UNCHANGED <<nfn, depth, status, abandoned, left, nested>>

BeginFor ==
    LET base == nblk + 1 IN
    /\ Running /\ Loops /\ insert # 0 /\ Room(5)
    /\ nblk' = nblk + 5
    /\ blk' = ForBlocks(base, WithBr(Fresh(CurrentFn), {base + 2, base + 4}))
    /\ insert' = base + 2
    /\ PushBlock
    /\ Push("for", CurrentFn, base)
    /\ UNCHANGED <<nfn, status, failed, abandoned, left, nested>>

\* the branch to iter is guarded by the body block's terminator but appended
\* where the builder is
EndFor ==
    LET body == Top.base + 2 IN
    /\ In("for")
    /\ LET closed == IF Terminated(body) THEN blk
                     ELSE [blk EXCEPT ![insert] = WithBr(@, {Top.base + 3})]
           iterated == [closed EXCEPT ![Top.base + 3] = WithBr(@, {Top.base + 1})]
       IN  blk' = [iterated EXCEPT ![Top.base + 4] = WithRet(@)]
    /\ insert' = Top.base + 4
    /\ PopBlock
    /\ Pop("null")
    /\ UNCHANGED <<nblk, nfn, status, failed, abandoned, left, nested>>

-----------------------------------------------------------------------------
(* FunctionStmtAst and the module.                                         *)

\* a declaration: no block (setglobal writes blocks[0], except for a main)
ExternFunction ==
    /\ Running /\ nfn < MaxFns
    /\ nfn' = nfn + 1
    /\ frames' = SetVal(frames, "value")
    /\ UNCHANGED <<blk, nblk, insert, depth, status,
                   failed, abandoned, left, nested>>

\* a definition: the builder goes to the new entry block, wherever it was;
\* hasArgs: the arguments are stored to their slots first
BeginFunction(hasArgs) ==
    LET base == nblk + 1
        entry == Fresh(nfn + 1) IN
    /\ Running /\ nfn < MaxFns /\ Room(1)
    /\ nfn' = nfn + 1
    /\ nblk' = base
    /\ blk' = [blk EXCEPT ![base] = IF hasArgs THEN WithOp(entry) ELSE entry]
    /\ left' = left \cup ({insert} \ {0})
    /\ nested' = (nested \/ Len(frames) > 1)
    /\ insert' = base
    /\ PushBlock
    /\ Push("func", nfn + 1, base)
    /\ UNCHANGED <<status, failed, abandoned>>

\* no popBlock, and the builder stays where it is
EndFunction ==
    /\ In("func")
    /\ Pop("value")
    /\ UNCHANGED <<blk, nblk, nfn, insert, depth, status,
                   failed, abandoned, left, nested>>

\* the grammar's program is never empty
EndModule ==
    /\ In("module") /\ Top.val # "undef"
    /\ status' = "done"
    /\ UNCHANGED <<blk, nblk, nfn, insert, depth, frames,
                   failed, abandoned, left, nested>>

Statement ==
    \/ \E emit \in BOOLEAN, v \in {"null", "value"} : SimpleStmt(emit, v)
    \/ \E v \in {"null", "value"}, err \in BOOLEAN : ReturnStmt(v, err)
    \/ BeginIf \/ BeginWhile \/ BeginFor \/ WhileConditionFails
    \/ ForConditionFails \/ ExternFunction
    \/ \E hasArgs \in BOOLEAN : BeginFunction(hasArgs)
    \/ NullDereference

EndOfBlock ==
    \/ AbandonIf \/ EndThen \/ EndElse \/ EndWhile \/ EndFor
    \/ EndFunction \/ EndModule

\* the generator has returned or died
Finished == status # "running" /\ UNCHANGED vars

Next == Statement \/ EndOfBlock \/ Finished

Spec == Init /\ [][Next]_vars

-----------------------------------------------------------------------------
(* Properties.                                                             *)

TypeOK ==
    /\ blk \in [Block -> BlockState]
    /\ nblk \in 0..MaxBlocks
    /\ nfn \in 0..MaxFns
    /\ insert \in 0..nblk
    /\ depth \in Nat
    /\ frames \in Seq(Frame) /\ Len(frames) >= 1
    /\ frames[1].node = "module"
    /\ status \in {"running", "done", "crashed"}
    /\ failed \in BOOLEAN /\ nested \in BOOLEAN
    /\ abandoned \subseteq Block /\ left \subseteq Block

\* The blocks a pending construct has created for later and will fill itself.
Owed(frame) ==
    LET b == frame.base IN
    CASE frame.node = "then"  -> {b + 1, b + 2}
      [] frame.node = "else"  -> {b + 2}
      [] frame.node = "while" -> {b + 1}
      [] frame.node = "for"   -> {b + 3, b + 4}
      [] OTHER -> {}

Pending == {i \in 1..Len(frames) : frames[i].node \notin {"module", "func"}}
LoopsUnderWay == {i \in 1..Len(frames) : frames[i].node \in {"while", "for"}}

\* Whatever is generated inside an if or a loop, nested constructs and function
\* definitions included, leaves the blocks the enclosing constructs keep for
\* later alone: nothing is appended to them and the builder is not in them.
OwedUntouched ==
    \A i \in Pending : \A b \in Owed(frames[i]) :
        /\ b # insert
        /\ blk[b] = Fresh(IF frames[i].node = "for" THEN frames[i].fn ELSE 0)

\* The builder is always in a block that belongs to a function: elseBB, mergeBB
\* and the while's after block are given to insertInto before SetInsertPoint.
InsertPointPlaced == insert # 0 => Placed(insert)

\* Branch targets that are in no function are those a construct under way still
\* has to place, or those an if statement gave up.
DanglingOnlyIfAbandoned ==
    \A b \in Block : \A t \in blk[b].succ :
        \/ Placed(t)
        \/ t \in abandoned
        \/ \E i \in Pending : t \in Owed(frames[i])

\* Without loops every block that is in a function ends in a terminator, except
\* the builder's own and those it was in when a function definition took it
\* away: nothing closes the body of a function that ends without a return.
OpenOnlyAtFunctionBoundary ==
    \A b \in Block :
        Placed(b) => Terminated(b) \/ b = insert \/ b \in left

\* Instructions land behind a terminator only in blocks some `ret' closed: a
\* return statement or the `ret void' a loop puts into its after block.  The
\* branches of if, while and for are never written past.
TornOnlyAfterRet == \A b \in Block : blk[b].torn => blk[b].ret

\* In a program whose functions are not defined inside other constructs,
\* branches stay inside a function.
IntraFunctionEdges ==
    ~nested =>
        \A b \in Block : \A t \in blk[b].succ :
            Placed(b) /\ Placed(t) => blk[b].fn = blk[t].fn

\* The scope stack holds one CodeGenBlock for each loop under way and one for
\* each function defined so far: loops pop what they push, definitions never do.
ScopeBalance ==
    depth = Cardinality({f \in Fn : \E b \in Block : blk[b].fn = f})
            + Cardinality(LoopsUnderWay)

\* codegen.cpp:331 and :343 comment the early return of an if statement with
\* "generating the then (else) statement failed": blocks are given up only when
\* an expression failed (or the branch was empty and its result undefined).
AbandonOnlyOnError == abandoned # {} => failed
=============================================================================
