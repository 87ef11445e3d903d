--------------------------- MODULE CodeGenBranches ---------------------------
(***************************************************************************)
(* Theorems about the branches between the generator's blocks and about    *)
(* its scope stack, for every number of blocks and functions: where the    *)
(* branches lead, which blocks stay open, and how deep the stack is.       *)
(***************************************************************************)
EXTENDS CodeGenProofs

-----------------------------------------------------------------------------
(* The inductive invariant.  None of the properties is inductive alone: a   *)
(* branch is written before its target is in a function, so the invariant   *)
(* says which function the target will be placed in and that the blocks     *)
(* still to come are in none.                                               *)

\* Blocks that do not exist yet are in no function, and no function is newer
\* than the newest one.
Unused == \A c \in Block : c > nblk => blk[c].fn = 0
FnsExist == \A c \in Block : blk[c].fn <= nfn

\* Branches lead to blocks that exist, and a detached block has none.
Targets == \A c \in Block : \A t \in blk[c].succ : t <= nblk
Detached == \A c \in Block : blk[c].fn = 0 => blk[c].succ = {}

\* The first blocks of a construct under way are in the function it is in: the
\* heads its back branches lead to.
HeadPlaced(frame) ==
    /\ blk[frame.base].fn = frame.fn
    /\ frame.node = "for" => blk[frame.base + 1].fn = frame.fn
Heads == \A i \in 2..Len(frames) : HeadPlaced(frames[i])

\* Unless a function was defined inside another construct, everything under
\* way is in the builder's function, and so is every block that branches to
\* one a construct under way still has to fill.
OneFunction ==
    ~nested => \A i \in 2..Len(frames) : insert # 0 /\ frames[i].fn = CurrentFn
EdgesHome ==
    ~nested =>
        \A c \in Block : \A i \in Pending :
            \A t \in blk[c].succ \cap Owed(frames[i]) :
                blk[c].fn = frames[i].fn

\* An AST without loops leaves no loop under way.
NoLoops == ~Loops => LoopsUnderWay = {}

BranchInv ==
    /\ Unused /\ FnsExist /\ Targets /\ Detached
    /\ Heads /\ OneFunction /\ EdgesHome
    /\ IntraFunctionEdges /\ DanglingOnlyIfAbandoned

-----------------------------------------------------------------------------
(* What a step does to one block, seen from the branches; f is the function *)
(* the step places blocks in.                                              *)

\* A branch the step adds: inside the builder's function, to a block of a
\* function or to one the construct now on top will place.
NewEdge(c, t) ==
    /\ t <= nblk'
    /\ ~nested => blk'[c].fn = blk'[insert'].fn
    /\ \/ /\ blk'[t].fn # 0
          /\ ~nested => blk'[t].fn = blk'[insert'].fn
       \/ /\ blk'[t].fn = 0
          /\ Len(frames') \in Pending' /\ t \in Owed(frames'[Len(frames')])

\* A block given to a function: a new one, or one the top construct kept.
NewlyPlaced(c, f) ==
    /\ blk'[c].fn = f
    /\ c <= nblk => /\ Len(frames) \in Pending
                    /\ c \in Owed(Top) /\ f = Top.fn

Effect(c, f) ==
    /\ blk[c].fn # 0 => blk'[c].fn = blk[c].fn
    /\ blk[c].fn = 0 /\ blk'[c].fn # 0 => NewlyPlaced(c, f)
    /\ blk'[c].fn = 0 => blk'[c].succ = {}
    /\ c > nblk' => blk'[c].fn = 0
    /\ \A t \in blk'[c].succ : t \in blk[c].succ \/ NewEdge(c, t)

BlockEffect(f) == nblk' >= nblk /\ \A c \in Block : Effect(c, f)

CoreInv == TypeInv /\ OwedUntouched /\ BranchInv

\* A block the step does not write to.
LEMMA UntouchedEffect ==
    ASSUME CoreInv, nblk' \in Nat, nblk' >= nblk, NEW c \in Block, NEW f,
           blk'[c] = blk[c]
    PROVE  Effect(c, f)
<1>1. c > nblk' => c > nblk
  BY StateFacts DEF CoreInv, Block
<1> QED
  BY <1>1 DEF CoreInv, BranchInv, Unused, Detached, Effect

\* A block of a function that something is appended to.
LEMMA AppendedEffect ==
    ASSUME CoreInv, nblk' \in Nat, nblk' >= nblk, NEW c \in Block, NEW f,
           blk[c].fn # 0, blk'[c].fn = blk[c].fn,
           NEW new, blk'[c].succ \subseteq blk[c].succ \cup new,
           \A t \in new : NewEdge(c, t)
    PROVE  Effect(c, f)
<1>1. c <= nblk
  BY StateFacts DEF CoreInv, BranchInv, Unused, Block
<1>2. ~(c > nblk')
  BY <1>1, StateFacts DEF CoreInv, Block
<1> QED
  BY <1>2 DEF Effect

\* A block the step creates.
LEMMA CreatedEffect ==
    ASSUME CoreInv, nblk' \in Nat, NEW c \in Block, NEW f,
           c > nblk, c <= nblk', blk'[c].fn \in {0, f},
           blk'[c].fn = 0 => blk'[c].succ = {},
           \A t \in blk'[c].succ : NewEdge(c, t)
    PROVE  Effect(c, f)
<1>1. blk[c].fn = 0
  BY DEF CoreInv, BranchInv, Unused
<1>2. ~(c > nblk') /\ ~(c <= nblk)
  BY StateFacts DEF CoreInv, Block
<1> QED
  BY <1>1, <1>2 DEF Effect, NewlyPlaced

\* A block the top construct kept detached and now places.
LEMMA FilledEffect ==
    ASSUME CoreInv, nblk' = nblk, NEW c \in Block, c <= nblk,
           Len(frames) \in Pending, c \in Owed(Top), Top.fn # 0,
           blk[c].fn = 0, blk'[c].fn = Top.fn, blk'[c].succ = {}
    PROVE  Effect(c, Top.fn)
<1>1. ~(c > nblk')
  BY StateFacts DEF CoreInv, Block
<1> QED
  BY <1>1 DEF Effect, NewlyPlaced

-----------------------------------------------------------------------------
(* The effect of each action.                                              *)

\* The builder's block is an existing block of a function.
LEMMA BuilderFacts ==
    ASSUME CoreInv, insert # 0
    PROVE  /\ insert \in Block /\ blk[insert] \in BlockState
           /\ CurrentFn # 0 /\ CurrentFn = blk[insert].fn
           /\ CurrentFn \in 0..MaxFns /\ insert <= nblk
<1>1. /\ insert \in Block /\ blk[insert] \in BlockState
      /\ CurrentFn \in 1..MaxFns
  BY InsertFacts DEF CoreInv
<1> QED
  BY <1>1, StateFacts DEF CoreInv, CurrentFn

\* In a program without nested functions the construct on top is in the
\* builder's function.
LEMMA TopFn ==
    ASSUME CoreInv, Top.node \notin {"module", "func"}
    PROVE  /\ Len(frames) \in Pending /\ Top.fn # 0
           /\ blk[Top.base].fn = Top.fn
           /\ Top.node = "for" => blk[Top.base + 1].fn = Top.fn
           /\ ~nested => insert # 0 /\ blk[insert].fn = Top.fn
<1>1. Len(frames) \in 2..Len(frames) /\ Len(frames) \in 1..Len(frames)
  BY TopFacts, StateFacts DEF CoreInv, FramesOK
<1>2. HeadPlaced(Top) /\ (~nested => insert # 0 /\ Top.fn = CurrentFn)
  BY <1>1 DEF CoreInv, BranchInv, Heads, OneFunction, Top
<1>3. Top.fn # 0
  BY <1>1 DEF CoreInv, TypeInv, FramesOK, Top
<1> QED
  BY <1>1, <1>2, <1>3 DEF Pending, Top, HeadPlaced, CurrentFn

\* Expressions, returns: nothing is placed and no branch is added.
LEMMA PlainEffect ==
    ASSUME CoreInv, nblk' = nblk,
           \A c \in Block : /\ blk'[c].fn = blk[c].fn
                            /\ blk'[c].succ = blk[c].succ
    PROVE  BlockEffect(0)
<1>1. nblk \in Nat
  BY StateFacts DEF CoreInv
<1> QED
  BY <1>1 DEF CoreInv, BranchInv, Unused, Detached, Effect, BlockEffect

LEMMA SimpleEffect ==
    ASSUME CoreInv, NEW emit \in BOOLEAN, NEW v \in {"null", "value"},
           SimpleStmt(emit, v)
    PROVE  /\ BlockEffect(0)
           /\ insert # 0 => blk'[insert].fn = blk[insert].fn
<1>1. nblk' = nblk
  BY DEF SimpleStmt
<1>2. \A c \in Block : /\ blk'[c].fn = blk[c].fn
                       /\ blk'[c].succ = blk[c].succ
  <2> TAKE c \in Block
  <2>1. CASE c = insert
    <3>1. insert # 0
      BY <2>1 DEF Block
    <3> QED
      BY <2>1, <3>1, SimpleBlocks, BuilderFacts, OpFacts DEF CoreInv
  <2>2. CASE c # insert
    BY <2>2, SimpleBlocks DEF CoreInv
  <2> QED
    BY <2>1, <2>2
<1> QED
  BY <1>1, <1>2, PlainEffect, BuilderFacts

LEMMA ReturnEffect ==
    ASSUME CoreInv, NEW v \in {"null", "value"}, NEW err \in BOOLEAN,
           ReturnStmt(v, err)
    PROVE  /\ BlockEffect(0)
           /\ insert # 0 => blk'[insert].fn = blk[insert].fn
<1>1. nblk' = nblk
  BY DEF ReturnStmt
<1>2. \A c \in Block : /\ blk'[c].fn = blk[c].fn
                       /\ blk'[c].succ = blk[c].succ
  <2> TAKE c \in Block
  <2>1. CASE c = insert
    <3>1. insert # 0
      BY <2>1 DEF Block
    <3>2. blk'[insert] = WithRet(blk[insert])
      BY <3>1, ReturnBlocks DEF CoreInv
    <3> QED
      BY <2>1, <3>1, <3>2, BuilderFacts, RetFacts, ZenonT(40)
  <2>2. CASE c # insert
    BY <2>2, ReturnBlocks DEF CoreInv
  <2> QED
    BY <2>1, <2>2
<1> QED
  BY <1>1, <1>2, PlainEffect, BuilderFacts

\* The construct a step begins is on top.
LEMMA PushedTop ==
    ASSUME CoreInv, insert # 0, NEW node \in {"then", "while", "for"},
           nblk' \in Nat, nblk + 1 + Span(node) <= nblk', nblk' >= nblk,
           Push(node, CurrentFn, nblk + 1)
    PROVE  /\ Len(frames') = Len(frames) + 1 /\ Len(frames') \in Pending'
           /\ Owed(frames'[Len(frames')]) =
                Owed([node |-> node, fn |-> CurrentFn, base |-> nblk + 1,
                      val |-> "undef"])
<1>1. CurrentFn \in 1..MaxFns /\ FramesOK /\ nblk \in Nat
  BY InsertFacts, StateFacts DEF CoreInv
<1>2. /\ Len(frames') = Len(frames) + 1 /\ Len(frames) \in Nat
      /\ frames'[Len(frames) + 1] = [node |-> node, fn |-> CurrentFn,
                                     base |-> nblk + 1, val |-> "undef"]
  BY <1>1, PushFrames DEF FramesOK
<1> QED
  BY <1>2 DEF Pending

\* Blocks as they are created, and the builder's block after a branch.
LEMMA CreatedBlocks ==
    ASSUME CoreInv, insert # 0, NEW targets \in SUBSET Block
    PROVE  /\ Fresh(CurrentFn) \in BlockState
           /\ Fresh(CurrentFn).fn = CurrentFn /\ Fresh(CurrentFn).succ = {}
           /\ Fresh(0).fn = 0 /\ Fresh(0).succ = {}
           /\ WithBr(blk[insert], targets).fn = CurrentFn
           /\ WithBr(blk[insert], targets).succ = blk[insert].succ \cup targets
           /\ WithBr(Fresh(CurrentFn), targets).fn = CurrentFn
           /\ WithBr(Fresh(CurrentFn), targets).succ = targets
<1>1. CurrentFn \in 0..MaxFns /\ 0 \in 0..MaxFns /\ blk[insert] \in BlockState
      /\ CurrentFn = blk[insert].fn
  BY BuilderFacts, StateFacts DEF CoreInv
<1>2. /\ Fresh(CurrentFn) \in BlockState
      /\ Fresh(CurrentFn).fn = CurrentFn /\ Fresh(CurrentFn).succ = {}
      /\ Fresh(0).fn = 0 /\ Fresh(0).succ = {}
  BY <1>1, FreshFacts
<1>3. /\ WithBr(blk[insert], targets).fn = CurrentFn
      /\ WithBr(blk[insert], targets).succ = blk[insert].succ \cup targets
  BY <1>1, BrFacts
<1>4. /\ WithBr(Fresh(CurrentFn), targets).fn = Fresh(CurrentFn).fn
      /\ WithBr(Fresh(CurrentFn), targets).succ
            = Fresh(CurrentFn).succ \cup targets
  BY <1>2, BrFacts
<1> QED
  BY <1>2, <1>3, <1>4

LEMMA BeginIfEffect ==
    ASSUME CoreInv, BeginIf
    PROVE  BlockEffect(CurrentFn) /\ blk'[insert'].fn = CurrentFn
<1>1. /\ insert # 0 /\ Room(3) /\ nblk' = nblk + 3 /\ insert' = nblk + 1
      /\ Push("then", CurrentFn, nblk + 1)
  BY DEF BeginIf
<1>2. nblk \in Nat /\ nblk' \in Nat /\ nblk' >= nblk
  BY <1>1, StateFacts DEF CoreInv
<1>3. /\ nblk + 1 \in Block /\ nblk + 2 \in Block /\ nblk + 3 \in Block
      /\ {nblk + 1, nblk + 2} \in SUBSET Block
  BY <1>1, NewBlocks, 1 \in 1..3, 2 \in 1..3, 3 \in 1..3 DEF CoreInv
<1>4. /\ blk'[insert] = WithBr(blk[insert], {nblk + 1, nblk + 2})
      /\ blk'[nblk + 1] = Fresh(CurrentFn)
      /\ blk'[nblk + 2] = Fresh(0) /\ blk'[nblk + 3] = Fresh(0)
      /\ \A c \in Block : c \notin {insert, nblk + 1, nblk + 2, nblk + 3}
                            => blk'[c] = blk[c]
  BY BeginIfBlocks DEF CoreInv
<1>5. /\ blk'[insert].fn = CurrentFn
      /\ blk'[insert].succ = blk[insert].succ \cup {nblk + 1, nblk + 2}
      /\ blk'[nblk + 1].fn = CurrentFn /\ blk'[nblk + 1].succ = {}
      /\ blk'[nblk + 2].fn = 0 /\ blk'[nblk + 2].succ = {}
      /\ blk'[nblk + 3].fn = 0 /\ blk'[nblk + 3].succ = {}
  BY <1>1, <1>3, <1>4, CreatedBlocks
<1>6. /\ Len(frames') \in Pending'
      /\ nblk + 2 \in Owed(frames'[Len(frames')])
  <2>1. nblk + 1 + Span("then") <= nblk' /\ nblk + 1 + 1 = nblk + 2
    BY <1>1, <1>2, SpanValues
  <2>2. nblk + 1 + 1 \in Owed([node |-> "then", fn |-> CurrentFn,
                               base |-> nblk + 1, val |-> "undef"])
    BY DEF Owed
  <2> QED
    BY <1>1, <1>2, <2>1, <2>2, PushedTop
<1>7. \A t \in {nblk + 1, nblk + 2} : NewEdge(insert, t)
  BY <1>1, <1>2, <1>5, <1>6, BuilderFacts DEF NewEdge
<1>8. ASSUME NEW c \in Block PROVE Effect(c, CurrentFn)
  <2>1. CASE c = insert
    <3>1. blk[c].fn # 0 /\ blk'[c].fn = blk[c].fn
      BY <1>1, <1>5, <2>1, BuilderFacts
    <3>2. blk'[c].succ \subseteq blk[c].succ \cup {nblk + 1, nblk + 2}
      BY <1>5, <2>1
    <3>3. \A t \in {nblk + 1, nblk + 2} : NewEdge(c, t)
      BY <1>7, <2>1
    <3> QED
      BY <1>2, <3>1, <3>2, <3>3, AppendedEffect DEF NewEdge
  <2>2. CASE c \in {nblk + 1, nblk + 2, nblk + 3}
    <3>1. c > nblk /\ c <= nblk'
      BY <1>1, <1>2, <2>2
    <3>2. blk'[c].fn \in {0, CurrentFn} /\ blk'[c].succ = {}
      BY <1>5, <2>2
    <3> QED
      BY <1>2, <3>1, <3>2, CreatedEffect
  <2>3. CASE c \notin {insert, nblk + 1, nblk + 2, nblk + 3}
    BY <1>2, <1>4, <2>3, UntouchedEffect
  <2> QED
    BY <2>1, <2>2, <2>3
<1> QED
  BY <1>1, <1>2, <1>5, <1>8 DEF BlockEffect

LEMMA WhileFailsEffect ==
    ASSUME CoreInv, WhileConditionFails
    PROVE  BlockEffect(CurrentFn) /\ blk'[insert'].fn = CurrentFn
<1>1. insert # 0 /\ Room(2) /\ nblk' = nblk + 2 /\ insert' = insert
  BY DEF WhileConditionFails
<1>2. nblk \in Nat /\ nblk' \in Nat /\ nblk' >= nblk
  BY <1>1, StateFacts DEF CoreInv
<1>3. /\ blk'[nblk + 1] = Fresh(CurrentFn) /\ blk'[nblk + 2] = Fresh(0)
      /\ \A c \in Block : c \notin {nblk + 1, nblk + 2} => blk'[c] = blk[c]
  BY WhileFailsBlocks DEF CoreInv
<1>4. /\ blk'[nblk + 1].fn = CurrentFn /\ blk'[nblk + 1].succ = {}
      /\ blk'[nblk + 2].fn = 0 /\ blk'[nblk + 2].succ = {}
  BY <1>1, <1>3, CreatedBlocks, {} \in SUBSET Block
<1>5. blk'[insert].fn = CurrentFn
  <2>1. insert \in Block /\ insert \notin {nblk + 1, nblk + 2}
    BY <1>1, <1>2, BuilderFacts
  <2> QED
    BY <1>1, <1>3, <2>1, BuilderFacts
<1>6. ASSUME NEW c \in Block PROVE Effect(c, CurrentFn)
  <2>1. CASE c \in {nblk + 1, nblk + 2}
    <3>1. c > nblk /\ c <= nblk'
      BY <1>1, <1>2, <2>1
    <3>2. blk'[c].fn \in {0, CurrentFn} /\ blk'[c].succ = {}
      BY <1>4, <2>1
    <3> QED
      BY <1>2, <3>1, <3>2, CreatedEffect
  <2>2. CASE c \notin {nblk + 1, nblk + 2}
    BY <1>2, <1>3, <2>2, UntouchedEffect
  <2> QED
    BY <2>1, <2>2
<1> QED
  BY <1>1, <1>2, <1>5, <1>6 DEF BlockEffect

LEMMA BeginWhileEffect ==
    ASSUME CoreInv, BeginWhile
    PROVE  BlockEffect(CurrentFn) /\ blk'[insert'].fn = CurrentFn
<1>1. /\ insert # 0 /\ Room(2) /\ nblk' = nblk + 2 /\ insert' = nblk + 1
      /\ Push("while", CurrentFn, nblk + 1)
  BY DEF BeginWhile
<1>2. nblk \in Nat /\ nblk' \in Nat /\ nblk' >= nblk
  BY <1>1, StateFacts DEF CoreInv
<1>3. /\ nblk + 1 \in Block /\ nblk + 2 \in Block
      /\ {nblk + 1, nblk + 2} \in SUBSET Block
  BY <1>1, NewBlocks, 1 \in 1..2, 2 \in 1..2 DEF CoreInv
<1>4. /\ blk'[insert] = WithBr(blk[insert], {nblk + 1, nblk + 2})
      /\ blk'[nblk + 1] = Fresh(CurrentFn) /\ blk'[nblk + 2] = Fresh(0)
      /\ \A c \in Block : c \notin {insert, nblk + 1, nblk + 2}
                            => blk'[c] = blk[c]
  BY BeginWhileBlocks DEF CoreInv
<1>5. /\ blk'[insert].fn = CurrentFn
      /\ blk'[insert].succ = blk[insert].succ \cup {nblk + 1, nblk + 2}
      /\ blk'[nblk + 1].fn = CurrentFn /\ blk'[nblk + 1].succ = {}
      /\ blk'[nblk + 2].fn = 0 /\ blk'[nblk + 2].succ = {}
  BY <1>1, <1>3, <1>4, CreatedBlocks
<1>6. /\ Len(frames') \in Pending'
      /\ nblk + 2 \in Owed(frames'[Len(frames')])
  <2>1. nblk + 1 + Span("while") <= nblk' /\ nblk + 1 + 1 = nblk + 2
    BY <1>1, <1>2, SpanValues
  <2>2. nblk + 1 + 1 \in Owed([node |-> "while", fn |-> CurrentFn,
                               base |-> nblk + 1, val |-> "undef"])
    BY DEF Owed
  <2> QED
    BY <1>1, <1>2, <2>1, <2>2, PushedTop
<1>7. \A t \in {nblk + 1, nblk + 2} : NewEdge(insert, t)
  BY <1>1, <1>2, <1>5, <1>6, BuilderFacts DEF NewEdge
<1>8. ASSUME NEW c \in Block PROVE Effect(c, CurrentFn)
  <2>1. CASE c = insert
    <3>1. blk[c].fn # 0 /\ blk'[c].fn = blk[c].fn
      BY <1>1, <1>5, <2>1, BuilderFacts
    <3>2. blk'[c].succ \subseteq blk[c].succ \cup {nblk + 1, nblk + 2}
      BY <1>5, <2>1
    <3>3. \A t \in {nblk + 1, nblk + 2} : NewEdge(c, t)
      BY <1>7, <2>1
    <3> QED
      BY <1>2, <3>1, <3>2, <3>3, AppendedEffect DEF NewEdge
  <2>2. CASE c \in {nblk + 1, nblk + 2}
    <3>1. c > nblk /\ c <= nblk'
      BY <1>1, <1>2, <2>2
    <3>2. blk'[c].fn \in {0, CurrentFn} /\ blk'[c].succ = {}
      BY <1>5, <2>2
    <3> QED
      BY <1>2, <3>1, <3>2, CreatedEffect
  <2>3. CASE c \notin {insert, nblk + 1, nblk + 2}
    BY <1>2, <1>4, <2>3, UntouchedEffect
  <2> QED
    BY <2>1, <2>2, <2>3
<1> QED
  BY <1>1, <1>2, <1>5, <1>8 DEF BlockEffect

\* The five blocks of a for statement, all placed at once; targets are the
\* branches its condition block gets.
LEMMA ForEffect ==
    ASSUME CoreInv, insert # 0, Room(5), nblk' = nblk + 5,
           NEW targets \in SUBSET {nblk + 3, nblk + 5},
           insert' \in {nblk + 2, nblk + 3},
           blk'[insert] = WithBr(blk[insert], {nblk + 1}),
           blk'[nblk + 1] = WithBr(Fresh(CurrentFn), {nblk + 2}),
           blk'[nblk + 2].fn = CurrentFn, blk'[nblk + 2].succ = targets,
           blk'[nblk + 3] = Fresh(CurrentFn),
           blk'[nblk + 4] = Fresh(CurrentFn),
           blk'[nblk + 5] = Fresh(CurrentFn),
           \A c \in Block :
             c \notin {insert, nblk + 1, nblk + 2, nblk + 3, nblk + 4, nblk + 5}
               => blk'[c] = blk[c]
    PROVE  BlockEffect(CurrentFn) /\ blk'[insert'].fn = CurrentFn
<1>1. nblk \in Nat /\ nblk' \in Nat /\ nblk' >= nblk
  BY StateFacts DEF CoreInv
<1>2. {nblk + 1} \in SUBSET Block /\ {nblk + 2} \in SUBSET Block
  BY NewBlocks, 1 \in 1..5, 2 \in 1..5 DEF CoreInv
<1>3. /\ blk'[insert].fn = CurrentFn
      /\ blk'[insert].succ = blk[insert].succ \cup {nblk + 1}
      /\ blk'[nblk + 1].fn = CurrentFn /\ blk'[nblk + 1].succ = {nblk + 2}
      /\ blk'[nblk + 3].fn = CurrentFn /\ blk'[nblk + 3].succ = {}
      /\ blk'[nblk + 4].fn = CurrentFn /\ blk'[nblk + 4].succ = {}
      /\ blk'[nblk + 5].fn = CurrentFn /\ blk'[nblk + 5].succ = {}
  BY <1>2, CreatedBlocks
<1>4. CurrentFn # 0 /\ blk[insert].fn = CurrentFn
  BY BuilderFacts
<1>5. blk'[insert'].fn = CurrentFn
  BY <1>3
<1> DEFINE new == {nblk + 1, nblk + 2, nblk + 3, nblk + 4, nblk + 5}
<1>6. \A c \in new : c > nblk /\ c <= nblk' /\ blk'[c].fn = CurrentFn
  BY <1>1, <1>3
<1>7. ASSUME NEW c, blk'[c].fn = CurrentFn, NEW t \in new
      PROVE  NewEdge(c, t)
  BY <1>4, <1>5, <1>6, <1>7 DEF NewEdge
<1>8. ASSUME NEW c \in Block PROVE Effect(c, CurrentFn)
  <2>1. CASE c = insert
    <3>1. \A t \in {nblk + 1} : NewEdge(c, t)
      BY <1>3, <1>7, <2>1
    <3>2. /\ blk[c].fn # 0 /\ blk'[c].fn = blk[c].fn
          /\ blk'[c].succ \subseteq blk[c].succ \cup {nblk + 1}
      BY <1>3, <1>4, <2>1
    <3> QED
      BY <1>1, <3>1, <3>2, AppendedEffect DEF NewEdge
  <2>2. CASE c \in new
    <3>1. blk'[c].succ \subseteq new
      BY <1>3, <2>2
    <3>2. \A t \in blk'[c].succ : NewEdge(c, t)
      BY <1>6, <1>7, <2>2, <3>1
    <3>3. /\ c > nblk /\ c <= nblk' /\ blk'[c].fn \in {0, CurrentFn}
          /\ blk'[c].fn = 0 => blk'[c].succ = {}
      BY <1>4, <1>6, <2>2
    <3> QED
      BY <1>1, <3>2, <3>3, CreatedEffect DEF NewEdge
  <2>3. CASE c # insert /\ c \notin new
    BY <1>1, <2>3, UntouchedEffect
  <2> QED
    BY <2>1, <2>2, <2>3
<1> QED
  BY <1>1, <1>5, <1>8 DEF BlockEffect

LEMMA ForFailsEffect ==
    ASSUME CoreInv, ForConditionFails
    PROVE  BlockEffect(CurrentFn) /\ blk'[insert'].fn = CurrentFn
<1>1. insert # 0 /\ Room(5) /\ nblk' = nblk + 5 /\ insert' = nblk + 2
  BY StateFacts DEF ForConditionFails, CoreInv
<1>2. blk'[nblk + 2] = Fresh(CurrentFn)
  BY ForFailsBlocks DEF CoreInv
<1>3. blk'[nblk + 2].fn = CurrentFn /\ blk'[nblk + 2].succ = {}
  BY <1>1, <1>2, CreatedBlocks, {} \in SUBSET Block
<1> QED
  BY <1>1, <1>3, ForFailsBlocks, ForEffect, {} \in SUBSET {nblk + 3, nblk + 5}
     DEF CoreInv

LEMMA BeginForEffect ==
    ASSUME CoreInv, BeginFor
    PROVE  BlockEffect(CurrentFn) /\ blk'[insert'].fn = CurrentFn
<1> DEFINE targets == {nblk + 3, nblk + 5}
<1>1. insert # 0 /\ Room(5) /\ nblk' = nblk + 5 /\ insert' = nblk + 3
  BY StateFacts DEF BeginFor, CoreInv
<1>2. targets \in SUBSET Block
  BY <1>1, NewBlocks, 3 \in 1..5, 5 \in 1..5 DEF CoreInv
<1>3. blk'[nblk + 2] = WithBr(Fresh(CurrentFn), targets)
  BY BeginForBlocks DEF CoreInv
<1>4. blk'[nblk + 2].fn = CurrentFn /\ blk'[nblk + 2].succ = targets
  BY <1>1, <1>2, <1>3, CreatedBlocks
<1> QED
  BY <1>1, <1>4, BeginForBlocks, ForEffect, targets \in SUBSET {nblk + 3, nblk + 5}
     DEF CoreInv

LEMMA BeginFunctionEffect ==
    ASSUME CoreInv, NEW hasArgs \in BOOLEAN, BeginFunction(hasArgs)
    PROVE  BlockEffect(nfn + 1) /\ blk'[insert'].fn = nfn + 1
<1>1. nblk' = nblk + 1 /\ insert' = nblk + 1
  BY DEF BeginFunction
<1>2. nblk \in Nat /\ nblk' \in Nat /\ nblk' >= nblk
  BY <1>1, StateFacts DEF CoreInv
<1>3. /\ nfn + 1 \in 1..MaxFns
      /\ blk'[nblk + 1] \in {Fresh(nfn + 1), WithOp(Fresh(nfn + 1))}
      /\ \A c \in Block : c # nblk + 1 => blk'[c] = blk[c]
  BY BeginFunctionBlocks DEF CoreInv
<1>4. blk'[nblk + 1].fn = nfn + 1 /\ blk'[nblk + 1].succ = {} /\ nfn + 1 # 0
  <2>1. nfn + 1 \in 0..MaxFns /\ nfn + 1 # 0
    BY <1>3, StateFacts DEF CoreInv
  <2>2. /\ Fresh(nfn + 1) \in BlockState
        /\ Fresh(nfn + 1).fn = nfn + 1 /\ Fresh(nfn + 1).succ = {}
    BY <2>1, FreshFacts
  <2>3. /\ WithOp(Fresh(nfn + 1)).fn = nfn + 1
        /\ WithOp(Fresh(nfn + 1)).succ = {}
    BY <2>2, OpFacts
  <2> QED
    BY <1>3, <2>1, <2>2, <2>3
<1>5. ASSUME NEW c \in Block PROVE Effect(c, nfn + 1)
  <2>1. CASE c = nblk + 1
    <3>1. /\ c > nblk /\ c <= nblk'
          /\ blk'[c].fn \in {0, nfn + 1} /\ blk'[c].succ = {}
      BY <1>1, <1>2, <1>4, <2>1
    <3> QED
      BY <1>2, <3>1, CreatedEffect
  <2>2. CASE c # nblk + 1
    BY <1>2, <1>3, <2>2, UntouchedEffect
  <2> QED
    BY <2>1, <2>2
<1> QED
  BY <1>1, <1>2, <1>4, <1>5 DEF BlockEffect

\* The blocks the construct on top kept, as they are placed.
LEMMA TopFresh ==
    ASSUME CoreInv, Top.node \in {"then", "else", "while", "for"}
    PROVE  /\ nblk \in Nat /\ 0 \in 0..MaxFns /\ Top.fn \in 0..MaxFns
           /\ Fresh(0) \in BlockState /\ Fresh(0).fn = 0 /\ Fresh(0).succ = {}
           /\ Fresh(Top.fn) \in BlockState
           /\ Fresh(Top.fn).fn = Top.fn /\ Fresh(Top.fn).succ = {}
           /\ WithRet(Fresh(Top.fn)).fn = Top.fn
           /\ WithRet(Fresh(Top.fn)).succ = {}
           /\ WithRet(InFn(Fresh(0), Top.fn)).fn = Top.fn
           /\ WithRet(InFn(Fresh(0), Top.fn)).succ = {}
<1>1. nblk \in Nat /\ 0 \in 0..MaxFns /\ Top.fn \in 0..MaxFns
  <2>1. Top.fn \in 1..MaxFns
    BY TopFacts DEF CoreInv
  <2> QED
    BY <2>1, StateFacts DEF CoreInv
<1>2. /\ Fresh(0) \in BlockState /\ Fresh(0).fn = 0 /\ Fresh(0).succ = {}
      /\ Fresh(Top.fn) \in BlockState
      /\ Fresh(Top.fn).fn = Top.fn /\ Fresh(Top.fn).succ = {}
  BY <1>1, FreshFacts
<1>3. /\ WithRet(Fresh(Top.fn)).fn = Top.fn
      /\ WithRet(Fresh(Top.fn)).succ = {}
  BY <1>2, RetFacts
<1>4. /\ InFn(Fresh(0), Top.fn) \in BlockState
      /\ InFn(Fresh(0), Top.fn).fn = Top.fn
      /\ InFn(Fresh(0), Top.fn).succ = {}
  BY <1>1, <1>2, InFnFacts
<1>5. /\ WithRet(InFn(Fresh(0), Top.fn)).fn = Top.fn
      /\ WithRet(InFn(Fresh(0), Top.fn)).succ = {}
  BY <1>4, RetFacts
<1> QED
  BY <1>1, <1>2, <1>3, <1>5

\* The else frame keeps the merge block.
LEMMA ElseTop ==
    ASSUME CoreInv, EndThen
    PROVE  /\ Len(frames') = Len(frames) /\ Len(frames') \in Pending'
           /\ Owed(frames'[Len(frames')]) = {Top.base + 2}
           /\ \A i \in 1..Len(frames) : /\ i < Len(frames) =>
                                             frames'[i].node = frames[i].node
                                        /\ frames'[i].fn = frames[i].fn
                                        /\ frames'[i].base = frames[i].base
<1>1. /\ Top.node = "then" /\ nblk' = nblk
      /\ frames' = [frames EXCEPT ![Len(frames)] = ElseFrame(@)]
  BY DEF EndThen, In
<1>2. FramesOK /\ nblk \in Nat
  BY StateFacts DEF CoreInv
<1>3. /\ FramesOK' /\ LoopsUnderWay' = LoopsUnderWay
      /\ Len(frames) >= 2 /\ Len(frames') = Len(frames)
      /\ frames'[Len(frames)].node = "else"
      /\ \A i \in 1..Len(frames) : /\ i < Len(frames) =>
                                        frames'[i].node = frames[i].node
                                   /\ frames'[i].fn = frames[i].fn
                                   /\ frames'[i].base = frames[i].base
  BY <1>1, <1>2, ElseFrames, Zenon
<1>4. Len(frames) \in 1..Len(frames)
  BY <1>2, <1>3 DEF FramesOK
<1>5. frames'[Len(frames)].base = Top.base
  BY <1>3, <1>4 DEF Top
<1> QED
  BY <1>3, <1>4, <1>5 DEF Pending, Owed

LEMMA EndThenEffect ==
    ASSUME CoreInv, EndThen
    PROVE  BlockEffect(Top.fn) /\ blk'[insert'].fn = Top.fn
<1> DEFINE elseB == Top.base + 1
           merge == Top.base + 2
<1>1. /\ Top.node = "then" /\ insert' = Top.base + 1 /\ nblk' = nblk
      /\ frames' = [frames EXCEPT ![Len(frames)] = ElseFrame(@)]
  BY DEF EndThen, In
<1>2. /\ elseB \in Block /\ elseB <= nblk /\ merge \in Block /\ merge <= nblk
      /\ Top.base \in Nat
  BY <1>1, TopBlocks, SpanValues DEF CoreInv
<1>3. /\ Len(frames) \in Pending /\ Top.fn # 0
      /\ ~nested => insert # 0 /\ blk[insert].fn = Top.fn
  BY <1>1, TopFn
<1>4. elseB \in Owed(Top) /\ merge \in Owed(Top)
  BY <1>1 DEF Owed
<1>5. /\ insert # elseB /\ blk[elseB] = Fresh(0)
      /\ insert # merge /\ blk[merge] = Fresh(0)
  BY <1>1, <1>4, TopOwed DEF CoreInv
<1>6. /\ nblk \in Nat /\ 0 \in 0..MaxFns /\ Top.fn \in 0..MaxFns
      /\ Fresh(0) \in BlockState /\ Fresh(0).fn = 0 /\ Fresh(0).succ = {}
      /\ nblk' \in Nat /\ nblk' >= nblk
  BY <1>1, TopFresh
<1>7. /\ \A c \in Block : c \notin {insert, elseB} => blk'[c] = blk[c]
      /\ insert \notin {0, elseB} =>
           blk'[insert] = BrUnlessTerminated(blk[insert], {merge})
      /\ blk'[elseB] = InFn(blk[elseB], Top.fn)
  BY <1>5, EndThenBlocks DEF CoreInv
<1>8. blk'[elseB].fn = Top.fn /\ blk'[elseB].succ = {}
  BY <1>5, <1>6, <1>7, InFnFacts
<1>9. blk'[merge].fn = 0
  <2>1. merge # elseB
    BY <1>2
  <2> QED
    BY <1>2, <1>5, <1>6, <1>7, <2>1
<1>10. /\ Len(frames') \in Pending'
       /\ merge \in Owed(frames'[Len(frames')])
  BY ElseTop
<1> HIDE DEF elseB, merge
<1>11. ASSUME NEW c \in Block PROVE Effect(c, Top.fn)
  <2>1. CASE c = insert
    <3>1. /\ insert # 0 /\ blk[insert] \in BlockState /\ blk[insert].fn # 0
      BY <2>1, BuilderFacts DEF Block
    <3>2. /\ blk'[c].fn = blk[c].fn
          /\ blk'[c].succ \subseteq blk[c].succ \cup {merge}
      <4>1. {merge} \in SUBSET Block
        BY <1>2
      <4> QED
        BY <1>5, <1>7, <2>1, <3>1, <4>1, BrUnlessFacts
    <3>3. NewEdge(c, merge)
      BY <1>1, <1>2, <1>3, <1>8, <1>9, <1>10, <2>1, <3>2 DEF NewEdge, elseB
    <3>4. \A t \in {merge} : NewEdge(c, t)
      BY <3>3
    <3>5. blk[c].fn # 0
      BY <2>1, <3>1
    <3> QED
      BY <1>6, <3>2, <3>4, <3>5, AppendedEffect DEF NewEdge
  <2>2. CASE c = elseB
    BY <1>1, <1>2, <1>3, <1>4, <1>5, <1>6, <1>8, <2>2, FilledEffect
  <2>3. CASE c \notin {insert, elseB}
    BY <1>1, <1>6, <1>7, <2>3, UntouchedEffect
  <2> QED
    BY <2>1, <2>2, <2>3
<1> QED
  BY <1>1, <1>6, <1>8, <1>11 DEF BlockEffect, elseB

LEMMA EndElseEffect ==
    ASSUME CoreInv, EndElse
    PROVE  BlockEffect(Top.fn) /\ blk'[insert'].fn = Top.fn
<1> DEFINE merge == Top.base + 2
<1>1. Top.node = "else" /\ insert' = merge /\ nblk' = nblk
  BY DEF EndElse, In
<1>2. merge \in Block /\ merge <= nblk
  BY <1>1, TopBlocks, SpanValues DEF CoreInv
<1>3. /\ Len(frames) \in Pending /\ Top.fn # 0
      /\ ~nested => insert # 0 /\ blk[insert].fn = Top.fn
  BY <1>1, TopFn
<1>4. merge \in Owed(Top)
  BY <1>1 DEF Owed
<1>5. insert # merge /\ blk[merge] = Fresh(0)
  BY <1>1, <1>4, TopOwed DEF CoreInv
<1>6. /\ nblk \in Nat /\ 0 \in 0..MaxFns /\ Top.fn \in 0..MaxFns
      /\ Fresh(0) \in BlockState /\ Fresh(0).fn = 0 /\ Fresh(0).succ = {}
      /\ nblk' \in Nat /\ nblk' >= nblk
  BY <1>1, TopFresh
<1>7. /\ \A c \in Block : c \notin {insert, merge} => blk'[c] = blk[c]
      /\ insert \notin {0, merge} =>
           blk'[insert] = BrUnlessTerminated(blk[insert], {merge})
      /\ blk'[merge] = InFn(blk[merge], Top.fn)
  BY <1>5, EndElseBlocks DEF CoreInv
<1>8. blk'[merge].fn = Top.fn /\ blk'[merge].succ = {}
  BY <1>5, <1>6, <1>7, InFnFacts
<1> HIDE DEF merge
<1>9. ASSUME NEW c \in Block PROVE Effect(c, Top.fn)
  <2>1. CASE c = insert
    <3>1. /\ insert # 0 /\ blk[insert] \in BlockState /\ blk[insert].fn # 0
      BY <2>1, BuilderFacts DEF Block
    <3>2. /\ blk'[c].fn = blk[c].fn
          /\ blk'[c].succ \subseteq blk[c].succ \cup {merge}
      <4>1. {merge} \in SUBSET Block
        BY <1>2
      <4> QED
        BY <1>5, <1>7, <2>1, <3>1, <4>1, BrUnlessFacts
    <3>3. NewEdge(c, merge)
      BY <1>1, <1>2, <1>3, <1>8, <2>1, <3>2 DEF NewEdge
    <3>4. \A t \in {merge} : NewEdge(c, t)
      BY <3>3
    <3>5. blk[c].fn # 0
      BY <2>1, <3>1
    <3> QED
      BY <1>6, <3>2, <3>4, <3>5, AppendedEffect DEF NewEdge
  <2>2. CASE c = merge
    BY <1>1, <1>2, <1>3, <1>4, <1>5, <1>6, <1>8, <2>2, FilledEffect
  <2>3. CASE c \notin {insert, merge}
    BY <1>1, <1>6, <1>7, <2>3, UntouchedEffect
  <2> QED
    BY <2>1, <2>2, <2>3
<1> QED
  BY <1>1, <1>6, <1>8, <1>9 DEF BlockEffect

LEMMA EndWhileEffect ==
    ASSUME CoreInv, EndWhile
    PROVE  BlockEffect(Top.fn) /\ blk'[insert'].fn = Top.fn
<1> DEFINE loop == Top.base
           after == Top.base + 1
<1>1. Top.node = "while" /\ insert' = after /\ nblk' = nblk
  BY DEF EndWhile, In
<1>2. /\ loop \in Block /\ loop <= nblk /\ loop # after
      /\ after \in Block /\ after <= nblk
  <2>1. /\ Top.base + 0 \in Block /\ Top.base + 0 <= nblk /\ Top.base \in Nat
        /\ after \in Block /\ after <= nblk
    BY <1>1, TopBlocks, SpanValues DEF CoreInv
  <2> QED
    BY <2>1
<1>3. /\ Len(frames) \in Pending /\ Top.fn # 0 /\ blk[loop].fn = Top.fn
      /\ ~nested => insert # 0 /\ blk[insert].fn = Top.fn
  BY <1>1, TopFn
<1>4. after \in Owed(Top)
  BY <1>1 DEF Owed
<1>5. insert # after /\ blk[after] = Fresh(0)
  BY <1>1, <1>4, TopOwed DEF CoreInv
<1>6. /\ nblk \in Nat /\ 0 \in 0..MaxFns /\ Top.fn \in 0..MaxFns
      /\ Fresh(0) \in BlockState /\ Fresh(0).fn = 0 /\ Fresh(0).succ = {}
      /\ nblk' \in Nat /\ nblk' >= nblk
  BY <1>1, TopFresh
<1>7. /\ \A c \in Block : c \notin {insert, after} => blk'[c] = blk[c]
      /\ insert # 0 => blk'[insert] = WithBr(blk[insert], {loop, after})
      /\ blk'[after] = WithRet(InFn(blk[after], Top.fn))
  BY <1>5, EndWhileBlocks DEF CoreInv
<1>8. blk'[after].fn = Top.fn /\ blk'[after].succ = {}
  BY <1>1, <1>5, <1>7, TopFresh
<1>9. insert # 0 =>
        /\ blk'[insert].fn = blk[insert].fn /\ blk[insert].fn # 0
        /\ blk'[insert].succ \subseteq blk[insert].succ \cup {loop, after}
  <2>1. {loop, after} \in SUBSET Block
    BY <1>2
  <2> QED
    BY <1>7, <2>1, BuilderFacts, BrFacts
<1>10. blk'[loop].fn = Top.fn
  BY <1>2, <1>3, <1>7, <1>9 DEF Block
<1> HIDE DEF loop, after
<1>11. ASSUME NEW c \in Block PROVE Effect(c, Top.fn)
  <2>1. CASE c = insert
    <3>1. /\ blk[c].fn # 0 /\ blk'[c].fn = blk[c].fn
          /\ blk'[c].succ \subseteq blk[c].succ \cup {loop, after}
      BY <1>9, <2>1 DEF Block
    <3>2. NewEdge(c, loop) /\ NewEdge(c, after)
      BY <1>1, <1>2, <1>3, <1>8, <1>10, <2>1, <3>1 DEF NewEdge
    <3>3. \A t \in {loop, after} : NewEdge(c, t)
      BY <3>2
    <3> QED
      BY <1>6, <3>1, <3>3, AppendedEffect DEF NewEdge
  <2>2. CASE c = after
    BY <1>1, <1>2, <1>3, <1>4, <1>5, <1>6, <1>8, <2>2, FilledEffect
  <2>3. CASE c \notin {insert, after}
    BY <1>1, <1>6, <1>7, <2>3, UntouchedEffect
  <2> QED
    BY <2>1, <2>2, <2>3
<1> QED
  BY <1>1, <1>6, <1>8, <1>11 DEF BlockEffect

LEMMA EndForEffect ==
    ASSUME CoreInv, EndFor
    PROVE  BlockEffect(Top.fn) /\ blk'[insert'].fn = Top.fn
<1> DEFINE cond == Top.base + 1
           iter == Top.base + 3
           after == Top.base + 4
<1>1. Top.node = "for" /\ insert' = after /\ nblk' = nblk
  BY DEF EndFor, In
<1>2. /\ cond \in Block /\ cond <= nblk /\ iter \in Block /\ iter <= nblk
      /\ after \in Block /\ after <= nblk
      /\ cond # iter /\ cond # after /\ iter # after
  <2>1. /\ cond \in Block /\ cond <= nblk /\ iter \in Block /\ iter <= nblk
        /\ after \in Block /\ after <= nblk /\ Top.base \in Nat
    BY <1>1, TopBlocks, SpanValues DEF CoreInv
  <2> QED
    BY <2>1
<1>3. /\ Len(frames) \in Pending /\ Top.fn # 0 /\ blk[cond].fn = Top.fn
      /\ ~nested => insert # 0 /\ blk[insert].fn = Top.fn
  BY <1>1, TopFn
<1>4. iter \in Owed(Top) /\ after \in Owed(Top)
  BY <1>1 DEF Owed
<1>5. /\ insert # iter /\ blk[iter] = Fresh(Top.fn)
      /\ insert # after /\ blk[after] = Fresh(Top.fn)
  BY <1>1, <1>4, TopOwed DEF CoreInv
<1>6. /\ nblk \in Nat /\ Top.fn \in 0..MaxFns /\ Fresh(Top.fn) \in BlockState
      /\ Fresh(Top.fn).fn = Top.fn /\ Fresh(Top.fn).succ = {}
      /\ nblk' \in Nat /\ nblk' >= nblk
  BY <1>1, TopFresh
<1>7. /\ \A c \in Block : c \notin {insert, iter, after} => blk'[c] = blk[c]
      /\ insert # 0 =>
           blk'[insert] \in {blk[insert], WithBr(blk[insert], {iter})}
      /\ blk'[iter] = WithBr(blk[iter], {cond})
      /\ blk'[after] = WithRet(blk[after])
  BY <1>5, EndForBlocks DEF CoreInv
<1>8. blk'[after].fn = Top.fn /\ blk'[after].succ = {}
  BY <1>1, <1>5, <1>7, TopFresh
<1>9. blk'[iter].fn = Top.fn /\ blk'[iter].succ = {cond}
  <2>1. {cond} \in SUBSET Block
    BY <1>2
  <2>2. blk'[iter].fn = Top.fn /\ blk'[iter].succ = {} \cup {cond}
    BY <1>5, <1>6, <1>7, <2>1, BrFacts
  <2> QED
    BY <2>2
<1>10. insert # 0 =>
        /\ blk'[insert].fn = blk[insert].fn /\ blk[insert].fn # 0
        /\ blk'[insert].succ \subseteq blk[insert].succ \cup {iter}
  <2>1. {iter} \in SUBSET Block
    BY <1>2
  <2> QED
    BY <1>7, <2>1, BuilderFacts, BrFacts
<1>11. blk'[cond].fn = Top.fn
  BY <1>2, <1>3, <1>7, <1>10 DEF Block
<1> HIDE DEF cond, iter, after
<1>12. ASSUME NEW c \in Block PROVE Effect(c, Top.fn)
  <2>1. CASE c = insert
    <3>1. /\ blk[c].fn # 0 /\ blk'[c].fn = blk[c].fn
          /\ blk'[c].succ \subseteq blk[c].succ \cup {iter}
      BY <1>10, <2>1 DEF Block
    <3>2. NewEdge(c, iter)
      BY <1>1, <1>2, <1>3, <1>8, <1>9, <2>1, <3>1 DEF NewEdge
    <3>3. \A t \in {iter} : NewEdge(c, t)
      BY <3>2
    <3> QED
      BY <1>6, <3>1, <3>3, AppendedEffect DEF NewEdge
  <2>2. CASE c = iter
    <3>1. /\ blk[c].fn # 0 /\ blk'[c].fn = blk[c].fn
          /\ blk'[c].succ \subseteq blk[c].succ \cup {cond}
      BY <1>3, <1>5, <1>6, <1>9, <2>2
    <3>2. NewEdge(c, cond)
      BY <1>1, <1>2, <1>3, <1>8, <1>9, <1>11, <2>2 DEF NewEdge
    <3>3. \A t \in {cond} : NewEdge(c, t)
      BY <3>2
    <3> QED
      BY <1>6, <3>1, <3>3, AppendedEffect DEF NewEdge
  <2>3. CASE c = after
    <3>1. /\ blk[c].fn # 0 /\ blk'[c].fn = blk[c].fn
          /\ blk'[c].succ \subseteq blk[c].succ \cup {}
      BY <1>3, <1>5, <1>6, <1>8, <2>3
    <3> QED
      BY <1>6, <3>1, AppendedEffect
  <2>4. CASE c \notin {insert, iter, after}
    BY <1>1, <1>6, <1>7, <2>4, UntouchedEffect
  <2> QED
    BY <2>1, <2>2, <2>3, <2>4
<1> QED
  BY <1>1, <1>6, <1>8, <1>12 DEF BlockEffect

-----------------------------------------------------------------------------
(* What a step does to the call stack.                                     *)

\* A frame of the next state is an old one or has its head placed already.
OldFrame(j) ==
    /\ j \in 2..Len(frames)
    /\ frames'[j].fn = frames[j].fn /\ frames'[j].base = frames[j].base
    /\ frames'[j].node = "for" => frames[j].node = "for"
NewFrame(j) ==
    /\ blk'[frames'[j].base].fn = frames'[j].fn
    /\ frames'[j].node = "for" =>
         blk'[frames'[j].base + 1].fn = frames'[j].fn

\* A block that was owed is placed, given up or still owed; one that is owed
\* was owed before, in the same function, or is new.
FrameEffect ==
    /\ \A i \in Pending : \A t \in Owed(frames[i]) :
         \/ blk'[t].fn # 0
         \/ t \in abandoned'
         \/ \E j \in Pending' : t \in Owed(frames'[j])
    /\ \A j \in Pending' : \A t \in Owed(frames'[j]) :
         t <= nblk => \E i \in Pending : /\ t \in Owed(frames[i])
                                         /\ frames'[j].fn = frames[i].fn
    /\ \A j \in 2..Len(frames') : OldFrame(j) \/ NewFrame(j)

\* The parts of a step the branches do not see.
OtherEffect(f) ==
    /\ nfn' \in Nat /\ nfn' >= nfn /\ f \in 0..nfn'
    /\ abandoned \subseteq abandoned'
    /\ nested => nested'

\* An effect of this kind preserves the invariant.
LEMMA BranchStep ==
    ASSUME CoreInv, TypeInv', NEW f,
           BlockEffect(f), FrameEffect, OtherEffect(f), OneFunction'
    PROVE  BranchInv'
<1>1. /\ nblk \in Nat /\ nblk' \in Nat /\ nblk' >= nblk /\ nfn \in Nat
      /\ \A c \in Block : c \in Nat
      /\ blk \in Blocks /\ blk' \in Blocks
  BY StateFacts, SMTT(30) DEF CoreInv, BlockEffect, Block, TypeInv, TypeOK, Blocks
<1>2. \A c \in Block : Effect(c, f)
  BY DEF BlockEffect
<1>3. \A c \in Block : blk[c].fn # 0 => blk'[c].fn = blk[c].fn
  BY <1>2 DEF Effect
<1>4. Unused'
  BY <1>2 DEF Effect, Unused
<1>5. FnsExist'
  <2>1. \A c \in Block : blk[c].fn <= nfn /\ blk[c].fn \in Nat
    BY <1>1 DEF CoreInv, BranchInv, FnsExist, Blocks, BlockState
  <2>2. nfn' \in Nat /\ nfn' >= nfn /\ f \in 0..nfn'
    BY DEF OtherEffect
  <2>3. ASSUME NEW c \in Block PROVE blk'[c].fn <= nfn'
    <3>1. CASE blk[c].fn # 0
      BY <1>1, <1>3, <2>1, <2>2, <3>1
    <3>2. CASE blk[c].fn = 0 /\ blk'[c].fn # 0
      BY <1>2, <2>2, <3>2 DEF Effect, NewlyPlaced
    <3>3. CASE blk'[c].fn = 0
      BY <2>2, <3>3
    <3> QED
      BY <3>1, <3>2, <3>3
  <2> QED
    BY <2>3 DEF FnsExist
<1>6. ASSUME NEW c \in Block, NEW t \in blk'[c].succ
      PROVE  (t \in blk[c].succ /\ t <= nblk) \/ NewEdge(c, t)
  BY <1>2, <1>6 DEF Effect, CoreInv, BranchInv, Targets
<1>7. \A c \in Block : \A t \in blk'[c].succ : t \in Block
  BY <1>1 DEF Blocks, BlockState
<1>8. Targets'
  <2>1. ASSUME NEW c \in Block, NEW t \in blk'[c].succ PROVE t <= nblk'
    <3>1. t \in Nat
      BY <1>1, <1>7
    <3> QED
      BY <1>1, <1>6, <3>1 DEF NewEdge
  <2> QED
    BY <2>1 DEF Targets
<1>9. Detached'
  BY <1>2 DEF Effect, Detached
<1>10. Heads'
  <2>1. ASSUME NEW j \in 2..Len(frames') PROVE NewFrame(j)
    <3>1. CASE OldFrame(j)
      <4>1. /\ HeadPlaced(frames[j]) /\ frames[j].fn # 0
            /\ frames[j].base >= 1 /\ frames[j].base \in Nat
            /\ frames[j].base + Span(frames[j].node) <= nblk
        <5>1. j \in 2..Len(frames) /\ j \in 1..Len(frames)
          BY <3>1 DEF OldFrame
        <5>2. frames[j] \in Frame
          BY <5>1 DEF CoreInv, TypeInv, FramesOK
        <5> QED
          BY <5>1, <5>2 DEF CoreInv, BranchInv, Heads, TypeInv, FramesOK, Frame
      <4>2. /\ frames[j].base \in Block
            /\ frames[j].node = "for" => frames[j].base + 1 \in Block
        <5>1. frames[j].node = "for" => Span(frames[j].node) = 4
          BY SpanValues
        <5>2. Span(frames[j].node) \in Nat
          BY DEF Span
        <5>3. nblk <= MaxBlocks /\ MaxBlocks \in Nat
          BY StateFacts DEF CoreInv
        <5>4. \A b, k \in Nat : b >= 1 /\ b + k <= nblk => b + k \in Block
          BY <1>1, <5>3 DEF Block
        <5>5. \A b, k \in Nat : b >= 1 /\ b + k <= nblk => b \in Block
          BY <1>1, <5>3 DEF Block
        <5>6. CASE frames[j].node = "for"
          <6>1. frames[j].base + 4 <= nblk
            BY <4>1, <5>1, <5>6
          <6>2. frames[j].base + 1 <= nblk
            BY <1>1, <4>1, <6>1
          <6> QED
            BY <4>1, <5>2, <5>4, <5>5, <6>2, 1 \in Nat
        <5>7. CASE frames[j].node # "for"
          BY <4>1, <5>2, <5>5, <5>7
        <5> QED
          BY <5>6, <5>7
      <4>3. blk'[frames[j].base].fn = frames[j].fn
        BY <1>3, <4>1, <4>2 DEF HeadPlaced
      <4>4. frames[j].node = "for" => blk'[frames[j].base + 1].fn = frames[j].fn
        BY <1>3, <4>1, <4>2 DEF HeadPlaced
      <4> QED
        BY <3>1, <4>3, <4>4 DEF OldFrame, NewFrame
    <3> QED
      BY <3>1 DEF FrameEffect
  <2> QED
    BY <2>1 DEF Heads, HeadPlaced, NewFrame
<1>11. \A i \in Pending : frames[i].fn # 0
  BY DEF Pending, CoreInv, TypeInv, FramesOK
<1>12. \A j \in Pending' : j \in 2..Len(frames')
  BY DEF Pending, TypeInv, FramesOK
<1>13. ASSUME ~nested', NEW c \in Block, NEW t \in blk'[c].succ,
              NEW j \in Pending', t \in Owed(frames'[j])
       PROVE  blk'[c].fn = frames'[j].fn
  <2>1. CASE t \in blk[c].succ /\ t <= nblk
    <3>1. PICK i \in Pending : t \in Owed(frames[i]) /\ frames'[j].fn = frames[i].fn
      BY <1>13, <2>1 DEF FrameEffect
    <3>2. blk[c].fn = frames[i].fn
      BY <1>13, <2>1, <3>1 DEF OtherEffect, CoreInv, BranchInv, EdgesHome
    <3> QED
      BY <1>3, <1>11, <3>1, <3>2
  <2>2. CASE NewEdge(c, t)
    <3>1. blk'[c].fn = blk'[insert'].fn
      BY <1>13, <2>2 DEF NewEdge, OtherEffect
    <3>2. frames'[j].fn = blk'[insert'].fn
      BY <1>12, <1>13 DEF OneFunction, CurrentFn
    <3> QED
      BY <3>1, <3>2
  <2> QED
    BY <1>6, <1>13, <2>1, <2>2
<1>14. EdgesHome'
  BY <1>13 DEF EdgesHome
<1>15. ASSUME ~nested', NEW c \in Block, NEW t \in blk'[c].succ,
              blk'[c].fn # 0, blk'[t].fn # 0
       PROVE  blk'[c].fn = blk'[t].fn
  <2>1. CASE t \in blk[c].succ /\ t <= nblk
    <3>1. t \in Block /\ blk[c].fn # 0
      BY <1>7, <1>15, <2>1 DEF CoreInv, BranchInv, Detached
    <3>2. blk'[c].fn = blk[c].fn
      BY <1>3, <3>1
    <3>3. CASE blk[t].fn # 0
      <4>1. blk[c].fn = blk[t].fn
        BY <1>15, <2>1, <3>1, <3>3
           DEF OtherEffect, CoreInv, BranchInv, IntraFunctionEdges, Placed
      <4> QED
        BY <1>3, <3>1, <3>2, <3>3, <4>1
    <3>4. CASE blk[t].fn = 0
      <4>1. /\ blk'[t].fn = f /\ Len(frames) \in Pending
            /\ t \in Owed(Top) /\ f = Top.fn
        BY <1>2, <1>15, <2>1, <3>1, <3>4 DEF Effect, NewlyPlaced
      <4>2. blk[c].fn = Top.fn
        BY <1>15, <2>1, <4>1
           DEF OtherEffect, CoreInv, BranchInv, EdgesHome, Top
      <4> QED
        BY <3>2, <4>1, <4>2
    <3> QED
      BY <3>3, <3>4
  <2>2. CASE NewEdge(c, t)
    BY <1>15, <2>2 DEF NewEdge, OtherEffect
  <2> QED
    BY <1>6, <1>15, <2>1, <2>2
<1>16. IntraFunctionEdges'
  BY <1>15 DEF IntraFunctionEdges, Placed
<1>17. ASSUME NEW c \in Block, NEW t \in blk'[c].succ
       PROVE  \/ blk'[t].fn # 0
              \/ t \in abandoned'
              \/ \E j \in Pending' : t \in Owed(frames'[j])
  <2>1. CASE t \in blk[c].succ /\ t <= nblk
    <3>1. \/ blk[t].fn # 0
          \/ t \in abandoned
          \/ \E i \in Pending : t \in Owed(frames[i])
      BY <2>1 DEF CoreInv, BranchInv, DanglingOnlyIfAbandoned, Placed
    <3>2. t \in Block
      BY <1>7, <1>17
    <3> QED
      BY <1>3, <3>1, <3>2 DEF FrameEffect, OtherEffect
  <2>2. CASE NewEdge(c, t)
    BY <2>2 DEF NewEdge
  <2> QED
    BY <1>6, <1>17, <2>1, <2>2
<1>18. DanglingOnlyIfAbandoned'
  BY <1>17 DEF DanglingOnlyIfAbandoned, Placed
<1> QED
  BY <1>4, <1>5, <1>8, <1>9, <1>10, <1>14, <1>16, <1>18 DEF BranchInv

\* The functions the builder and the construct on top are in exist.
LEMMA BuilderFnExists ==
    ASSUME CoreInv, insert # 0
    PROVE  CurrentFn \in 0..nfn
<1>1. insert \in Block /\ CurrentFn \in 0..MaxFns /\ CurrentFn = blk[insert].fn
  BY BuilderFacts
<1> QED
  BY <1>1, StateFacts DEF CoreInv, BranchInv, FnsExist

LEMMA TopFnExists ==
    ASSUME CoreInv, Top.node \in {"then", "else", "while", "for"}
    PROVE  Top.fn \in 0..nfn
<1>1. /\ Top.base + 0 \in Block /\ Top.base \in Nat /\ Top.fn \in 0..MaxFns
  BY TopBlocks, SpanValues DEF CoreInv
<1>2. blk[Top.base].fn = Top.fn /\ Top.base \in Block
  BY <1>1, TopFn
<1> QED
  BY <1>1, <1>2, StateFacts DEF CoreInv, BranchInv, FnsExist

\* Frames that stay: the blocks of those that are left are placed or given up.
LEMMA KeptFrames ==
    ASSUME CoreInv, FramesOK', Len(frames') <= Len(frames),
           \A i \in 1..Len(frames') : /\ frames'[i].node = frames[i].node
                                      /\ frames'[i].fn = frames[i].fn
                                      /\ frames'[i].base = frames[i].base,
           \A i \in Pending : i > Len(frames') =>
               \A t \in Owed(frames[i]) : blk'[t].fn # 0 \/ t \in abandoned'
    PROVE  FrameEffect
<1>1. /\ Len(frames) \in Nat /\ Len(frames') \in Nat
      /\ \A i \in 1..Len(frames') : i \in 1..Len(frames)
      /\ \A i \in 2..Len(frames') : i \in 2..Len(frames) /\ i \in 1..Len(frames')
  BY DEF CoreInv, TypeInv, FramesOK
<1>2. \A i \in 1..Len(frames') : Owed(frames'[i]) = Owed(frames[i])
  BY DEF Owed
<1>3. /\ \A i \in Pending : i <= Len(frames') => i \in Pending' /\ i \in 1..Len(frames')
      /\ \A i \in Pending' : i \in Pending /\ i \in 1..Len(frames')
  BY <1>1 DEF Pending
<1>4. ASSUME NEW i \in Pending, NEW t \in Owed(frames[i])
      PROVE  \/ blk'[t].fn # 0
             \/ t \in abandoned'
             \/ \E j \in Pending' : t \in Owed(frames'[j])
  <2>1. CASE i > Len(frames')
    BY <2>1
  <2>2. CASE i <= Len(frames')
    BY <1>2, <1>3, <2>2
  <2>3. i \in Nat
    BY <1>1 DEF Pending
  <2> QED
    BY <1>1, <2>1, <2>2, <2>3
<1>5. ASSUME NEW j \in Pending', NEW t \in Owed(frames'[j])
      PROVE  \E i \in Pending : t \in Owed(frames[i]) /\ frames'[j].fn = frames[i].fn
  BY <1>2, <1>3
<1>6. \A j \in 2..Len(frames') : OldFrame(j)
  BY <1>1 DEF OldFrame
<1> QED
  BY <1>4, <1>5, <1>6 DEF FrameEffect

\* The builder stays in the function of the frames that stay.
LEMMA OneFunctionKept ==
    ASSUME CoreInv, FramesOK', nested => nested', Len(frames') <= Len(frames),
           \A i \in 1..Len(frames') : frames'[i].fn = frames[i].fn,
           ~nested /\ insert # 0 => insert' # 0 /\ blk'[insert'].fn = CurrentFn
    PROVE  OneFunction'
<1>1. \A i \in 2..Len(frames') : i \in 2..Len(frames) /\ i \in 1..Len(frames')
  BY DEF CoreInv, TypeInv, FramesOK
<1>2. ASSUME ~nested', NEW i \in 2..Len(frames')
      PROVE  insert' # 0 /\ frames'[i].fn = blk'[insert'].fn
  <2>1. insert # 0 /\ frames[i].fn = CurrentFn
    BY <1>1, <1>2 DEF CoreInv, BranchInv, OneFunction
  <2> QED
    BY <1>1, <1>2, <2>1
<1> QED
  BY <1>2 DEF OneFunction, CurrentFn

\* A statement without a frame of its own.
LEMMA SameStep ==
    ASSUME CoreInv, TypeInv', NEW v \in {"null", "value"},
           frames' = SetVal(frames, v), NEW f, BlockEffect(f), OtherEffect(f),
           insert # 0 => insert' # 0 /\ blk'[insert'].fn = CurrentFn
    PROVE  BranchInv'
<1>1. FramesOK /\ FramesOK'
  BY DEF CoreInv, TypeInv
<1>2. /\ Len(SetVal(frames, v)) = Len(frames)
      /\ \A i \in 1..Len(frames) :
            /\ SetVal(frames, v)[i].node = frames[i].node
            /\ SetVal(frames, v)[i].fn = frames[i].fn
            /\ SetVal(frames, v)[i].base = frames[i].base
  <2>1. frames \in Seq(Frame) /\ Len(frames) >= 1
    BY <1>1 DEF FramesOK
  <2>2. v \in {"undef", "null", "value"}
    OBVIOUS
  <2> QED
    BY <2>1, <2>2, SetValFacts
<1>3. /\ Len(frames') = Len(frames) /\ Len(frames) \in Nat
      /\ \A i \in 1..Len(frames') : /\ frames'[i].node = frames[i].node
                                    /\ frames'[i].fn = frames[i].fn
                                    /\ frames'[i].base = frames[i].base
  BY <1>1, <1>2 DEF FramesOK
<1>4. FrameEffect
  <2>1. \A i \in Pending : ~(i > Len(frames'))
    BY <1>3 DEF Pending
  <2> QED
    BY <1>1, <1>3, <2>1, KeptFrames
<1>5. OneFunction'
  BY <1>1, <1>3, OneFunctionKept DEF OtherEffect
<1> QED
  BY <1>4, <1>5, BranchStep

\* The end of a construct: its blocks are placed or given up.
LEMMA PopStep ==
    ASSUME CoreInv, TypeInv', Top.node # "module", nblk' = nblk,
           NEW v \in {"null", "value"}, Pop(v),
           NEW f, BlockEffect(f), OtherEffect(f),
           \A t \in Owed(Top) : blk'[t].fn # 0 \/ t \in abandoned',
           ~nested /\ insert # 0 => insert' # 0 /\ blk'[insert'].fn = CurrentFn
    PROVE  BranchInv'
<1>1. FramesOK /\ FramesOK' /\ nblk \in Nat
  BY StateFacts DEF CoreInv, TypeInv
<1>2. /\ Len(frames) >= 2 /\ Len(frames') = Len(frames) - 1
      /\ \A i \in 1..Len(frames') : /\ frames'[i].node = frames[i].node
                                    /\ frames'[i].fn = frames[i].fn
                                    /\ frames'[i].base = frames[i].base
  BY <1>1, PopFrames
<1>3. Len(frames') <= Len(frames) /\ Len(frames) \in Nat
  BY <1>1, <1>2 DEF FramesOK
<1>4. FrameEffect
  <2>1. \A i \in Pending : i > Len(frames') => i = Len(frames)
    BY <1>2, <1>3 DEF Pending
  <2>2. \A i \in Pending : i > Len(frames') =>
            \A t \in Owed(frames[i]) : blk'[t].fn # 0 \/ t \in abandoned'
    BY <2>1 DEF Top
  <2> QED
    BY <1>1, <1>2, <1>3, <2>2, KeptFrames
<1>5. OneFunction'
  BY <1>1, <1>2, <1>3, OneFunctionKept DEF OtherEffect
<1> QED
  BY <1>4, <1>5, BranchStep

\* The beginning of a construct in the function f the builder goes on in.
LEMMA PushStep ==
    ASSUME CoreInv, TypeInv', NEW node \in {"func", "then", "while", "for"},
           NEW f \in 1..MaxFns, nblk + 1 + Span(node) <= nblk',
           Push(node, f, nblk + 1), BlockEffect(f), OtherEffect(f),
           blk'[nblk + 1].fn = f,
           node = "for" => blk'[nblk + 2].fn = f,
           insert' # 0, blk'[insert'].fn = f,
           ~nested' => Len(frames) = 1 \/ (insert # 0 /\ f = CurrentFn)
    PROVE  BranchInv'
<1>1. FramesOK /\ FramesOK' /\ nblk \in Nat /\ nblk' \in Nat /\ nblk' >= nblk
  BY StateFacts DEF CoreInv, TypeInv, TypeOK, BlockEffect
<1> DEFINE n == Len(frames) + 1
           new == [node |-> node, fn |-> f, base |-> nblk + 1, val |-> "undef"]
<1>2. /\ Len(frames') = n /\ frames'[n] = new
      /\ \A i \in 1..Len(frames) : frames'[i] = frames[i]
  BY <1>1, PushFrames
<1>3. Len(frames) \in Nat /\ Len(frames) >= 1
  BY <1>1 DEF FramesOK
<1>4. /\ \A i \in Pending : i \in Pending' /\ i \in 1..Len(frames)
      /\ \A i \in Pending' : i # n => i \in Pending /\ i \in 1..Len(frames)
      /\ \A i \in 2..Len(frames') : i # n => i \in 2..Len(frames) /\ i \in 1..Len(frames)
  BY <1>2, <1>3 DEF Pending
<1>5. \A t \in Owed(new) : ~(t <= nblk)
  BY <1>1 DEF Owed
<1>6. FrameEffect
  <2>1. \A i \in Pending : \A t \in Owed(frames[i]) :
          \E j \in Pending' : t \in Owed(frames'[j])
    BY <1>2, <1>4
  <2>2. \A j \in Pending' : \A t \in Owed(frames'[j]) :
          t <= nblk => \E i \in Pending : /\ t \in Owed(frames[i])
                                          /\ frames'[j].fn = frames[i].fn
    BY <1>2, <1>4, <1>5
  <2>3. NewFrame(n)
    <3>1. nblk + 1 + 1 = nblk + 2
      BY <1>1
    <3> QED
      BY <1>2, <3>1 DEF NewFrame
  <2>4. \A j \in 2..Len(frames') : j # n => OldFrame(j)
    BY <1>2, <1>4 DEF OldFrame
  <2> QED
    BY <2>1, <2>2, <2>3, <2>4 DEF FrameEffect
<1>7. OneFunction'
  <2>1. ASSUME ~nested', NEW j \in 2..Len(frames') PROVE frames'[j].fn = f
    <3>1. CASE j = n
      BY <1>2, <3>1
    <3>2. CASE j # n
      <4>1. j \in 2..Len(frames) /\ frames'[j] = frames[j]
        BY <1>2, <1>4, <3>2
      <4>2. frames[j].fn = CurrentFn /\ ~(Len(frames) = 1)
        BY <1>3, <2>1, <4>1 DEF CoreInv, BranchInv, OneFunction, OtherEffect
      <4> QED
        BY <2>1, <4>1, <4>2
    <3> QED
      BY <3>1, <3>2
  <2> QED
    BY <2>1 DEF OneFunction, CurrentFn
<1> QED
  BY <1>6, <1>7, BranchStep

\* From the then to the else branch: the else block is placed.
LEMMA ElseStep ==
    ASSUME CoreInv, TypeInv', EndThen
    PROVE  BranchInv'
<1>1. /\ Top.node = "then" /\ insert' = Top.base + 1
      /\ UNCHANGED <<nfn, abandoned, nested>>
  BY DEF EndThen, In
<1>2. BlockEffect(Top.fn) /\ blk'[insert'].fn = Top.fn
  BY EndThenEffect
<1>3. /\ Len(frames) \in Pending /\ Top.fn # 0 /\ Top.base \in Nat
      /\ ~nested => insert # 0 /\ blk[insert].fn = Top.fn
  BY <1>1, TopFn, TopBlocks, SpanValues DEF CoreInv
<1>4. /\ Len(frames') = Len(frames) /\ Len(frames') \in Pending'
      /\ Owed(frames'[Len(frames')]) = {Top.base + 2}
      /\ \A i \in 1..Len(frames) : /\ i < Len(frames) =>
                                        frames'[i].node = frames[i].node
                                   /\ frames'[i].fn = frames[i].fn
                                   /\ frames'[i].base = frames[i].base
  BY ElseTop
<1>5. FramesOK /\ FramesOK' /\ Len(frames) \in Nat
  BY DEF CoreInv, TypeInv, FramesOK
<1>6. Owed(frames[Len(frames)]) = {Top.base + 1, Top.base + 2}
  BY <1>1 DEF Owed, Top
<1>7. /\ \A i \in 1..Len(frames) : i # Len(frames) => i < Len(frames)
      /\ \A i \in Pending : i \in 1..Len(frames)
      /\ \A i \in Pending' : i \in 1..Len(frames)
  BY <1>4, <1>5 DEF Pending
<1>8. \A i \in 1..Len(frames) : i # Len(frames) =>
        /\ Owed(frames'[i]) = Owed(frames[i])
        /\ i \in Pending <=> i \in Pending'
  BY <1>4, <1>7 DEF Owed, Pending
<1>9. FrameEffect
  <2>1. ASSUME NEW i \in Pending, NEW t \in Owed(frames[i])
        PROVE  blk'[t].fn # 0 \/ \E j \in Pending' : t \in Owed(frames'[j])
    <3>1. CASE i = Len(frames)
      BY <1>1, <1>2, <1>3, <1>4, <1>6, <3>1
    <3>2. CASE i # Len(frames)
      BY <1>7, <1>8, <3>2
    <3> QED
      BY <3>1, <3>2
  <2>2. ASSUME NEW j \in Pending', NEW t \in Owed(frames'[j])
        PROVE  \E i \in Pending : t \in Owed(frames[i]) /\ frames'[j].fn = frames[i].fn
    <3>1. CASE j = Len(frames)
      BY <1>3, <1>4, <1>6, <1>7, <3>1
    <3>2. CASE j # Len(frames)
      BY <1>4, <1>7, <1>8, <3>2
    <3> QED
      BY <3>1, <3>2
  <2>3. \A j \in 2..Len(frames') : OldFrame(j)
    <3> TAKE j \in 2..Len(frames')
    <3>1. j \in 2..Len(frames) /\ j \in 1..Len(frames)
      BY <1>4, <1>5
    <3>2. frames'[j].node = "for" => frames[j].node = "for"
      <4>1. CASE j = Len(frames)
        <5>1. frames'[j].node # "for"
          <6>1. SUFFICES ASSUME frames'[j].node = "for" PROVE FALSE
            OBVIOUS
          <6>2. Owed(frames'[j]) = {frames'[j].base + 3, frames'[j].base + 4}
            BY <6>1 DEF Owed
          <6>3. frames'[j].base = Top.base
            BY <1>4, <3>1, <4>1 DEF Top
          <6>4. {Top.base + 3, Top.base + 4} = {Top.base + 2}
            BY <1>4, <4>1, <6>2, <6>3
          <6>5. Top.base + 3 = Top.base + 2
            BY <6>4
          <6> QED
            BY <1>3, <6>5
        <5> QED
          BY <5>1
      <4>2. CASE j # Len(frames)
        BY <1>4, <1>7, <3>1, <4>2
      <4> QED
        BY <4>1, <4>2
    <3> QED
      BY <1>4, <3>1, <3>2 DEF OldFrame
  <2> QED
    BY <2>1, <2>2, <2>3 DEF FrameEffect
<1>10. OneFunction'
  <2>1. Len(frames') <= Len(frames)
    BY <1>4, <1>5
  <2>2. \A i \in 1..Len(frames') : frames'[i].fn = frames[i].fn
    BY <1>4
  <2>3. ~nested /\ insert # 0 => insert' # 0 /\ blk'[insert'].fn = CurrentFn
    BY <1>1, <1>2, <1>3 DEF CurrentFn
  <2> QED
    BY <1>1, <1>5, <2>1, <2>2, <2>3, OneFunctionKept
<1>11. OtherEffect(Top.fn)
  <2>1. Top.fn \in 0..nfn
    BY <1>1, TopFnExists
  <2> QED
    BY <1>1, <2>1, StateFacts DEF OtherEffect, CoreInv
<1> QED
  BY <1>2, <1>9, <1>10, <1>11, BranchStep

\* Steps that change no block.
LEMMA NoBlockEffect ==
    ASSUME CoreInv, UNCHANGED <<blk, nblk>>
    PROVE  BlockEffect(0)
<1>1. \A c \in Block : /\ blk'[c].fn = blk[c].fn
                       /\ blk'[c].succ = blk[c].succ
  OBVIOUS
<1> QED
  BY <1>1, PlainEffect

LEMMA BranchNext ==
    ASSUME CoreInv, [Next]_vars PROVE BranchInv'
<1>1. TypeInv'
  BY TypeInvNext DEF CoreInv
<1>2. /\ nblk \in Nat /\ nfn \in Nat /\ MaxFns \in Nat /\ MaxBlocks \in Nat
      /\ nfn \in 0..MaxFns /\ FramesOK /\ insert \in 0..nblk
  BY StateFacts DEF CoreInv
<1>3. ASSUME NEW f \in 0..nfn, UNCHANGED <<nfn, abandoned, nested>>
      PROVE  OtherEffect(f)
  BY <1>2, <1>3 DEF OtherEffect
<1>4. insert # 0 =>
        /\ CurrentFn \in 0..nfn /\ CurrentFn \in 1..MaxFns
        /\ CurrentFn = blk[insert].fn
  BY BuilderFnExists, InsertFacts DEF CoreInv, CurrentFn
<1>5. ASSUME NEW emit \in BOOLEAN, NEW v \in {"null", "value"},
             SimpleStmt(emit, v)
      PROVE  BranchInv'
  <2>1. /\ frames' = SetVal(frames, v) /\ insert' = insert
        /\ UNCHANGED <<nfn, abandoned, nested>>
    BY <1>5 DEF SimpleStmt
  <2>2. BlockEffect(0) /\ (insert # 0 => blk'[insert].fn = blk[insert].fn)
    BY <1>5, SimpleEffect
  <2>3. OtherEffect(0)
    BY <1>2, <1>3, <2>1
  <2> QED
    BY <1>1, <1>4, <2>1, <2>2, <2>3, SameStep
<1>6. ASSUME NEW v \in {"null", "value"}, NEW err \in BOOLEAN,
             ReturnStmt(v, err)
      PROVE  BranchInv'
  <2>1. /\ frames' = SetVal(frames, v) /\ insert' = insert
        /\ UNCHANGED <<nfn, abandoned, nested>>
    BY <1>6 DEF ReturnStmt
  <2>2. BlockEffect(0) /\ (insert # 0 => blk'[insert].fn = blk[insert].fn)
    BY <1>6, ReturnEffect
  <2>3. OtherEffect(0)
    BY <1>2, <1>3, <2>1
  <2> QED
    BY <1>1, <1>4, <2>1, <2>2, <2>3, SameStep
<1>7. CASE BeginIf
  <2>1. /\ insert # 0 /\ nblk' = nblk + 3 /\ insert' = nblk + 1
        /\ Push("then", CurrentFn, nblk + 1)
        /\ UNCHANGED <<nfn, abandoned, nested>>
    BY <1>7 DEF BeginIf
  <2>2. BlockEffect(CurrentFn) /\ blk'[nblk + 1].fn = CurrentFn
    BY <1>7, <2>1, BeginIfEffect
  <2>3. OtherEffect(CurrentFn)
    BY <1>3, <1>4, <2>1
  <2>4. nblk + 1 + Span("then") <= nblk' /\ insert' # 0
    BY <1>2, <2>1, SpanValues
  <2> QED
    BY <1>1, <1>4, <2>1, <2>2, <2>3, <2>4, PushStep
<1>8. CASE AbandonIf
  <2>1. /\ Top.node \in {"then", "else"} /\ Pop("null")
        /\ abandoned' = abandoned \cup
             (IF Top.node = "then" THEN {Top.base + 1, Top.base + 2}
                                   ELSE {Top.base + 2})
        /\ UNCHANGED <<blk, nblk, nfn, insert, nested>>
    BY <1>8 DEF AbandonIf
  <2>2. \A t \in Owed(Top) : t \in abandoned'
    BY <2>1 DEF Owed
  <2>3. BlockEffect(0) /\ OtherEffect(0)
    BY <1>2, <2>1, NoBlockEffect DEF OtherEffect
  <2> QED
    BY <1>1, <1>4, <2>1, <2>2, <2>3, PopStep
<1>9. CASE EndThen
  BY <1>1, <1>9, ElseStep
<1>10. CASE EndElse
  <2>1. /\ Top.node = "else" /\ insert' = Top.base + 2 /\ Pop("null")
        /\ UNCHANGED <<nblk, nfn, abandoned, nested>>
    BY <1>10 DEF EndElse, In
  <2>2. BlockEffect(Top.fn) /\ blk'[insert'].fn = Top.fn
    BY <1>10, EndElseEffect
  <2>3. OtherEffect(Top.fn)
    BY <1>3, <2>1, TopFnExists
  <2>4. /\ Top.fn # 0 /\ Top.base \in Nat
        /\ ~nested => insert # 0 /\ blk[insert].fn = Top.fn
    BY <2>1, TopFn, TopBlocks, SpanValues DEF CoreInv
  <2>5. \A t \in Owed(Top) : blk'[t].fn # 0
    BY <2>1, <2>2, <2>4 DEF Owed
  <2>6. ~nested /\ insert # 0 => insert' # 0 /\ blk'[insert'].fn = CurrentFn
    BY <1>4, <2>1, <2>2, <2>4
  <2> QED
    BY <1>1, <2>1, <2>2, <2>3, <2>5, <2>6, PopStep
<1>11. CASE WhileConditionFails
  <2>1. /\ insert # 0 /\ insert' = insert /\ frames' = SetVal(frames, "null")
        /\ UNCHANGED <<nfn, abandoned, nested>>
    BY <1>11 DEF WhileConditionFails
  <2>2. BlockEffect(CurrentFn) /\ blk'[insert'].fn = CurrentFn
    BY <1>11, WhileFailsEffect
  <2>3. OtherEffect(CurrentFn)
    BY <1>3, <1>4, <2>1
  <2> QED
    BY <1>1, <2>1, <2>2, <2>3, SameStep
<1>12. CASE BeginWhile
  <2>1. /\ insert # 0 /\ nblk' = nblk + 2 /\ insert' = nblk + 1
        /\ Push("while", CurrentFn, nblk + 1)
        /\ UNCHANGED <<nfn, abandoned, nested>>
    BY <1>12 DEF BeginWhile
  <2>2. BlockEffect(CurrentFn) /\ blk'[nblk + 1].fn = CurrentFn
    BY <1>12, <2>1, BeginWhileEffect
  <2>3. OtherEffect(CurrentFn)
    BY <1>3, <1>4, <2>1
  <2>4. nblk + 1 + Span("while") <= nblk' /\ insert' # 0
    BY <1>2, <2>1, SpanValues
  <2> QED
    BY <1>1, <1>4, <2>1, <2>2, <2>3, <2>4, PushStep
<1>13. CASE EndWhile
  <2>1. /\ Top.node = "while" /\ insert' = Top.base + 1 /\ Pop("null")
        /\ UNCHANGED <<nblk, nfn, abandoned, nested>>
    BY <1>13 DEF EndWhile, In
  <2>2. BlockEffect(Top.fn) /\ blk'[insert'].fn = Top.fn
    BY <1>13, EndWhileEffect
  <2>3. OtherEffect(Top.fn)
    BY <1>3, <2>1, TopFnExists
  <2>4. /\ Top.fn # 0 /\ Top.base \in Nat
        /\ ~nested => insert # 0 /\ blk[insert].fn = Top.fn
    BY <2>1, TopFn, TopBlocks, SpanValues DEF CoreInv
  <2>5. \A t \in Owed(Top) : blk'[t].fn # 0
    BY <2>1, <2>2, <2>4 DEF Owed
  <2>6. ~nested /\ insert # 0 => insert' # 0 /\ blk'[insert'].fn = CurrentFn
    BY <1>4, <2>1, <2>2, <2>4
  <2> QED
    BY <1>1, <2>1, <2>2, <2>3, <2>5, <2>6, PopStep
<1>14. CASE ForConditionFails
  <2>1. /\ insert # 0 /\ insert' = nblk + 2 /\ frames' = SetVal(frames, "null")
        /\ UNCHANGED <<nfn, abandoned, nested>>
    BY <1>2, <1>14 DEF ForConditionFails
  <2>2. BlockEffect(CurrentFn) /\ blk'[insert'].fn = CurrentFn
    BY <1>14, ForFailsEffect
  <2>3. OtherEffect(CurrentFn)
    BY <1>3, <1>4, <2>1
  <2>4. insert' # 0
    BY <1>2, <2>1
  <2> QED
    BY <1>1, <2>1, <2>2, <2>3, <2>4, SameStep
<1>15. CASE BeginFor
  <2>1. /\ insert # 0 /\ nblk' = nblk + 5 /\ insert' = nblk + 3
        /\ Push("for", CurrentFn, nblk + 1) /\ Room(5)
        /\ UNCHANGED <<nfn, abandoned, nested>>
    BY <1>2, <1>15 DEF BeginFor
  <2>2. BlockEffect(CurrentFn) /\ blk'[insert'].fn = CurrentFn
    BY <1>15, BeginForEffect
  <2>3. OtherEffect(CurrentFn)
    BY <1>3, <1>4, <2>1
  <2>4. nblk + 1 + Span("for") <= nblk' /\ insert' # 0
    BY <1>2, <2>1, SpanValues
  <2>5. blk'[nblk + 1].fn = CurrentFn /\ blk'[nblk + 2].fn = CurrentFn
    <3>1. /\ blk'[nblk + 1] = WithBr(Fresh(CurrentFn), {nblk + 2})
          /\ blk'[nblk + 2] = WithBr(Fresh(CurrentFn), {nblk + 3, nblk + 5})
      BY <1>15, BeginForBlocks DEF CoreInv
    <3>2. {nblk + 2} \in SUBSET Block /\ {nblk + 3, nblk + 5} \in SUBSET Block
      BY <2>1, NewBlocks, 2 \in 1..5, 3 \in 1..5, 5 \in 1..5 DEF CoreInv
    <3> QED
      BY <2>1, <3>1, <3>2, CreatedBlocks
  <2> QED
    BY <1>1, <1>4, <2>1, <2>2, <2>3, <2>4, <2>5, PushStep
<1>16. CASE EndFor
  <2>1. /\ Top.node = "for" /\ insert' = Top.base + 4 /\ Pop("null")
        /\ UNCHANGED <<nblk, nfn, abandoned, nested>>
    BY <1>16 DEF EndFor, In
  <2>2. BlockEffect(Top.fn) /\ blk'[insert'].fn = Top.fn
    BY <1>16, EndForEffect
  <2>3. OtherEffect(Top.fn)
    BY <1>3, <2>1, TopFnExists
  <2>4. /\ Top.fn # 0 /\ Top.base \in Nat
        /\ ~nested => insert # 0 /\ blk[insert].fn = Top.fn
    BY <2>1, TopFn, TopBlocks, SpanValues DEF CoreInv
  <2>5. ASSUME NEW t \in Owed(Top) PROVE blk'[t].fn # 0
    <3>1. t \in Block /\ blk[t].fn # 0
      <4>1. t \in {Top.base + 3, Top.base + 4} /\ blk[t] = Fresh(Top.fn)
        BY <2>1, TopOwed DEF CoreInv, Owed
      <4>2. Top.base + 3 \in Block /\ Top.base + 4 \in Block
        BY <2>1, TopBlocks, SpanValues DEF CoreInv
      <4>3. Fresh(Top.fn).fn = Top.fn
        BY <2>1, TopFresh
      <4> QED
        BY <2>4, <4>1, <4>2, <4>3
    <3> QED
      BY <2>2, <3>1 DEF BlockEffect, Effect
  <2>6. ~nested /\ insert # 0 => insert' # 0 /\ blk'[insert'].fn = CurrentFn
    BY <1>4, <2>1, <2>2, <2>4
  <2> QED
    BY <1>1, <2>1, <2>2, <2>3, <2>5, <2>6, PopStep
<1>17. CASE ExternFunction
  <2>1. /\ frames' = SetVal(frames, "value") /\ insert' = insert
        /\ nfn' = nfn + 1 /\ UNCHANGED <<blk, nblk, abandoned, nested>>
    BY <1>17 DEF ExternFunction
  <2>2. BlockEffect(0)
    BY <2>1, NoBlockEffect
  <2>3. OtherEffect(0)
    BY <1>2, <2>1 DEF OtherEffect
  <2> QED
    BY <1>1, <1>4, <2>1, <2>2, <2>3, SameStep
<1>18. ASSUME NEW hasArgs \in BOOLEAN, BeginFunction(hasArgs)
       PROVE  BranchInv'
  <2>1. /\ nblk' = nblk + 1 /\ insert' = nblk + 1 /\ nfn' = nfn + 1
        /\ Push("func", nfn + 1, nblk + 1)
        /\ nested' = (nested \/ Len(frames) > 1) /\ abandoned' = abandoned
    BY <1>18 DEF BeginFunction
  <2>2. BlockEffect(nfn + 1) /\ blk'[nblk + 1].fn = nfn + 1
    BY <1>18, <2>1, BeginFunctionEffect
  <2>3. nfn + 1 \in 1..MaxFns
    BY <1>18, BeginFunctionBlocks DEF CoreInv
  <2>4. OtherEffect(nfn + 1)
    <3>1. nfn' \in Nat /\ nfn' >= nfn /\ nfn + 1 \in 0..nfn'
      BY <1>2, <2>1
    <3>2. (nested => nested') /\ abandoned \subseteq abandoned'
      BY <2>1, Zenon
    <3> QED
      BY <3>1, <3>2 DEF OtherEffect
  <2>5. nblk + 1 + Span("func") <= nblk' /\ insert' # 0
    BY <1>2, <2>1, SpanValues
  <2>6. ~nested' => Len(frames) = 1
    <3>1. ~nested' => ~(Len(frames) > 1)
      BY <2>1, Zenon
    <3>2. Len(frames) \in Nat /\ Len(frames) >= 1
      BY <1>2 DEF FramesOK
    <3> QED
      BY <3>1, <3>2
  <2> QED
    BY <1>1, <2>1, <2>2, <2>3, <2>4, <2>5, <2>6, PushStep
<1>19. CASE EndFunction
  <2>1. /\ Top.node = "func" /\ Pop("value")
        /\ UNCHANGED <<blk, nblk, nfn, insert, abandoned, nested>>
    BY <1>19 DEF EndFunction, In
  <2>2. Owed(Top) = {}
    BY <2>1 DEF Owed
  <2>3. BlockEffect(0) /\ OtherEffect(0)
    BY <1>2, <1>3, <2>1, NoBlockEffect
  <2> QED
    BY <1>1, <1>4, <2>1, <2>2, <2>3, PopStep
<1>20. CASE NullDereference \/ EndModule \/ Finished \/ UNCHANGED vars
  <2>1. UNCHANGED <<blk, nblk, nfn, insert, frames, abandoned, nested>>
    BY <1>20 DEF NullDereference, EndModule, Finished, vars
  <2> QED
    BY <2>1 DEF CoreInv, BranchInv, Unused, FnsExist, Targets, Detached, Heads,
                HeadPlaced, OneFunction, EdgesHome, IntraFunctionEdges, Placed,
                DanglingOnlyIfAbandoned, Pending, CurrentFn
<1> QED
  BY <1>5, <1>6, <1>7, <1>8, <1>9, <1>10, <1>11, <1>12, <1>13, <1>14, <1>15,
     <1>16, <1>17, <1>18, <1>19, <1>20 DEF Next, Statement, EndOfBlock

-----------------------------------------------------------------------------
(* The theorems on branches.                                               *)

LEMMA BranchInit == Init => BranchInv
<1> SUFFICES ASSUME Init PROVE BranchInv
  OBVIOUS
<1>1. /\ \A c \in Block : blk[c].fn = 0 /\ blk[c].succ = {}
      /\ nblk = 0 /\ nfn = 0 /\ Len(frames) = 1
  BY DEF Init, Fresh
<1>2. Heads /\ OneFunction
  BY <1>1 DEF Heads, OneFunction
<1> QED
  BY <1>1, <1>2 DEF BranchInv, Unused, FnsExist, Targets, Detached, EdgesHome,
                    IntraFunctionEdges, DanglingOnlyIfAbandoned

\* The inductive invariant: beside the blocks owed, where every branch leads
\* and which function its target is or will be in.
THEOREM CoreInvHolds == Spec => []CoreInv
<1>1. Init => CoreInv
  BY SafeInvInit, BranchInit DEF CoreInv, SafeInv
<1>2. CoreInv /\ [Next]_vars => CoreInv'
  BY TypeInvNext, OwedNext, BranchNext DEF CoreInv
<1> QED
  BY <1>1, <1>2, PTL DEF Spec

\* A branch leads to a block in a function, to one that a construct under way
\* will place, or to one an if statement gave up; loops included
\* (codegen.cpp:317-353, 361-419, 427-465).
THEOREM DanglingHolds == Spec => []DanglingOnlyIfAbandoned
<1>1. CoreInv => DanglingOnlyIfAbandoned
  BY DEF CoreInv, BranchInv
<1> QED
  BY <1>1, CoreInvHolds, PTL

\* Without nested function definitions no branch leaves its function
\* (codegen.cpp:314, :359, :425: the parent each construct reads once).
THEOREM IntraFunctionHolds == Spec => []IntraFunctionEdges
<1>1. CoreInv => IntraFunctionEdges
  BY DEF CoreInv, BranchInv
<1> QED
  BY <1>1, CoreInvHolds, PTL

\* The generator returns from the module's own frame only.
DoneAtModule == status = "done" => Len(frames) = 1

LEMMA DoneNext ==
    ASSUME CoreInv, DoneAtModule, [Next]_vars PROVE DoneAtModule'
<1>1. CASE EndModule
  <2>1. Top.node = "module" /\ frames' = frames
    BY <1>1 DEF EndModule, In
  <2>2. FramesOK /\ Len(frames) \in Nat /\ Len(frames) >= 1
    <3>1. frames \in Seq(Frame) /\ Len(frames) >= 1 /\ FramesOK
      BY DEF CoreInv, TypeInv, FramesOK
    <3> QED
      BY <3>1
  <2>3. Len(frames) = 1
    <3> DEFINE n == Len(frames)
    <3>1. n \in Nat /\ n >= 1 /\ (n # 1 => n \in 2..n)
      <4>1. \A m \in Nat : m >= 1 /\ m # 1 => m \in 2..m
        OBVIOUS
      <4> HIDE DEF n
      <4>2. n \in Nat /\ n >= 1
        BY <2>2 DEF n
      <4> QED
        BY <4>1, <4>2
    <3>2. n \in 2..n => frames[n].node # "module"
      BY <2>2 DEF FramesOK
    <3> QED
      BY <2>1, <3>1, <3>2 DEF Top
  <2> QED
    BY <2>1, <2>3 DEF DoneAtModule
<1>2. CASE ~EndModule /\ ~(Finished \/ UNCHANGED vars)
  <2>1. status = "running" /\ status' \in {status, "crashed"}
    BY <1>2 DEF Next, Statement, EndOfBlock, SimpleStmt, ReturnStmt, BeginIf,
       BeginWhile, BeginFor, WhileConditionFails, ForConditionFails,
       ExternFunction, BeginFunction, NullDereference, AbandonIf, EndThen,
       EndElse, EndWhile, EndFor, EndFunction, In, Running
  <2> QED
    BY <2>1 DEF DoneAtModule
<1>3. CASE Finished \/ UNCHANGED vars
  BY <1>3 DEF DoneAtModule, Finished, vars
<1> QED
  BY <1>1, <1>2, <1>3

\* In a module the generator has finished every branch leads to a block of some
\* function, except into the blocks an if statement gave up.
DoneComplete ==
    status = "done" =>
        \A b \in Block : \A t \in blk[b].succ : Placed(t) \/ t \in abandoned

\* What main() hands to the emitters has no other dangling branch
\* (codegen.cpp:25-29, :330-344).
THEOREM DoneCompleteHolds == Spec => []DoneComplete
<1>1. Init => CoreInv /\ DoneAtModule
  BY SafeInvInit, BranchInit DEF CoreInv, SafeInv, DoneAtModule, Init
<1>2. CoreInv /\ DoneAtModule /\ [Next]_vars => (CoreInv /\ DoneAtModule)'
  BY TypeInvNext, OwedNext, BranchNext, DoneNext DEF CoreInv
<1>3. CoreInv /\ DoneAtModule => DoneComplete
  <2> SUFFICES ASSUME CoreInv, DoneAtModule, status = "done" PROVE DoneComplete
    BY DEF DoneComplete
  <2>1. Pending = {}
    <3>1. Len(frames) = 1 /\ frames[1].node = "module"
      BY DEF DoneAtModule, CoreInv, TypeInv, FramesOK
    <3> QED
      BY <3>1 DEF Pending
  <2> QED
    BY <2>1 DEF DoneComplete, CoreInv, BranchInv, DanglingOnlyIfAbandoned
<1> QED
  BY <1>1, <1>2, <1>3, PTL DEF Spec

-----------------------------------------------------------------------------
(* The scope stack.  Its depth counts the loops under way and the functions *)
(* that have a block; a step adds a function to them only when it defines   *)
(* one, because every block a construct creates or places is in a function  *)
(* that already has one.                                                   *)

Bodies == {f \in Fn : \E b \in Block : blk[b].fn = f}

LEMMA BodiesFinite ==
    ASSUME CoreInv
    PROVE  IsFiniteSet(Bodies) /\ Cardinality(Bodies) \in Nat
<1>1. IsFiniteSet(1..MaxFns)
  BY FS_Interval, StateFacts DEF CoreInv
<1>2. Bodies \subseteq 1..MaxFns
  BY DEF Bodies, Fn
<1> QED
  BY <1>1, <1>2, FS_Subset, FS_CardinalityType

\* No step but a definition gives a function its first block.
LEMMA BodiesKept ==
    ASSUME CoreInv, NEW f, BlockEffect(f), f \in Fn => f \in Bodies
    PROVE  Bodies' = Bodies
<1>1. \A g \in Fn : g # 0
  BY DEF Fn
<1>2. \A c \in Block : Effect(c, f)
  BY DEF BlockEffect
<1>3. \A g \in Bodies : g \in Bodies'
  BY <1>1, <1>2 DEF Bodies, Effect
<1>4. ASSUME NEW g \in Bodies' PROVE g \in Bodies
  <2>1. g \in Fn /\ g # 0
    BY <1>1 DEF Bodies
  <2>2. PICK c \in Block : blk'[c].fn = g
    BY DEF Bodies
  <2>3. CASE blk[c].fn # 0
    BY <1>2, <2>1, <2>2, <2>3 DEF Bodies, Effect
  <2>4. CASE blk[c].fn = 0
    BY <1>2, <2>1, <2>2, <2>4 DEF Effect, NewlyPlaced
  <2> QED
    BY <2>3, <2>4
<1> QED
  BY <1>3, <1>4

\* A definition does.
LEMMA BodiesGrow ==
    ASSUME CoreInv, NEW hasArgs \in BOOLEAN, BeginFunction(hasArgs)
    PROVE  Cardinality(Bodies') = Cardinality(Bodies) + 1
<1>1. /\ BlockEffect(nfn + 1) /\ blk'[nblk + 1].fn = nfn + 1
      /\ nfn + 1 \in Fn /\ nfn \in Nat /\ nblk + 1 \in Block
  <2>1. insert' = nblk + 1 /\ Room(1) /\ 1 \in 1..1
    BY DEF BeginFunction
  <2>2. BlockEffect(nfn + 1) /\ blk'[insert'].fn = nfn + 1
    BY BeginFunctionEffect
  <2>3. nfn + 1 \in 1..MaxFns
    BY BeginFunctionBlocks DEF CoreInv
  <2> QED
    BY <2>1, <2>2, <2>3, NewBlocks, StateFacts DEF CoreInv, Fn
<1>2. \A c \in Block : Effect(c, nfn + 1)
  BY <1>1 DEF BlockEffect
<1>3. nfn + 1 \notin Bodies
  BY <1>1 DEF Bodies, CoreInv, BranchInv, FnsExist
<1>4. \A g \in Fn : g # 0
  BY DEF Fn
<1>5. Bodies' = Bodies \cup {nfn + 1}
  <2>1. \A g \in Bodies : g \in Bodies'
    BY <1>2, <1>4 DEF Bodies, Effect
  <2>2. nfn + 1 \in Bodies'
    BY <1>1 DEF Bodies
  <2>3. ASSUME NEW g \in Bodies', g # nfn + 1 PROVE g \in Bodies
    <3>1. g \in Fn /\ g # 0
      BY <1>4 DEF Bodies
    <3>2. PICK c \in Block : blk'[c].fn = g
      BY DEF Bodies
    <3>3. blk[c].fn = g
      BY <1>2, <2>3, <3>1, <3>2 DEF Effect, NewlyPlaced
    <3> QED
      BY <3>1, <3>3 DEF Bodies
  <2> QED
    BY <2>1, <2>2, <2>3
<1> QED
  BY <1>3, <1>5, BodiesFinite, FS_AddElement

\* The functions a step works in have a body.
LEMMA BuilderBody ==
    ASSUME CoreInv, insert # 0
    PROVE  CurrentFn \in Bodies
  BY InsertFacts, BuilderFacts DEF Bodies, Fn, CoreInv

LEMMA TopBody ==
    ASSUME CoreInv, Top.node \in {"then", "else", "while", "for"}
    PROVE  Top.fn \in Bodies
<1>1. /\ Top.base + 0 \in Block /\ Top.base \in Nat
  BY TopBlocks, SpanValues DEF CoreInv
<1>2. blk[Top.base].fn = Top.fn /\ Top.base \in Block /\ Top.fn \in 1..MaxFns
  BY <1>1, TopFn, TopFacts DEF CoreInv
<1> QED
  BY <1>2 DEF Bodies, Fn

ScopeInv == depth = Cardinality(Bodies) + Cardinality(LoopsUnderWay)

LEMMA ScopeSame ==
    ASSUME CoreInv, ScopeInv, NEW v \in {"null", "value"},
           frames' = SetVal(frames, v), nblk' \in Nat, depth' = depth,
           NEW f, BlockEffect(f), f \in Fn => f \in Bodies
    PROVE  ScopeInv'
<1>1. LoopsUnderWay' = LoopsUnderWay
  <2>1. FramesOK /\ nblk \in Nat /\ nblk' >= nblk /\ v \in {"undef", "null", "value"}
    BY StateFacts DEF CoreInv, BlockEffect
  <2> QED
    BY <2>1, SameFrames
<1>2. Bodies' = Bodies
  BY BodiesKept
<1> QED
  BY <1>1, <1>2 DEF ScopeInv

LEMMA ScopePush ==
    ASSUME CoreInv, ScopeInv, NEW node \in {"then", "while", "for"},
           Push(node, CurrentFn, nblk + 1), insert # 0,
           nblk' \in Nat, nblk + 1 + Span(node) <= nblk',
           depth' = IF node = "then" THEN depth ELSE depth + 1,
           BlockEffect(CurrentFn)
    PROVE  ScopeInv'
<1>1. /\ node \in {"while", "for"} =>
           LoopsUnderWay' = LoopsUnderWay \cup {Len(frames) + 1}
      /\ node \notin {"while", "for"} => LoopsUnderWay' = LoopsUnderWay
  <2>1. FramesOK /\ nblk \in Nat /\ nblk' >= nblk /\ CurrentFn \in 1..MaxFns
    BY InsertFacts, StateFacts DEF CoreInv, BlockEffect
  <2> QED
    BY <2>1, PushFrames
<1>2. Bodies' = Bodies
  BY BuilderBody, BodiesKept
<1>3. CASE node = "then"
  BY <1>1, <1>2, <1>3 DEF ScopeInv
<1>4. CASE node \in {"while", "for"}
  <2> DEFINE L == LoopsUnderWay
             n == Len(frames) + 1
             d == Cardinality(L)
             m == Cardinality(Bodies)
  <2>1. IsFiniteSet(L) /\ d \in Nat /\ m \in Nat
    BY LoopsFinite, BodiesFinite DEF CoreInv, TypeInv
  <2>2. n \notin L
    BY DEF LoopsUnderWay, CoreInv, TypeInv, FramesOK
  <2>3. Cardinality(L \cup {n}) = d + 1
    BY <2>1, <2>2, FS_AddElement
  <2>4. Cardinality(LoopsUnderWay') = d + 1 /\ Cardinality(Bodies') = m
    BY <1>1, <1>2, <1>4, <2>3
  <2>5. depth = m + d /\ depth' = depth + 1
    BY <1>4 DEF ScopeInv
  <2> HIDE DEF L, n, d, m
  <2>6. depth' = m + (d + 1)
    BY <2>1, <2>5
  <2> QED
    BY <2>4, <2>6 DEF ScopeInv
<1> QED
  BY <1>3, <1>4

LEMMA ScopePop ==
    ASSUME CoreInv, ScopeInv, Top.node # "module", nblk' = nblk,
           NEW v \in {"null", "value"}, Pop(v),
           depth' = IF Top.node \in {"while", "for"} THEN depth - 1 ELSE depth,
           NEW f, BlockEffect(f), f \in Fn => f \in Bodies
    PROVE  ScopeInv'
<1>1. LoopsUnderWay' = LoopsUnderWay \ {Len(frames)} /\ Len(frames) >= 2
  BY PopFrames, StateFacts DEF CoreInv
<1>2. Bodies' = Bodies
  BY BodiesKept
<1>3. Len(frames) \in LoopsUnderWay <=> Top.node \in {"while", "for"}
  BY <1>1 DEF LoopsUnderWay, Top, CoreInv, TypeInv, FramesOK
<1>4. CASE Top.node \notin {"while", "for"}
  <2>1. LoopsUnderWay' = LoopsUnderWay
    BY <1>1, <1>3, <1>4
  <2> QED
    BY <1>2, <1>4, <2>1 DEF ScopeInv
<1>5. CASE Top.node \in {"while", "for"}
  <2> DEFINE L == LoopsUnderWay
             d == Cardinality(L)
             m == Cardinality(Bodies)
  <2>1. IsFiniteSet(L) /\ d \in Nat /\ m \in Nat
    BY LoopsFinite, BodiesFinite DEF CoreInv, TypeInv
  <2>2. Cardinality(LoopsUnderWay') = d - 1
    BY <1>1, <1>3, <1>5, <2>1, FS_RemoveElement
  <2>3. Cardinality(Bodies') = m /\ depth = m + d /\ depth' = depth - 1
    BY <1>2, <1>5 DEF ScopeInv
  <2> HIDE DEF L, d, m
  <2>4. depth' = m + (d - 1)
    BY <2>1, <2>3
  <2> QED
    BY <2>2, <2>3, <2>4 DEF ScopeInv
<1> QED
  BY <1>4, <1>5

LEMMA ScopeNext ==
    ASSUME CoreInv, ScopeInv, [Next]_vars PROVE ScopeInv'
<1>1. /\ nblk \in Nat /\ nblk' \in Nat /\ 0 \notin Fn /\ FramesOK
  <2>1. TypeInv'
    BY TypeInvNext DEF CoreInv
  <2> QED
    BY <2>1, StateFacts DEF CoreInv, TypeInv, TypeOK, Fn
<1>2. ASSUME NEW emit \in BOOLEAN, NEW v \in {"null", "value"},
             SimpleStmt(emit, v)
      PROVE  ScopeInv'
  <2>1. frames' = SetVal(frames, v) /\ depth' = depth
    BY <1>2 DEF SimpleStmt
  <2> QED
    BY <1>1, <1>2, <2>1, SimpleEffect, ScopeSame
<1>3. ASSUME NEW v \in {"null", "value"}, NEW err \in BOOLEAN,
             ReturnStmt(v, err)
      PROVE  ScopeInv'
  <2>1. frames' = SetVal(frames, v) /\ depth' = depth
    BY <1>3 DEF ReturnStmt
  <2> QED
    BY <1>1, <1>3, <2>1, ReturnEffect, ScopeSame
<1>4. CASE BeginIf
  <2>1. /\ insert # 0 /\ nblk' = nblk + 3 /\ depth' = depth
        /\ Push("then", CurrentFn, nblk + 1)
    BY <1>4 DEF BeginIf
  <2>2. nblk + 1 + Span("then") <= nblk'
    BY <1>1, <2>1, SpanValues
  <2> QED
    BY <1>1, <1>4, <2>1, <2>2, BeginIfEffect, ScopePush
<1>5. CASE AbandonIf
  <2>1. /\ Top.node \in {"then", "else"} /\ Pop("null") /\ depth' = depth
        /\ UNCHANGED <<blk, nblk>>
    BY <1>5 DEF AbandonIf
  <2>2. BlockEffect(0)
    BY <2>1, NoBlockEffect
  <2> QED
    BY <1>1, <2>1, <2>2, ScopePop
<1>6. CASE EndThen
  <2>1. /\ Top.node = "then" /\ depth' = depth /\ nblk' = nblk
        /\ frames' = [frames EXCEPT ![Len(frames)] = ElseFrame(@)]
    BY <1>6 DEF EndThen, In
  <2>2. LoopsUnderWay' = LoopsUnderWay
    <3>1. /\ FramesOK' /\ LoopsUnderWay' = LoopsUnderWay
          /\ Len(frames) >= 2 /\ Len(frames') = Len(frames)
          /\ frames'[Len(frames)].node = "else"
          /\ \A i \in 1..Len(frames) : /\ i < Len(frames) =>
                                            frames'[i].node = frames[i].node
                                       /\ frames'[i].fn = frames[i].fn
                                       /\ frames'[i].base = frames[i].base
      BY <1>1, <2>1, ElseFrames, Zenon
    <3> QED
      BY <3>1
  <2>3. Bodies' = Bodies
    BY <1>6, <2>1, EndThenEffect, TopBody, BodiesKept
  <2> QED
    BY <2>1, <2>2, <2>3 DEF ScopeInv
<1>7. CASE EndElse
  <2>1. Top.node = "else" /\ Pop("null") /\ UNCHANGED <<nblk, depth>>
    BY <1>7 DEF EndElse, In
  <2> QED
    BY <1>7, <2>1, EndElseEffect, TopBody, ScopePop
<1>8. CASE WhileConditionFails
  <2>1. frames' = SetVal(frames, "null") /\ depth' = depth /\ insert # 0
    BY <1>8 DEF WhileConditionFails
  <2> QED
    BY <1>1, <1>8, <2>1, WhileFailsEffect, BuilderBody, ScopeSame
<1>9. CASE BeginWhile
  <2>1. /\ insert # 0 /\ nblk' = nblk + 2 /\ depth' = depth + 1
        /\ Push("while", CurrentFn, nblk + 1)
    BY <1>9 DEF BeginWhile, PushBlock
  <2>2. nblk + 1 + Span("while") <= nblk'
    BY <1>1, <2>1, SpanValues
  <2> QED
    BY <1>1, <1>9, <2>1, <2>2, BeginWhileEffect, ScopePush
<1>10. CASE EndWhile
  <2>1. Top.node = "while" /\ Pop("null") /\ nblk' = nblk /\ depth' = depth - 1
    BY <1>10 DEF EndWhile, In, PopBlock
  <2> QED
    BY <1>10, <2>1, EndWhileEffect, TopBody, ScopePop
<1>11. CASE ForConditionFails
  <2>1. frames' = SetVal(frames, "null") /\ depth' = depth /\ insert # 0
    BY <1>11 DEF ForConditionFails
  <2> QED
    BY <1>1, <1>11, <2>1, ForFailsEffect, BuilderBody, ScopeSame
<1>12. CASE BeginFor
  <2>1. /\ insert # 0 /\ nblk' = nblk + 5 /\ depth' = depth + 1
        /\ Push("for", CurrentFn, nblk + 1)
    BY <1>12 DEF BeginFor, PushBlock
  <2>2. nblk + 1 + Span("for") <= nblk'
    BY <1>1, <2>1, SpanValues
  <2> QED
    BY <1>1, <1>12, <2>1, <2>2, BeginForEffect, ScopePush
<1>13. CASE EndFor
  <2>1. Top.node = "for" /\ Pop("null") /\ nblk' = nblk /\ depth' = depth - 1
    BY <1>13 DEF EndFor, In, PopBlock
  <2> QED
    BY <1>13, <2>1, EndForEffect, TopBody, ScopePop
<1>14. CASE ExternFunction
  <2>1. /\ frames' = SetVal(frames, "value") /\ UNCHANGED <<blk, nblk, depth>>
    BY <1>14 DEF ExternFunction
  <2>2. BlockEffect(0)
    BY <2>1, NoBlockEffect
  <2> QED
    BY <1>1, <2>1, <2>2, ScopeSame
<1>15. ASSUME NEW hasArgs \in BOOLEAN, BeginFunction(hasArgs)
       PROVE  ScopeInv'
  <2>1. /\ nblk' = nblk + 1 /\ depth' = depth + 1
        /\ Push("func", nfn + 1, nblk + 1)
    BY <1>15 DEF BeginFunction, PushBlock
  <2>2. LoopsUnderWay' = LoopsUnderWay
    <3>1. nblk + 1 + Span("func") <= nblk' /\ nblk' >= nblk
      BY <1>1, <2>1, SpanValues
    <3>2. nfn + 1 \in 1..MaxFns
      BY <1>15, BeginFunctionBlocks DEF CoreInv
    <3> QED
      BY <1>1, <2>1, <3>1, <3>2, PushFrames
  <2> DEFINE d == Cardinality(LoopsUnderWay)
             m == Cardinality(Bodies)
  <2>3. Cardinality(LoopsUnderWay') = d /\ Cardinality(Bodies') = m + 1
    BY <1>15, <2>2, BodiesGrow
  <2>4. d \in Nat /\ m \in Nat /\ depth = m + d
    BY BodiesFinite, StateFacts DEF CoreInv, ScopeInv
  <2> HIDE DEF d, m
  <2>5. depth' = (m + 1) + d
    BY <2>1, <2>4
  <2> QED
    BY <2>3, <2>5 DEF ScopeInv
<1>16. CASE EndFunction
  <2>1. /\ Top.node = "func" /\ Pop("value") /\ UNCHANGED <<blk, nblk, depth>>
    BY <1>16 DEF EndFunction, In
  <2>2. BlockEffect(0)
    BY <2>1, NoBlockEffect
  <2> QED
    BY <1>1, <2>1, <2>2, ScopePop
<1>17. CASE NullDereference \/ EndModule \/ Finished \/ UNCHANGED vars
  <2>1. UNCHANGED <<blk, frames, depth>>
    BY <1>17 DEF NullDereference, EndModule, Finished, vars
  <2> QED
    BY <2>1 DEF ScopeInv, Bodies, LoopsUnderWay
<1> QED
  BY <1>2, <1>3, <1>4, <1>5, <1>6, <1>7, <1>8, <1>9, <1>10, <1>11, <1>12,
     <1>13, <1>14, <1>15, <1>16, <1>17 DEF Next, Statement, EndOfBlock

\* The scope stack holds one block per loop under way and one per function
\* defined so far: every pop meets the push of its own loop, and definitions
\* never pop (codegen.h:93-102, codegen.cpp:403, :407, :445, :450, :502).
THEOREM ScopeBalanceHolds == Spec => []ScopeBalance
<1>1. Init => CoreInv /\ ScopeInv
  <2> SUFFICES ASSUME Init PROVE CoreInv /\ ScopeInv
    OBVIOUS
  <2>1. CoreInv
    BY SafeInvInit, BranchInit DEF CoreInv, SafeInv
  <2>2. Bodies = {} /\ LoopsUnderWay = {}
    <3>1. \A c \in Block : blk[c].fn = 0
      BY DEF Init, Fresh
    <3>2. Len(frames) = 1 /\ frames[1].node = "module"
      BY DEF Init
    <3> QED
      BY <3>1, <3>2 DEF Bodies, Fn, LoopsUnderWay
  <2> QED
    BY <2>1, <2>2, FS_EmptySet DEF ScopeInv, Init
<1>2. CoreInv /\ ScopeInv /\ [Next]_vars => (CoreInv /\ ScopeInv)'
  BY TypeInvNext, OwedNext, BranchNext, ScopeNext DEF CoreInv
<1>3. ScopeInv => ScopeBalance
  BY DEF ScopeInv, ScopeBalance, Bodies
<1> QED
  BY <1>1, <1>2, <1>3, PTL DEF Spec

-----------------------------------------------------------------------------
(* Blocks without a terminator, for ASTs without loops.                    *)

OpenInv == ~Loops => LoopsUnderWay = {} /\ OpenOnlyAtFunctionBoundary

\* A block that may be open: the builder's, or one a definition took it from.
Shut(c) == blk[c].fn # 0 => blk[c].last = "term" \/ c = insert \/ c \in left

\* Only the builder's block is written to.
LEMMA OpenSame ==
    ASSUME CoreInv, OpenOnlyAtFunctionBoundary,
           \A c \in Block : c # insert => blk'[c] = blk[c],
           insert' = insert, left' = left
    PROVE  OpenOnlyAtFunctionBoundary'
  BY DEF OpenOnlyAtFunctionBoundary, Placed, Terminated

LEMMA OpenNext ==
    ASSUME CoreInv, OpenInv, [Next]_vars PROVE OpenInv'
<1> SUFFICES ASSUME ~Loops
             PROVE  LoopsUnderWay' = {} /\ OpenOnlyAtFunctionBoundary'
  BY DEF OpenInv
<1>1. LoopsUnderWay = {} /\ OpenOnlyAtFunctionBoundary
  BY DEF OpenInv
<1>2. /\ FramesOK /\ nblk \in Nat /\ MaxFns \in Nat /\ insert \in 0..nblk
      /\ \A c \in Block : Shut(c)
  BY <1>1, StateFacts
     DEF CoreInv, OpenOnlyAtFunctionBoundary, Placed, Terminated, Shut
<1>3. Top.node \notin {"while", "for"}
  <2>1. Len(frames) \in 1..Len(frames)
    BY <1>2 DEF FramesOK
  <2> QED
    BY <1>1, <2>1 DEF LoopsUnderWay, Top
<1>4. ASSUME \A c \in Block : blk'[c].fn # 0 =>
               blk'[c].last = "term" \/ c = insert' \/ c \in left'
      PROVE  OpenOnlyAtFunctionBoundary'
  BY <1>4 DEF OpenOnlyAtFunctionBoundary, Placed, Terminated
<1>5. ASSUME NEW v \in {"null", "value"}, nblk' = nblk, frames' = SetVal(frames, v)
      PROVE  LoopsUnderWay' = {}
  <2>1. v \in {"undef", "null", "value"} /\ nblk' \in Nat /\ nblk' >= nblk
    BY <1>2, <1>5
  <2> QED
    BY <1>1, <1>2, <1>5, <2>1, SameFrames
<1>6. ASSUME NEW v \in {"null", "value"}, nblk' = nblk, Pop(v),
             Top.node # "module"
      PROVE  LoopsUnderWay' = {}
  BY <1>1, <1>2, <1>6, PopFrames
<1>7. ASSUME NEW emit \in BOOLEAN, NEW v \in {"null", "value"},
             SimpleStmt(emit, v)
      PROVE  LoopsUnderWay' = {} /\ OpenOnlyAtFunctionBoundary'
  <2>1. frames' = SetVal(frames, v) /\ UNCHANGED <<nblk, insert, left>>
    BY <1>7 DEF SimpleStmt
  <2> QED
    BY <1>1, <1>5, <1>7, <2>1, SimpleBlocks, OpenSame DEF CoreInv
<1>8. ASSUME NEW v \in {"null", "value"}, NEW err \in BOOLEAN,
             ReturnStmt(v, err)
      PROVE  LoopsUnderWay' = {} /\ OpenOnlyAtFunctionBoundary'
  <2>1. frames' = SetVal(frames, v) /\ UNCHANGED <<nblk, insert, left>>
    BY <1>8 DEF ReturnStmt
  <2> QED
    BY <1>1, <1>5, <1>8, <2>1, ReturnBlocks, OpenSame DEF CoreInv
<1>9. CASE BeginIf
  <2>1. /\ insert # 0 /\ Room(3) /\ nblk' = nblk + 3 /\ insert' = nblk + 1
        /\ Push("then", CurrentFn, nblk + 1) /\ left' = left
    BY <1>9 DEF BeginIf
  <2>2. LoopsUnderWay' = {}
    <3>1. /\ nblk' \in Nat /\ nblk' >= nblk /\ CurrentFn \in 1..MaxFns
          /\ nblk + 1 + Span("then") <= nblk'
      BY <1>2, <2>1, InsertFacts, SpanValues DEF CoreInv
    <3> QED
      BY <1>1, <1>2, <2>1, <3>1, PushFrames
  <2>3. {nblk + 1, nblk + 2} \in SUBSET Block /\ blk[insert] \in BlockState
    BY <2>1, NewBlocks, InsertFacts, 1 \in 1..3, 2 \in 1..3 DEF CoreInv
  <2>4. /\ blk'[insert].last = "term"
        /\ blk'[nblk + 2].fn = 0 /\ blk'[nblk + 3].fn = 0
    <3>1. WithBr(blk[insert], {nblk + 1, nblk + 2}).last = "term"
      BY <2>3, BrFacts
    <3>2. Fresh(0).fn = 0
      BY DEF Fresh
    <3> QED
      BY <1>9, <3>1, <3>2, BeginIfBlocks DEF CoreInv
  <2>5. \A c \in Block : c \notin {insert, nblk + 1, nblk + 2, nblk + 3}
                            => blk'[c] = blk[c]
    BY <1>9, BeginIfBlocks DEF CoreInv
  <2> QED
    BY <1>2, <1>4, <2>1, <2>2, <2>4, <2>5 DEF Shut
<1>10. CASE AbandonIf
  <2>1. /\ Top.node \in {"then", "else"} /\ Pop("null")
        /\ UNCHANGED <<blk, nblk, insert, left>>
    BY <1>10 DEF AbandonIf
  <2> QED
    BY <1>1, <1>6, <2>1, OpenSame
<1>11. CASE EndThen
  <2>1. /\ Top.node = "then" /\ insert' = Top.base + 1 /\ left' = left
        /\ nblk' = nblk
        /\ frames' = [frames EXCEPT ![Len(frames)] = ElseFrame(@)]
    BY <1>11 DEF EndThen, In
  <2>2. LoopsUnderWay' = {}
    <3>1. /\ FramesOK' /\ LoopsUnderWay' = LoopsUnderWay
          /\ Len(frames) >= 2 /\ Len(frames') = Len(frames)
          /\ frames'[Len(frames)].node = "else"
          /\ \A i \in 1..Len(frames) : /\ i < Len(frames) =>
                                            frames'[i].node = frames[i].node
                                       /\ frames'[i].fn = frames[i].fn
                                       /\ frames'[i].base = frames[i].base
      BY <1>2, <2>1, ElseFrames, Zenon
    <3> QED
      BY <1>1, <3>1
  <2>3. {Top.base + 2} \in SUBSET Block
    BY <2>1, TopBlocks, SpanValues DEF CoreInv
  <2>4. insert \notin {0, Top.base + 1} => blk'[insert].last = "term"
    BY <1>11, <2>3, EndThenBlocks, InsertFacts, BrUnlessFacts DEF CoreInv
  <2>5. \A c \in Block : c \notin {insert, Top.base + 1} => blk'[c] = blk[c]
    BY <1>11, EndThenBlocks DEF CoreInv
  <2>6. \A c \in Block : c # 0
    BY DEF Block
  <2> QED
    BY <1>2, <1>4, <2>1, <2>2, <2>4, <2>5, <2>6 DEF Shut
<1>12. CASE EndElse
  <2>1. /\ Top.node = "else" /\ insert' = Top.base + 2 /\ left' = left
        /\ nblk' = nblk /\ Pop("null")
    BY <1>12 DEF EndElse, In
  <2>2. LoopsUnderWay' = {}
    BY <1>6, <2>1
  <2>3. {Top.base + 2} \in SUBSET Block
    BY <2>1, TopBlocks, SpanValues DEF CoreInv
  <2>4. insert \notin {0, Top.base + 2} => blk'[insert].last = "term"
    BY <1>12, <2>3, EndElseBlocks, InsertFacts, BrUnlessFacts DEF CoreInv
  <2>5. \A c \in Block : c \notin {insert, Top.base + 2} => blk'[c] = blk[c]
    BY <1>12, EndElseBlocks DEF CoreInv
  <2>6. \A c \in Block : c # 0
    BY DEF Block
  <2> QED
    BY <1>2, <1>4, <2>1, <2>2, <2>4, <2>5, <2>6 DEF Shut
<1>13. CASE WhileConditionFails \/ BeginWhile \/ ForConditionFails \/ BeginFor
  BY <1>13 DEF WhileConditionFails, BeginWhile, ForConditionFails, BeginFor
<1>14. CASE EndWhile \/ EndFor
  BY <1>3, <1>14 DEF EndWhile, EndFor, In
<1>15. CASE ExternFunction
  <2>1. /\ frames' = SetVal(frames, "value")
        /\ UNCHANGED <<blk, nblk, insert, left>>
    BY <1>15 DEF ExternFunction
  <2> QED
    BY <1>1, <1>5, <2>1, OpenSame
<1>16. ASSUME NEW hasArgs \in BOOLEAN, BeginFunction(hasArgs)
       PROVE  LoopsUnderWay' = {} /\ OpenOnlyAtFunctionBoundary'
  <2>1. /\ nblk' = nblk + 1 /\ insert' = nblk + 1
        /\ Push("func", nfn + 1, nblk + 1)
        /\ left' = left \cup ({insert} \ {0})
    BY <1>16 DEF BeginFunction
  <2>2. LoopsUnderWay' = {}
    <3>1. /\ nblk' \in Nat /\ nblk' >= nblk /\ nfn + 1 \in 1..MaxFns
          /\ nblk + 1 + Span("func") <= nblk'
      BY <1>2, <1>16, <2>1, BeginFunctionBlocks, SpanValues DEF CoreInv
    <3> QED
      BY <1>1, <1>2, <2>1, <3>1, PushFrames
  <2>3. \A c \in Block : c # nblk + 1 => blk'[c] = blk[c]
    BY <1>16, BeginFunctionBlocks DEF CoreInv
  <2>4. \A c \in Block : c # 0
    BY DEF Block
  <2> QED
    BY <1>2, <1>4, <2>1, <2>2, <2>3, <2>4 DEF Shut
<1>17. CASE EndFunction
  <2>1. /\ Top.node = "func" /\ Pop("value")
        /\ UNCHANGED <<blk, nblk, insert, left>>
    BY <1>17 DEF EndFunction, In
  <2> QED
    BY <1>1, <1>6, <2>1, OpenSame
<1>18. CASE NullDereference \/ EndModule \/ Finished \/ UNCHANGED vars
  <2>1. UNCHANGED <<blk, frames, insert, left>>
    BY <1>18 DEF NullDereference, EndModule, Finished, vars
  <2> QED
    BY <1>1, <2>1, OpenSame DEF LoopsUnderWay
<1> QED
  BY <1>7, <1>8, <1>9, <1>10, <1>11, <1>12, <1>13, <1>14, <1>15, <1>16,
     <1>17, <1>18 DEF Next, Statement, EndOfBlock

\* For ASTs without while and for, the only ones the lexer lets through: every
\* block in a function ends in a terminator but the builder's and those it was
\* in when a definition took it away (codegen.cpp:299-357, 475-533).
THEOREM OpenHolds ==
    ASSUME Loops = FALSE
    PROVE  Spec => []OpenOnlyAtFunctionBoundary
<1>1. Init => CoreInv /\ OpenInv
  <2> SUFFICES ASSUME Init PROVE CoreInv /\ OpenInv
    OBVIOUS
  <2>1. CoreInv
    BY SafeInvInit, BranchInit DEF CoreInv, SafeInv
  <2>2. LoopsUnderWay = {}
    <3>1. Len(frames) = 1 /\ frames[1].node = "module"
      BY DEF Init
    <3> QED
      BY <3>1 DEF LoopsUnderWay
  <2>3. OpenOnlyAtFunctionBoundary
    BY DEF Init, Fresh, OpenOnlyAtFunctionBoundary, Placed
  <2> QED
    BY <2>1, <2>2, <2>3 DEF OpenInv
<1>2. CoreInv /\ OpenInv /\ [Next]_vars => (CoreInv /\ OpenInv)'
  BY TypeInvNext, OwedNext, BranchNext, OpenNext DEF CoreInv
<1>3. OpenInv => OpenOnlyAtFunctionBoundary
  BY Loops = FALSE DEF OpenInv
<1> QED
  BY <1>1, <1>2, <1>3, PTL DEF Spec
=============================================================================
