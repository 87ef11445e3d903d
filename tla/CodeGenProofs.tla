---------------------------- MODULE CodeGenProofs ----------------------------
(***************************************************************************)
(* Theorems about the IR generator for every number of blocks and          *)
(* functions.                                                              *)
(***************************************************************************)
EXTENDS CodeGen, FiniteSetTheorems, TLAPS

-----------------------------------------------------------------------------
(* The helpers on blocks and frames.                                       *)

\* What the builder's calls do to a block.
LEMMA OpFacts ==
    ASSUME NEW r \in BlockState
    PROVE  /\ WithOp(r) \in BlockState
           /\ WithOp(r).fn = r.fn /\ WithOp(r).last = "op"
           /\ WithOp(r).ret = r.ret /\ WithOp(r).succ = r.succ
           /\ WithOp(r).torn = (r.torn \/ r.last = "term")
  BY DEF WithOp, BlockState

LEMMA RetFacts ==
    ASSUME NEW r \in BlockState
    PROVE  /\ WithRet(r) \in BlockState
           /\ WithRet(r).fn = r.fn /\ WithRet(r).last = "term"
           /\ WithRet(r).ret = TRUE /\ WithRet(r).succ = r.succ
           /\ WithRet(r).torn = (r.torn \/ r.last = "term")
  BY DEF WithRet, BlockState

LEMMA BrFacts ==
    ASSUME NEW r \in BlockState, NEW targets \in SUBSET Block
    PROVE  /\ WithBr(r, targets) \in BlockState
           /\ WithBr(r, targets).fn = r.fn /\ WithBr(r, targets).last = "term"
           /\ WithBr(r, targets).ret = r.ret
           /\ WithBr(r, targets).succ = r.succ \cup targets
           /\ WithBr(r, targets).torn = (r.torn \/ r.last = "term")
  BY DEF WithBr, BlockState

LEMMA BrUnlessFacts ==
    ASSUME NEW r \in BlockState, NEW targets \in SUBSET Block
    PROVE  /\ BrUnlessTerminated(r, targets) \in BlockState
           /\ BrUnlessTerminated(r, targets).fn = r.fn
           /\ BrUnlessTerminated(r, targets).last = "term"
           /\ BrUnlessTerminated(r, targets).ret = r.ret
           /\ BrUnlessTerminated(r, targets).torn = r.torn
           /\ BrUnlessTerminated(r, targets).succ \subseteq r.succ \cup targets
<1>1. CASE r.last = "term"
  BY <1>1 DEF BrUnlessTerminated
<1>2. CASE r.last # "term"
  <2>1. r.torn \in BOOLEAN
    BY DEF BlockState
  <2> QED
    BY <1>2, <2>1, BrFacts DEF BrUnlessTerminated
<1> QED
  BY <1>1, <1>2

LEMMA InFnFacts ==
    ASSUME NEW r \in BlockState, NEW f \in 0..MaxFns
    PROVE  /\ InFn(r, f) \in BlockState
           /\ InFn(r, f).fn = f /\ InFn(r, f).last = r.last
           /\ InFn(r, f).ret = r.ret /\ InFn(r, f).succ = r.succ
           /\ InFn(r, f).torn = r.torn
  BY DEF InFn, BlockState

LEMMA FreshFacts ==
    ASSUME NEW f \in 0..MaxFns
    PROVE  /\ Fresh(f) \in BlockState
           /\ Fresh(f).fn = f /\ Fresh(f).last = "none"
           /\ Fresh(f).ret = FALSE /\ Fresh(f).torn = FALSE
           /\ Fresh(f).succ = {}
  BY DEF Fresh, BlockState

\* Setting the result of the top frame changes nothing else in the stack.
LEMMA SetValFacts ==
    ASSUME NEW s \in Seq(Frame), Len(s) >= 1,
           NEW v \in {"undef", "null", "value"}
    PROVE  /\ SetVal(s, v) \in Seq(Frame)
           /\ Len(SetVal(s, v)) = Len(s)
           /\ \A i \in 1..Len(s) : /\ SetVal(s, v)[i].node = s[i].node
                                   /\ SetVal(s, v)[i].fn = s[i].fn
                                   /\ SetVal(s, v)[i].base = s[i].base
<1> DEFINE n == Len(s)
<1>1. n \in 1..n /\ s[n] \in Frame
  OBVIOUS
<1>2. [s[n] EXCEPT !.val = v] \in Frame
  BY <1>1 DEF Frame
<1>3. SetVal(s, v) = [s EXCEPT ![n] = [s[n] EXCEPT !.val = v]]
  BY DEF SetVal
<1>4. [s EXCEPT ![n] = [s[n] EXCEPT !.val = v]] \in Seq(Frame)
  BY <1>1, <1>2
<1>5. \A i \in 1..n : s[i] \in Frame
  OBVIOUS
<1> QED
  BY <1>1, <1>2, <1>3, <1>4, <1>5 DEF Frame

\* Leaving the top frame keeps the frames below.
LEMMA PopFacts ==
    ASSUME NEW s \in Seq(Frame), Len(s) >= 2,
           NEW v \in {"undef", "null", "value"},
           NEW t, t = SetVal(SubSeq(s, 1, Len(s) - 1), v)
    PROVE  /\ t \in Seq(Frame)
           /\ Len(t) = Len(s) - 1
           /\ \A i \in 1..(Len(s) - 1) : /\ t[i].node = s[i].node
                                         /\ t[i].fn = s[i].fn
                                         /\ t[i].base = s[i].base
<1> DEFINE u == SubSeq(s, 1, Len(s) - 1)
<1>1. u \in Seq(Frame) /\ Len(u) = Len(s) - 1
  OBVIOUS
<1>2. \A i \in 1..(Len(s) - 1) : u[i] = s[i]
  OBVIOUS
<1> HIDE DEF u
<1>3. Len(u) >= 1
  BY <1>1
<1>4. t = SetVal(u, v)
  BY DEF u
<1>5. /\ SetVal(u, v) \in Seq(Frame)
      /\ Len(SetVal(u, v)) = Len(u)
      /\ \A i \in 1..Len(u) : /\ SetVal(u, v)[i].node = u[i].node
                              /\ SetVal(u, v)[i].fn = u[i].fn
                              /\ SetVal(u, v)[i].base = u[i].base
  BY <1>1, <1>3, SetValFacts
<1> QED
  BY <1>1, <1>2, <1>4, <1>5

-----------------------------------------------------------------------------
(* The shape of the call stack.                                            *)

Span(node) == CASE node = "then"  -> 2
                [] node = "else"  -> 2
                [] node = "while" -> 1
                [] node = "for"   -> 4
                [] OTHER          -> 0

LEMMA SpanValues ==
    /\ Span("func") = 0 /\ Span("then") = 2 /\ Span("else") = 2
    /\ Span("while") = 1 /\ Span("for") = 4
  BY DEF Span

\* The frames above the module's belong to functions, their blocks exist, and
\* an inner frame's blocks are newer than those of the frames around it.
FramesOK ==
    /\ frames \in Seq(Frame) /\ Len(frames) >= 1
    /\ frames[1].node = "module"
    /\ \A i \in 2..Len(frames) :
         /\ frames[i].node # "module"
         /\ frames[i].fn # 0
         /\ frames[i].base >= 1
         /\ frames[i].base + Span(frames[i].node) <= nblk
    /\ \A i, j \in 2..Len(frames) :
         i < j => frames[i].base + Span(frames[i].node) < frames[j].base

\* Frames that keep their node's span, function and blocks keep their shape.
LEMMA ShapeKept ==
    ASSUME FramesOK, nblk \in Nat, nblk' \in Nat, nblk' >= nblk,
           frames' \in Seq(Frame), Len(frames') >= 1,
           Len(frames') <= Len(frames), frames'[1].node = "module",
           \A i \in 1..Len(frames') :
               /\ i >= 2 => frames'[i].node # "module"
               /\ Span(frames'[i].node) = Span(frames[i].node)
               /\ frames'[i].fn = frames[i].fn
               /\ frames'[i].base = frames[i].base
    PROVE  FramesOK'
<1>1. \A i \in 1..Len(frames) : frames[i] \in Frame
  BY DEF FramesOK
<1>2. \A i \in 1..Len(frames) :
        Span(frames[i].node) \in Nat /\ frames[i].base \in Nat
  BY <1>1 DEF Span, Frame
<1>3. /\ Len(frames) \in Nat /\ Len(frames') \in Nat
      /\ \A i \in 2..Len(frames') : i \in 2..Len(frames) /\ i \in 1..Len(frames')
      /\ \A i \in 2..Len(frames') : i \in 1..Len(frames)
  BY DEF FramesOK
<1>4. ASSUME NEW i \in 2..Len(frames')
      PROVE  /\ frames'[i].node # "module"
             /\ frames'[i].fn # 0
             /\ frames'[i].base >= 1
             /\ frames'[i].base + Span(frames'[i].node) <= nblk'
  <2>1. /\ frames[i].fn # 0
        /\ frames[i].base >= 1
        /\ frames[i].base + Span(frames[i].node) <= nblk
    BY <1>3, <1>4 DEF FramesOK
  <2>2. /\ frames'[i].node # "module"
        /\ Span(frames'[i].node) = Span(frames[i].node)
        /\ frames'[i].fn = frames[i].fn
        /\ frames'[i].base = frames[i].base
    BY <1>3, <1>4
  <2>3. Span(frames[i].node) \in Nat /\ frames[i].base \in Nat
    BY <1>2, <1>3, <1>4
  <2> QED
    BY <2>1, <2>2, <2>3
<1>5. ASSUME NEW i \in 2..Len(frames'), NEW j \in 2..Len(frames'), i < j
      PROVE  frames'[i].base + Span(frames'[i].node) < frames'[j].base
  <2>1. frames[i].base + Span(frames[i].node) < frames[j].base
    BY <1>3, <1>5 DEF FramesOK
  <2>2. /\ Span(frames'[i].node) = Span(frames[i].node)
        /\ frames'[i].base = frames[i].base
        /\ frames'[j].base = frames[j].base
    BY <1>3
  <2> QED
    BY <2>1, <2>2
<1> QED
  BY <1>4, <1>5 DEF FramesOK

\* A statement without a block of its own: only the top result changes.
LEMMA SameFrames ==
    ASSUME FramesOK, nblk \in Nat, nblk' \in Nat, nblk' >= nblk,
           NEW v \in {"undef", "null", "value"}, frames' = SetVal(frames, v)
    PROVE  /\ FramesOK' /\ LoopsUnderWay' = LoopsUnderWay
           /\ Len(frames') = Len(frames)
<1>1. /\ frames' \in Seq(Frame)
      /\ Len(frames') = Len(frames)
      /\ \A i \in 1..Len(frames) : /\ frames'[i].node = frames[i].node
                                   /\ frames'[i].fn = frames[i].fn
                                   /\ frames'[i].base = frames[i].base
  BY SetValFacts DEF FramesOK
<1>2. \A i \in 1..Len(frames) : frames[i] \in Frame
  BY DEF FramesOK
<1>3. \A i \in 1..Len(frames) : Span(frames[i].node) \in Nat
  BY DEF Span
<1>4. LoopsUnderWay' = LoopsUnderWay
  BY <1>1 DEF LoopsUnderWay
<1>5. FramesOK'
  <2>1. \A i \in 2..Len(frames) : i \in 1..Len(frames)
    BY DEF FramesOK
  <2>2. \A i \in 1..Len(frames') : i >= 2 => frames'[i].node # "module"
    BY <1>1 DEF FramesOK
  <2> QED
    BY <1>1, <2>2, ShapeKept DEF FramesOK
<1> QED
  BY <1>1, <1>4, <1>5

\* A construct begins with the blocks base, base + 1, ... it has just created.
LEMMA PushFrames ==
    ASSUME FramesOK, nblk \in Nat, nblk' \in Nat, nblk' >= nblk,
           NEW node \in {"func", "then", "while", "for"}, NEW f \in 1..MaxFns,
           nblk + 1 + Span(node) <= nblk', Push(node, f, nblk + 1)
    PROVE  /\ FramesOK'
           /\ node \in {"while", "for"} =>
                LoopsUnderWay' = LoopsUnderWay \cup {Len(frames) + 1}
           /\ node \notin {"while", "for"} => LoopsUnderWay' = LoopsUnderWay
           /\ Len(frames') = Len(frames) + 1
           /\ frames'[Len(frames) + 1] = [node |-> node, fn |-> f,
                                          base |-> nblk + 1, val |-> "undef"]
           /\ \A i \in 1..Len(frames) : frames'[i] = frames[i]
<1> DEFINE new == [node |-> node, fn |-> f, base |-> nblk + 1, val |-> "undef"]
<1> USE ConstantsAssumption
<1>1. new \in Frame
  BY DEF Frame
<1>2. frames' = Append(frames, new)
  BY DEF Push
<1>3. /\ frames' \in Seq(Frame)
      /\ Len(frames') = Len(frames) + 1
      /\ frames'[Len(frames) + 1] = new
      /\ \A i \in 1..Len(frames) : frames'[i] = frames[i]
  BY <1>1, <1>2 DEF FramesOK
<1>4. \A i \in 1..Len(frames) : frames[i] \in Frame
  BY DEF FramesOK
<1>5. \A i \in 1..Len(frames) : Span(frames[i].node) \in Nat
  BY DEF Span
<1>6. /\ node \in {"while", "for"} =>
            LoopsUnderWay' = LoopsUnderWay \cup {Len(frames) + 1}
      /\ node \notin {"while", "for"} => LoopsUnderWay' = LoopsUnderWay
  <2>1. Len(frames) \in Nat
    BY DEF FramesOK
  <2> QED
    BY <2>1, <1>3 DEF LoopsUnderWay
<1>7. FramesOK'
  <2>1. \A i \in 2..Len(frames') :
          /\ frames'[i].node # "module"
          /\ frames'[i].fn # 0
          /\ frames'[i].base >= 1
          /\ frames'[i].base + Span(frames'[i].node) <= nblk'
    <3> TAKE i \in 2..Len(frames')
    <3>1. CASE i = Len(frames) + 1
      BY <1>3, <3>1
    <3>2. CASE i # Len(frames) + 1
      <4>1. i \in 2..Len(frames) /\ frames'[i] = frames[i]
        BY <1>3, <3>2 DEF FramesOK
      <4>2. /\ frames[i].node # "module"
            /\ frames[i].fn # 0
            /\ frames[i].base >= 1
            /\ frames[i].base + Span(frames[i].node) <= nblk
        BY <4>1 DEF FramesOK
      <4>3. Span(frames[i].node) \in Nat /\ frames[i].base \in Nat
        BY <1>4, <1>5, <4>1 DEF Frame
      <4> QED
        BY <4>1, <4>2, <4>3
    <3> QED
      BY <3>1, <3>2
  <2>2. \A i, j \in 2..Len(frames') :
          i < j => frames'[i].base + Span(frames'[i].node) < frames'[j].base
    <3> SUFFICES ASSUME NEW i \in 2..Len(frames'), NEW j \in 2..Len(frames'),
                        i < j
                 PROVE  frames'[i].base + Span(frames'[i].node) < frames'[j].base
      OBVIOUS
    <3>1. i \in 2..Len(frames) /\ frames'[i] = frames[i]
      BY <1>3 DEF FramesOK
    <3>2. /\ frames[i].base + Span(frames[i].node) <= nblk
          /\ Span(frames[i].node) \in Nat /\ frames[i].base \in Nat
      <4>1. frames[i].base + Span(frames[i].node) <= nblk
        BY <3>1 DEF FramesOK
      <4>2. i \in 1..Len(frames)
        BY <3>1 DEF FramesOK
      <4> QED
        BY <1>4, <1>5, <4>1, <4>2 DEF Frame
    <3>3. CASE j = Len(frames) + 1
      BY <1>3, <3>1, <3>2, <3>3
    <3>4. CASE j # Len(frames) + 1
      <4>1. j \in 2..Len(frames) /\ frames'[j] = frames[j]
        BY <1>3, <3>4 DEF FramesOK
      <4> QED
        BY <3>1, <4>1 DEF FramesOK
    <3> QED
      BY <3>3, <3>4
  <2>3. frames'[1].node = "module"
    BY <1>3 DEF FramesOK
  <2> QED
    BY <1>3, <2>1, <2>2, <2>3 DEF FramesOK
<1> QED
  BY <1>3, <1>6, <1>7

\* A construct is left: the frames below keep their place.
LEMMA PopFrames ==
    ASSUME FramesOK, nblk \in Nat, nblk' = nblk, Top.node # "module",
           NEW v \in {"undef", "null", "value"}, Pop(v)
    PROVE  /\ FramesOK'
           /\ LoopsUnderWay' = LoopsUnderWay \ {Len(frames)}
           /\ Len(frames) >= 2 /\ Len(frames') = Len(frames) - 1
           /\ \A i \in 1..Len(frames') : /\ frames'[i].node = frames[i].node
                                         /\ frames'[i].fn = frames[i].fn
                                         /\ frames'[i].base = frames[i].base
<1>1. Len(frames) \in Nat /\ Len(frames) >= 2
  BY DEF FramesOK, Top
<1>2. /\ frames' \in Seq(Frame)
      /\ Len(frames') = Len(frames) - 1
      /\ \A i \in 1..(Len(frames) - 1) : /\ frames'[i].node = frames[i].node
                                         /\ frames'[i].fn = frames[i].fn
                                         /\ frames'[i].base = frames[i].base
  BY <1>1, PopFacts DEF FramesOK, Pop
<1>3. \A i \in 1..Len(frames) : frames[i] \in Frame
  BY DEF FramesOK
<1>4. \A i \in 1..Len(frames) : Span(frames[i].node) \in Nat
  BY DEF Span
<1>5. LoopsUnderWay' = LoopsUnderWay \ {Len(frames)}
  BY <1>1, <1>2 DEF LoopsUnderWay
<1>6. FramesOK'
  <2>1. \A i \in 1..Len(frames') : i >= 2 => frames'[i].node # "module"
    BY <1>1, <1>2 DEF FramesOK
  <2>2. frames'[1].node = "module"
    BY <1>1, <1>2 DEF FramesOK
  <2>3. 1..Len(frames') = 1..(Len(frames) - 1)
    BY <1>1, <1>2
  <2> QED
    BY <1>1, <1>2, <2>1, <2>2, <2>3, ShapeKept
<1> QED
  BY <1>1, <1>2, <1>5, <1>6

\* The then frame of an if becomes its else frame.
LEMMA ElseFrames ==
    ASSUME FramesOK, nblk \in Nat, nblk' = nblk, Top.node = "then",
           frames' = [frames EXCEPT ![Len(frames)] = ElseFrame(@)]
    PROVE  /\ FramesOK' /\ LoopsUnderWay' = LoopsUnderWay
           /\ Len(frames) >= 2 /\ Len(frames') = Len(frames)
           /\ frames'[Len(frames)].node = "else"
           /\ \A i \in 1..Len(frames) : /\ i < Len(frames) =>
                                             frames'[i].node = frames[i].node
                                        /\ frames'[i].fn = frames[i].fn
                                        /\ frames'[i].base = frames[i].base
<1> DEFINE n == Len(frames)
           new == [node |-> "else", fn |-> frames[n].fn,
                   base |-> frames[n].base, val |-> "undef"]
<1>1. n \in Nat /\ n >= 2
  BY DEF FramesOK, Top
<1>2. \A i \in 1..n : frames[i] \in Frame
  BY DEF FramesOK
<1>3. new \in Frame
  BY <1>1, <1>2 DEF Frame
<1>4. frames' = [frames EXCEPT ![n] = new]
  BY DEF ElseFrame
<1>5. /\ frames' \in Seq(Frame)
      /\ Len(frames') = n
      /\ frames'[n] = new
      /\ \A i \in 1..(n - 1) : frames'[i] = frames[i]
  BY <1>1, <1>3, <1>4 DEF FramesOK
<1>6. \A i \in 1..n : /\ i < n => frames'[i].node = frames[i].node
                      /\ frames'[i].fn = frames[i].fn
                      /\ frames'[i].base = frames[i].base
  BY <1>1, <1>5
<1>7. frames[n].node = "then" /\ frames'[n].node = "else"
  BY <1>5 DEF Top
<1>8. LoopsUnderWay' = LoopsUnderWay
  BY <1>1, <1>5, <1>6, <1>7 DEF LoopsUnderWay
<1>9. \A i \in 1..n : /\ Span(frames[i].node) \in Nat
                      /\ Span(frames'[i].node) = Span(frames[i].node)
  BY <1>1, <1>6, <1>7 DEF Span
<1>10. FramesOK'
  <2>1. \A i \in 1..Len(frames') : i >= 2 => frames'[i].node # "module"
    BY <1>1, <1>5, <1>6, <1>7 DEF FramesOK
  <2>2. frames'[1].node = "module"
    BY <1>1, <1>6 DEF FramesOK
  <2> QED
    BY <1>1, <1>5, <1>6, <1>9, <2>1, <2>2, ShapeKept
<1> QED
  BY <1>1, <1>5, <1>6, <1>7, <1>8, <1>10

-----------------------------------------------------------------------------
(* Type correctness.  The types alone are not inductive: the builder is     *)
(* moved to base + 1 and base + 2 of a frame, so the frame's blocks must    *)
(* exist; a popped scope must have been pushed, so depth counts the loops   *)
(* under way; and a block is created in the function of the builder's       *)
(* block, so that block must be in one.                                     *)

TypeInv ==
    /\ TypeOK
    /\ FramesOK
    /\ InsertPointPlaced
    /\ depth >= Cardinality(LoopsUnderWay)

LEMMA LoopsFinite ==
    ASSUME FramesOK
    PROVE  IsFiniteSet(LoopsUnderWay) /\ Cardinality(LoopsUnderWay) \in Nat
<1>1. 1..Len(frames) \in SUBSET Int /\ IsFiniteSet(1..Len(frames))
  BY FS_Interval DEF FramesOK
<1>2. LoopsUnderWay \subseteq 1..Len(frames)
  BY DEF LoopsUnderWay
<1> QED
  BY <1>1, <1>2, FS_Subset, FS_CardinalityType

LEMMA TypeInvInit == Init => TypeInv
<1> SUFFICES ASSUME Init PROVE TypeInv
  OBVIOUS
<1> USE ConstantsAssumption DEF ConstantsAssumption
<1>1. blk \in [Block -> BlockState]
  <2>1. Fresh(0) \in BlockState
    BY FreshFacts, 0 \in 0..MaxFns
  <2> QED
    BY <2>1 DEF Init
<1>2. /\ frames \in Seq(Frame) /\ Len(frames) = 1
      /\ frames[1].node = "module"
  BY DEF Init, Frame
<1>3. TypeOK
  <2>1. /\ nblk \in 0..MaxBlocks /\ nfn \in 0..MaxFns
        /\ insert \in 0..nblk /\ depth \in Nat
    BY DEF Init
  <2>2. /\ status \in {"running", "done", "crashed"}
        /\ failed \in BOOLEAN /\ nested \in BOOLEAN
        /\ abandoned \subseteq Block /\ left \subseteq Block
    BY DEF Init
  <2> QED
    BY <1>1, <1>2, <2>1, <2>2 DEF TypeOK
<1>4. FramesOK
  BY <1>2 DEF FramesOK
<1>5. LoopsUnderWay = {}
  BY <1>2 DEF LoopsUnderWay
<1>6. depth >= Cardinality(LoopsUnderWay)
  BY <1>5, FS_EmptySet DEF Init
<1> QED
  BY <1>3, <1>4, <1>6 DEF TypeInv, InsertPointPlaced, Init

\* A construct under way is in a function and its blocks exist.
LEMMA TopFacts ==
    ASSUME TypeInv, Top.node # "module"
    PROVE  /\ Len(frames) >= 2
           /\ Top.node \in {"func", "then", "else", "while", "for"}
           /\ Top.fn \in 1..MaxFns
           /\ Top.base \in Nat /\ Top.base >= 1
           /\ Top.base + Span(Top.node) <= nblk
           /\ Top.val \in {"undef", "null", "value"}
<1> USE ConstantsAssumption DEF ConstantsAssumption
<1>1. Len(frames) \in Nat /\ Len(frames) >= 2
  BY DEF TypeInv, FramesOK, Top
<1>2. Top \in Frame
  BY <1>1 DEF TypeInv, FramesOK, Top
<1>3. Top.fn # 0 /\ Top.base >= 1 /\ Top.base + Span(Top.node) <= nblk
  BY <1>1 DEF TypeInv, FramesOK, Top
<1> QED
  BY <1>1, <1>2, <1>3 DEF Frame

\* The builder's block is in a function.
LEMMA InsertFacts ==
    ASSUME TypeInv, insert # 0
    PROVE  insert \in Block /\ blk[insert] \in BlockState
           /\ CurrentFn \in 1..MaxFns
<1> USE ConstantsAssumption DEF ConstantsAssumption
<1>1. insert \in Block
  BY DEF TypeInv, TypeOK, Block
<1>2. blk[insert] \in BlockState
  BY <1>1 DEF TypeInv, TypeOK
<1> QED
  BY <1>1, <1>2
     DEF BlockState, CurrentFn, TypeInv, InsertPointPlaced, Placed

\* The number of loops under way after a push and after a pop.
LEMMA LoopCount ==
    ASSUME FramesOK
    PROVE  /\ \A n : Cardinality(LoopsUnderWay \cup {n})
                       <= Cardinality(LoopsUnderWay) + 1
           /\ \A n : /\ Cardinality(LoopsUnderWay \ {n}) \in Nat
                      /\ Cardinality(LoopsUnderWay \ {n})
                            <= Cardinality(LoopsUnderWay)
           /\ Len(frames) \in LoopsUnderWay =>
                /\ Cardinality(LoopsUnderWay) >= 1
                /\ Cardinality(LoopsUnderWay \ {Len(frames)})
                      = Cardinality(LoopsUnderWay) - 1
<1> DEFINE L == LoopsUnderWay
<1>1. IsFiniteSet(L) /\ Cardinality(L) \in Nat
  BY LoopsFinite
<1> HIDE DEF L
<1>2. \A n : Cardinality(L \cup {n}) <= Cardinality(L) + 1
  BY <1>1, FS_AddElement
<1>3. \A n : /\ Cardinality(L \ {n}) \in Nat
             /\ Cardinality(L \ {n}) <= Cardinality(L)
  <2> TAKE n
  <2>1. CASE n \in L
    <3>1. IsFiniteSet(L \ {n}) /\ Cardinality(L \ {n}) = Cardinality(L) - 1
      BY <1>1, <2>1, FS_RemoveElement
    <3>2. Cardinality(L \ {n}) \in Nat
      BY <3>1, FS_CardinalityType
    <3> QED
      BY <1>1, <3>1, <3>2
  <2>2. CASE n \notin L
    <3>1. L \ {n} = L
      BY <2>2
    <3> QED
      BY <1>1, <3>1
  <2> QED
    BY <2>1, <2>2
<1>4. \A n \in L : Cardinality(L \ {n}) = Cardinality(L) - 1
  BY <1>1, FS_RemoveElement
<1>5. \A n \in L : Cardinality(L) >= 1
  BY <1>1, FS_EmptySet
<1> QED
  BY <1>2, <1>3, <1>4, <1>5 DEF L

-----------------------------------------------------------------------------
(* What the actions do, block by block.                                    *)

Blocks == [Block -> BlockState]

\* The parts of the invariant the actions' effects are computed from.
LEMMA StateFacts ==
    ASSUME TypeInv
    PROVE  /\ blk \in Blocks /\ nblk \in Nat /\ nblk <= MaxBlocks
           /\ MaxBlocks \in Nat /\ MaxFns \in Nat
           /\ nfn \in 0..MaxFns /\ insert \in 0..nblk /\ depth \in Nat
           /\ FramesOK /\ Cardinality(LoopsUnderWay) \in Nat
           /\ depth >= Cardinality(LoopsUnderWay)
           /\ \A k \in 1..nblk : k \in Block
           /\ 0 \in 0..MaxFns
  BY LoopsFinite, ConstantsAssumption
     DEF TypeInv, TypeOK, Blocks, Block, ConstantsAssumption

LEMMA PutBlock ==
    ASSUME NEW f \in Blocks, NEW b \in Block, NEW r \in BlockState
    PROVE  /\ [f EXCEPT ![b] = r] \in Blocks
           /\ [f EXCEPT ![b] = r][b] = r
           /\ \A c \in Block : c # b => [f EXCEPT ![b] = r][c] = f[c]
  BY DEF Blocks

LEMMA PlaceFacts ==
    ASSUME NEW f \in Blocks, NEW b \in Block, NEW fn \in 0..MaxFns
    PROVE  /\ Place(f, b, fn) \in Blocks
           /\ Place(f, b, fn)[b] = InFn(f[b], fn)
           /\ \A c \in Block : c # b => Place(f, b, fn)[c] = f[c]
<1>1. f[b] \in BlockState
  BY DEF Blocks
<1>2. InFn(f[b], fn) \in BlockState
  BY <1>1, InFnFacts
<1> QED
  BY <1>2, PutBlock DEF Place

LEMMA ClosedFacts ==
    ASSUME TypeInv, NEW t \in Block
    PROVE  /\ Closed(t) \in Blocks
           /\ insert # 0 =>
                /\ insert \in Block /\ blk[insert] \in BlockState
                /\ Closed(t)[insert] = BrUnlessTerminated(blk[insert], {t})
           /\ \A c \in Block : c # insert => Closed(t)[c] = blk[c]
<1>1. CASE insert # 0
  <2>1. insert \in Block /\ blk[insert] \in BlockState
    BY <1>1, InsertFacts
  <2>2. BrUnlessTerminated(blk[insert], {t}) \in BlockState
    BY <2>1, BrUnlessFacts, {t} \in SUBSET Block
  <2> QED
    BY <1>1, <2>1, <2>2, PutBlock, StateFacts DEF Closed
<1>2. CASE insert = 0
  <2>1. insert \notin Block
    BY <1>2 DEF Block
  <2>2. Closed(t) = blk
    BY <2>1, StateFacts DEF Closed, Blocks
  <2> QED
    BY <1>2, <2>2, StateFacts
<1> QED
  BY <1>1, <1>2

\* The blocks of the construct on top.
LEMMA TopBlocks ==
    ASSUME TypeInv, NEW k \in Nat, Top.node # "module", k <= Span(Top.node)
    PROVE  /\ Top.base \in Nat /\ Top.base >= 1
           /\ Top.base + k \in Block /\ Top.base + k <= nblk
           /\ Top.fn \in 0..MaxFns /\ Top.fn # 0
<1>1. /\ Top.fn \in 1..MaxFns /\ Top.base \in Nat /\ Top.base >= 1
      /\ Top.base + Span(Top.node) <= nblk
  BY TopFacts
<1>2. Span(Top.node) \in Nat
  BY TopFacts, SpanValues
<1>3. nblk \in Nat /\ nblk <= MaxBlocks /\ MaxBlocks \in Nat /\ MaxFns \in Nat
  BY StateFacts
<1> QED
  BY <1>1, <1>2, <1>3 DEF Block

\* The blocks an action creates.
LEMMA NewBlocks ==
    ASSUME TypeInv, NEW n \in Nat, Room(n)
    PROVE  /\ nblk + n \in Nat /\ nblk + n <= MaxBlocks
           /\ \A k \in 1..n : nblk + k \in Block /\ nblk + k # insert
           /\ insert <= nblk
  BY StateFacts DEF Room, Block

\* Appending to the builder's block.
LEMMA AtInsert ==
    ASSUME TypeInv, NEW r \in BlockState, insert # 0,
           blk' = [blk EXCEPT ![insert] = r]
    PROVE  /\ blk' \in Blocks /\ blk'[insert] = r
           /\ \A c \in Block : c # insert => blk'[c] = blk[c]
<1>1. insert \in Block /\ blk \in Blocks
  BY InsertFacts, StateFacts
<1> QED
  BY <1>1 DEF Blocks

LEMMA SimpleBlocks ==
    ASSUME TypeInv, NEW emit \in BOOLEAN, NEW v \in {"null", "value"},
           SimpleStmt(emit, v)
    PROVE  /\ blk' \in Blocks
           /\ \A c \in Block : c # insert => blk'[c] = blk[c]
           /\ insert # 0 => blk'[insert] \in {blk[insert], WithOp(blk[insert])}
<1>1. CASE emit /\ insert # 0
  <2>1. WithOp(blk[insert]) \in BlockState
    BY <1>1, InsertFacts, OpFacts
  <2>2. blk' = [blk EXCEPT ![insert] = WithOp(blk[insert])]
    BY <1>1 DEF SimpleStmt, MayEmit
  <2> QED
    BY <1>1, <2>1, <2>2, AtInsert
<1>2. CASE ~(emit /\ insert # 0)
  <2>1. blk' = blk
    BY <1>2 DEF SimpleStmt, MayEmit
  <2> QED
    BY <2>1, StateFacts
<1> QED
  BY <1>1, <1>2

LEMMA ReturnBlocks ==
    ASSUME TypeInv, NEW v \in {"null", "value"}, NEW err \in BOOLEAN,
           ReturnStmt(v, err)
    PROVE  /\ blk' \in Blocks
           /\ \A c \in Block : c # insert => blk'[c] = blk[c]
           /\ insert # 0 => blk'[insert] = WithRet(blk[insert])
<1>1. CASE insert # 0
  <2>1. WithRet(blk[insert]) \in BlockState
    BY <1>1, InsertFacts, RetFacts
  <2>2. blk' = [blk EXCEPT ![insert] = WithRet(blk[insert])]
    BY <1>1 DEF ReturnStmt
  <2> QED
    BY <1>1, <2>1, <2>2, AtInsert
<1>2. CASE insert = 0
  <2>1. blk' = blk
    BY <1>2 DEF ReturnStmt
  <2> QED
    BY <1>2, <2>1, StateFacts
<1> QED
  BY <1>1, <1>2

LEMMA BeginIfBlocks ==
    ASSUME TypeInv, BeginIf
    PROVE  /\ blk' \in Blocks
           /\ blk'[insert] = WithBr(blk[insert], {nblk + 1, nblk + 2})
           /\ blk'[nblk + 1] = Fresh(CurrentFn)
           /\ blk'[nblk + 2] = Fresh(0)
           /\ blk'[nblk + 3] = Fresh(0)
           /\ \A c \in Block : c \notin {insert, nblk + 1, nblk + 2, nblk + 3}
                                 => blk'[c] = blk[c]
<1>1. /\ insert \in Block /\ blk[insert] \in BlockState
      /\ CurrentFn \in 0..MaxFns /\ 0 \in 0..MaxFns /\ blk \in Blocks
  BY InsertFacts, StateFacts DEF BeginIf
<1>2. Room(3) /\ 1 \in 1..3 /\ 2 \in 1..3 /\ 3 \in 1..3
  BY DEF BeginIf
<1>3. /\ nblk + 1 \in Block /\ nblk + 2 \in Block /\ nblk + 3 \in Block
      /\ nblk + 1 # insert /\ nblk + 2 # insert /\ nblk + 3 # insert
      /\ nblk \in Nat
  BY <1>2, NewBlocks, StateFacts
<1>4. /\ WithBr(blk[insert], {nblk + 1, nblk + 2}) \in BlockState
      /\ Fresh(CurrentFn) \in BlockState /\ Fresh(0) \in BlockState
  <2>1. {nblk + 1, nblk + 2} \in SUBSET Block
    BY <1>3
  <2> QED
    BY <1>1, <2>1, BrFacts, FreshFacts
<1> QED
  BY <1>1, <1>3, <1>4 DEF BeginIf, Blocks

LEMMA EndThenBlocks ==
    ASSUME TypeInv, EndThen
    PROVE  /\ blk' \in Blocks
           /\ \A c \in Block : c \notin {insert, Top.base + 1}
                                 => blk'[c] = blk[c]
           /\ insert \notin {0, Top.base + 1} =>
                blk'[insert] = BrUnlessTerminated(blk[insert], {Top.base + 2})
           /\ insert # Top.base + 1 =>
                blk'[Top.base + 1] = InFn(blk[Top.base + 1], Top.fn)
           /\ blk'[Top.base + 1].fn = Top.fn
<1>1. /\ Top.base + 1 \in Block /\ Top.base + 2 \in Block
      /\ Top.fn \in 0..MaxFns
  <2>1. Top.node = "then"
    BY DEF EndThen, In
  <2> QED
    BY <2>1, TopBlocks, SpanValues
<1>2. Closed(Top.base + 2) \in Blocks
  BY <1>1, ClosedFacts
<1>3. blk' = Place(Closed(Top.base + 2), Top.base + 1, Top.fn)
  BY DEF EndThen
<1>4. /\ blk' \in Blocks
      /\ blk'[Top.base + 1] = InFn(Closed(Top.base + 2)[Top.base + 1], Top.fn)
      /\ \A c \in Block : c # Top.base + 1 =>
           blk'[c] = Closed(Top.base + 2)[c]
  BY <1>1, <1>2, <1>3, PlaceFacts
<1>5. blk'[Top.base + 1].fn = Top.fn
  <2>1. Closed(Top.base + 2)[Top.base + 1] \in BlockState
    BY <1>1, <1>2 DEF Blocks
  <2> QED
    BY <1>1, <1>4, <2>1, InFnFacts
<1> QED
  BY <1>1, <1>4, <1>5, ClosedFacts

LEMMA EndElseBlocks ==
    ASSUME TypeInv, EndElse
    PROVE  /\ blk' \in Blocks
           /\ \A c \in Block : c \notin {insert, Top.base + 2}
                                 => blk'[c] = blk[c]
           /\ insert \notin {0, Top.base + 2} =>
                blk'[insert] = BrUnlessTerminated(blk[insert], {Top.base + 2})
           /\ insert # Top.base + 2 =>
                blk'[Top.base + 2] = InFn(blk[Top.base + 2], Top.fn)
           /\ blk'[Top.base + 2].fn = Top.fn
<1>1. Top.base + 2 \in Block /\ Top.fn \in 0..MaxFns
  <2>1. Top.node = "else"
    BY DEF EndElse, In
  <2> QED
    BY <2>1, TopBlocks, SpanValues
<1>2. Closed(Top.base + 2) \in Blocks
  BY <1>1, ClosedFacts
<1>3. blk' = Place(Closed(Top.base + 2), Top.base + 2, Top.fn)
  BY DEF EndElse
<1>4. /\ blk' \in Blocks
      /\ blk'[Top.base + 2] = InFn(Closed(Top.base + 2)[Top.base + 2], Top.fn)
      /\ \A c \in Block : c # Top.base + 2 =>
           blk'[c] = Closed(Top.base + 2)[c]
  BY <1>1, <1>2, <1>3, PlaceFacts
<1>5. blk'[Top.base + 2].fn = Top.fn
  <2>1. Closed(Top.base + 2)[Top.base + 2] \in BlockState
    BY <1>1, <1>2 DEF Blocks
  <2> QED
    BY <1>1, <1>4, <2>1, InFnFacts
<1> QED
  BY <1>1, <1>4, <1>5, ClosedFacts

LEMMA WhileFailsBlocks ==
    ASSUME TypeInv, WhileConditionFails
    PROVE  /\ blk' \in Blocks
           /\ blk'[nblk + 1] = Fresh(CurrentFn)
           /\ blk'[nblk + 2] = Fresh(0)
           /\ \A c \in Block : c \notin {nblk + 1, nblk + 2}
                                 => blk'[c] = blk[c]
<1>1. CurrentFn \in 0..MaxFns /\ 0 \in 0..MaxFns /\ blk \in Blocks
  BY InsertFacts, StateFacts DEF WhileConditionFails
<1>2. Room(2) /\ 1 \in 1..2 /\ 2 \in 1..2
  BY DEF WhileConditionFails
<1>3. nblk + 1 \in Block /\ nblk + 2 \in Block /\ nblk \in Nat
  BY <1>2, NewBlocks, StateFacts
<1>4. Fresh(CurrentFn) \in BlockState /\ Fresh(0) \in BlockState
  BY <1>1, FreshFacts
<1> QED
  BY <1>1, <1>3, <1>4 DEF WhileConditionFails, Blocks

LEMMA BeginWhileBlocks ==
    ASSUME TypeInv, BeginWhile
    PROVE  /\ blk' \in Blocks
           /\ blk'[insert] = WithBr(blk[insert], {nblk + 1, nblk + 2})
           /\ blk'[nblk + 1] = Fresh(CurrentFn)
           /\ blk'[nblk + 2] = Fresh(0)
           /\ \A c \in Block : c \notin {insert, nblk + 1, nblk + 2}
                                 => blk'[c] = blk[c]
<1>1. /\ insert \in Block /\ blk[insert] \in BlockState
      /\ CurrentFn \in 0..MaxFns /\ 0 \in 0..MaxFns /\ blk \in Blocks
  BY InsertFacts, StateFacts DEF BeginWhile
<1>2. Room(2) /\ 1 \in 1..2 /\ 2 \in 1..2
  BY DEF BeginWhile
<1>3. /\ nblk + 1 \in Block /\ nblk + 2 \in Block /\ nblk \in Nat
      /\ nblk + 1 # insert /\ nblk + 2 # insert
  BY <1>2, NewBlocks, StateFacts
<1>4. /\ WithBr(blk[insert], {nblk + 1, nblk + 2}) \in BlockState
      /\ Fresh(CurrentFn) \in BlockState /\ Fresh(0) \in BlockState
  <2>1. {nblk + 1, nblk + 2} \in SUBSET Block
    BY <1>3
  <2> QED
    BY <1>1, <2>1, BrFacts, FreshFacts
<1> QED
  BY <1>1, <1>3, <1>4 DEF BeginWhile, Blocks

\* the loop's back branch at the builder's block, then the after block
LEMMA EndWhileBlocks ==
    ASSUME TypeInv, EndWhile, insert # Top.base + 1
    PROVE  /\ blk' \in Blocks
           /\ \A c \in Block : c \notin {insert, Top.base + 1}
                                 => blk'[c] = blk[c]
           /\ insert # 0 =>
                blk'[insert] = WithBr(blk[insert], {Top.base, Top.base + 1})
           /\ blk'[Top.base + 1] = WithRet(InFn(blk[Top.base + 1], Top.fn))
<1>1. Top.base + 1 \in Block /\ Top.base \in Block /\ Top.fn \in 0..MaxFns
  <2>1. Top.node = "while"
    BY DEF EndWhile, In
  <2>2. Top.base + 0 \in Block /\ Top.base \in Nat
    BY <2>1, TopBlocks, SpanValues
  <2> QED
    BY <2>1, <2>2, TopBlocks, SpanValues
<1> DEFINE after == WithRet(InFn(blk[Top.base + 1], Top.fn))
           looped == [blk EXCEPT
                        ![insert] = WithBr(@, {Top.base, Top.base + 1})]
<1>2. after \in BlockState /\ blk \in Blocks
  <2>1. blk[Top.base + 1] \in BlockState /\ blk \in Blocks
    BY <1>1, StateFacts DEF Blocks
  <2>2. InFn(blk[Top.base + 1], Top.fn) \in BlockState
    BY <1>1, <2>1, InFnFacts
  <2> QED
    BY <2>1, <2>2, RetFacts
<1>3. /\ looped \in Blocks
      /\ \A c \in Block : c # insert => looped[c] = blk[c]
      /\ insert # 0 =>
           looped[insert] = WithBr(blk[insert], {Top.base, Top.base + 1})
  <2>1. CASE insert # 0
    <3>1. /\ insert \in Block
          /\ WithBr(blk[insert], {Top.base, Top.base + 1}) \in BlockState
      BY <1>1, <2>1, InsertFacts, BrFacts, {Top.base, Top.base + 1} \in SUBSET Block
    <3> QED
      BY <1>2, <3>1 DEF Blocks
  <2>2. CASE insert = 0
    <3>1. insert \notin Block
      BY <2>2 DEF Block
    <3>2. looped = blk
      BY <1>2, <3>1 DEF Blocks
    <3> QED
      BY <1>2, <2>2, <3>2
  <2> QED
    BY <2>1, <2>2
<1>4. blk' = [looped EXCEPT ![Top.base + 1] = after]
  <2>1. looped[Top.base + 1] = blk[Top.base + 1]
    BY <1>1, <1>3
  <2> QED
    BY <2>1 DEF EndWhile
<1> HIDE DEF looped, after
<1>5. /\ blk' \in Blocks /\ blk'[Top.base + 1] = after
      /\ \A c \in Block : c # Top.base + 1 => blk'[c] = looped[c]
  BY <1>1, <1>2, <1>3, <1>4 DEF Blocks
<1>6. insert # 0 => insert \in Block
  BY InsertFacts
<1> QED
  BY <1>3, <1>5, <1>6 DEF after

\* the five blocks of a for statement; first is its condition block
LEMMA ForBlocksFacts ==
    ASSUME TypeInv, insert # 0, Room(5), NEW first \in BlockState,
           NEW new, new = ForBlocks(nblk + 1, first)
    PROVE  /\ new \in Blocks
           /\ new[insert] = WithBr(blk[insert], {nblk + 1})
           /\ new[nblk + 1] = WithBr(Fresh(CurrentFn), {nblk + 2})
           /\ new[nblk + 2] = first
           /\ new[nblk + 3] = Fresh(CurrentFn)
           /\ new[nblk + 4] = Fresh(CurrentFn)
           /\ new[nblk + 5] = Fresh(CurrentFn)
           /\ \A c \in Block :
                c \notin {insert, nblk + 1, nblk + 2, nblk + 3, nblk + 4, nblk + 5}
                  => new[c] = blk[c]
<1>1. /\ insert \in Block /\ blk[insert] \in BlockState
      /\ CurrentFn \in 0..MaxFns /\ blk \in Blocks
  BY InsertFacts, StateFacts
<1>2. /\ nblk + 1 \in Block /\ nblk + 2 \in Block /\ nblk + 3 \in Block
      /\ nblk + 4 \in Block /\ nblk + 5 \in Block /\ nblk \in Nat
      /\ nblk + 1 # insert /\ nblk + 2 # insert /\ nblk + 3 # insert
      /\ nblk + 4 # insert /\ nblk + 5 # insert
  <2>1. 1 \in 1..5 /\ 2 \in 1..5 /\ 3 \in 1..5 /\ 4 \in 1..5 /\ 5 \in 1..5
    OBVIOUS
  <2> QED
    BY <2>1, NewBlocks, StateFacts
<1>3. /\ Fresh(CurrentFn) \in BlockState
      /\ WithBr(blk[insert], {nblk + 1}) \in BlockState
      /\ WithBr(Fresh(CurrentFn), {nblk + 2}) \in BlockState
  <2>1. {nblk + 1} \in SUBSET Block /\ {nblk + 2} \in SUBSET Block
    BY <1>2
  <2> QED
    BY <1>1, <2>1, BrFacts, FreshFacts
<1>4. nblk + 1 + 1 = nblk + 2 /\ nblk + 1 + 2 = nblk + 3
      /\ nblk + 1 + 3 = nblk + 4 /\ nblk + 1 + 4 = nblk + 5
  BY <1>2
<1> QED
  BY <1>1, <1>2, <1>3, <1>4 DEF ForBlocks, Blocks

LEMMA ForFailsBlocks ==
    ASSUME TypeInv, ForConditionFails
    PROVE  /\ blk' \in Blocks
           /\ blk'[insert] = WithBr(blk[insert], {nblk + 1})
           /\ blk'[nblk + 1] = WithBr(Fresh(CurrentFn), {nblk + 2})
           /\ blk'[nblk + 2] = Fresh(CurrentFn)
           /\ blk'[nblk + 3] = Fresh(CurrentFn)
           /\ blk'[nblk + 4] = Fresh(CurrentFn)
           /\ blk'[nblk + 5] = Fresh(CurrentFn)
           /\ \A c \in Block :
                c \notin {insert, nblk + 1, nblk + 2, nblk + 3, nblk + 4, nblk + 5}
                  => blk'[c] = blk[c]
<1>1. Fresh(CurrentFn) \in BlockState
  <2>1. CurrentFn \in 0..MaxFns
    BY InsertFacts DEF ForConditionFails
  <2> QED
    BY <2>1, FreshFacts
<1>2. /\ insert # 0 /\ Room(5)
      /\ blk' = ForBlocks(nblk + 1, Fresh(CurrentFn))
  BY DEF ForConditionFails
<1> QED
  BY <1>1, <1>2, ForBlocksFacts

LEMMA BeginForBlocks ==
    ASSUME TypeInv, BeginFor
    PROVE  /\ blk' \in Blocks
           /\ blk'[insert] = WithBr(blk[insert], {nblk + 1})
           /\ blk'[nblk + 1] = WithBr(Fresh(CurrentFn), {nblk + 2})
           /\ blk'[nblk + 2] = WithBr(Fresh(CurrentFn), {nblk + 3, nblk + 5})
           /\ blk'[nblk + 3] = Fresh(CurrentFn)
           /\ blk'[nblk + 4] = Fresh(CurrentFn)
           /\ blk'[nblk + 5] = Fresh(CurrentFn)
           /\ \A c \in Block :
                c \notin {insert, nblk + 1, nblk + 2, nblk + 3, nblk + 4, nblk + 5}
                  => blk'[c] = blk[c]
<1> DEFINE first == WithBr(Fresh(CurrentFn), {nblk + 3, nblk + 5})
<1>1. insert # 0 /\ Room(5) /\ nblk \in Nat /\ CurrentFn \in 0..MaxFns
  BY InsertFacts, StateFacts DEF BeginFor
<1>2. first \in BlockState
  <2>1. nblk + 3 \in Block /\ nblk + 5 \in Block
    BY <1>1, NewBlocks, 3 \in 1..5, 5 \in 1..5
  <2>2. {nblk + 3, nblk + 5} \in SUBSET Block
    BY <2>1
  <2> QED
    BY <1>1, <2>2, BrFacts, FreshFacts
<1>3. blk' = ForBlocks(nblk + 1, first)
  <2>1. nblk + 1 + 2 = nblk + 3 /\ nblk + 1 + 4 = nblk + 5
    BY <1>1
  <2> QED
    BY <2>1 DEF BeginFor
<1> HIDE DEF first
<1>4. /\ blk' \in Blocks
      /\ blk'[insert] = WithBr(blk[insert], {nblk + 1})
      /\ blk'[nblk + 1] = WithBr(Fresh(CurrentFn), {nblk + 2})
      /\ blk'[nblk + 2] = first
      /\ blk'[nblk + 3] = Fresh(CurrentFn)
      /\ blk'[nblk + 4] = Fresh(CurrentFn)
      /\ blk'[nblk + 5] = Fresh(CurrentFn)
      /\ \A c \in Block :
           c \notin {insert, nblk + 1, nblk + 2, nblk + 3, nblk + 4, nblk + 5}
             => blk'[c] = blk[c]
  BY <1>1, <1>2, <1>3, ForBlocksFacts
<1> QED
  BY <1>4 DEF first

\* the body's branch to iter if bodyBlock is open, then iter and after
LEMMA EndForBlocks ==
    ASSUME TypeInv, EndFor, insert \notin {Top.base + 3, Top.base + 4}
    PROVE  /\ blk' \in Blocks
           /\ \A c \in Block : c \notin {insert, Top.base + 3, Top.base + 4}
                                 => blk'[c] = blk[c]
           /\ insert # 0 =>
                blk'[insert] \in {blk[insert],
                                  WithBr(blk[insert], {Top.base + 3})}
           /\ blk'[Top.base + 3] = WithBr(blk[Top.base + 3], {Top.base + 1})
           /\ blk'[Top.base + 4] = WithRet(blk[Top.base + 4])
<1>1. /\ Top.base + 1 \in Block /\ Top.base + 3 \in Block
      /\ Top.base + 4 \in Block /\ Top.base \in Nat
  <2>1. Top.node = "for"
    BY DEF EndFor, In
  <2> QED
    BY <2>1, TopBlocks, SpanValues
<1> DEFINE body == Top.base + 2
           closed == IF Terminated(body) THEN blk
                     ELSE [blk EXCEPT ![insert] = WithBr(@, {Top.base + 3})]
           iterated == [closed EXCEPT ![Top.base + 3] =
                           WithBr(blk[Top.base + 3], {Top.base + 1})]
<1>2. blk \in Blocks
  BY StateFacts
<1>3. /\ closed \in Blocks
      /\ \A c \in Block : c # insert => closed[c] = blk[c]
      /\ insert # 0 =>
           closed[insert] \in {blk[insert], WithBr(blk[insert], {Top.base + 3})}
  <2>1. CASE Terminated(body)
    BY <1>2, <2>1
  <2>2. CASE ~Terminated(body) /\ insert # 0
    <3>1. /\ insert \in Block
          /\ WithBr(blk[insert], {Top.base + 3}) \in BlockState
      BY <1>1, <2>2, InsertFacts, BrFacts, {Top.base + 3} \in SUBSET Block
    <3> QED
      BY <1>2, <2>2, <3>1 DEF Blocks
  <2>3. CASE ~Terminated(body) /\ insert = 0
    <3>1. insert \notin Block
      BY <2>3 DEF Block
    <3>2. closed = blk
      BY <1>2, <2>3, <3>1 DEF Blocks
    <3> QED
      BY <1>2, <2>3, <3>2
  <2> QED
    BY <2>1, <2>2, <2>3
<1> HIDE DEF closed
<1>4. /\ iterated \in Blocks
      /\ iterated[Top.base + 3] = WithBr(blk[Top.base + 3], {Top.base + 1})
      /\ \A c \in Block : c # Top.base + 3 => iterated[c] = closed[c]
  <2>1. WithBr(blk[Top.base + 3], {Top.base + 1}) \in BlockState
    BY <1>1, <1>2, BrFacts, {Top.base + 1} \in SUBSET Block DEF Blocks
  <2> QED
    BY <1>1, <1>3, <2>1 DEF Blocks
<1>5. blk' = [iterated EXCEPT ![Top.base + 4] = WithRet(blk[Top.base + 4])]
  <2>1. closed[Top.base + 3] = blk[Top.base + 3]
    BY <1>1, <1>3
  <2>2. iterated[Top.base + 4] = blk[Top.base + 4]
    BY <1>1, <1>3, <1>4
  <2> QED
    BY <2>1, <2>2 DEF EndFor, closed
<1> HIDE DEF iterated
<1>6. /\ blk' \in Blocks
      /\ blk'[Top.base + 4] = WithRet(blk[Top.base + 4])
      /\ \A c \in Block : c # Top.base + 4 => blk'[c] = iterated[c]
  <2>1. WithRet(blk[Top.base + 4]) \in BlockState
    BY <1>1, <1>2, RetFacts DEF Blocks
  <2> QED
    BY <1>1, <1>4, <1>5, <2>1 DEF Blocks
<1>7. insert # 0 => insert \in Block
  BY InsertFacts
<1> QED
  BY <1>1, <1>3, <1>4, <1>6, <1>7

LEMMA BeginFunctionBlocks ==
    ASSUME TypeInv, NEW hasArgs \in BOOLEAN, BeginFunction(hasArgs)
    PROVE  /\ nfn + 1 \in 1..MaxFns
           /\ blk' \in Blocks
           /\ blk'[nblk + 1] \in {Fresh(nfn + 1), WithOp(Fresh(nfn + 1))}
           /\ \A c \in Block : c # nblk + 1 => blk'[c] = blk[c]
<1>1. nfn + 1 \in 1..MaxFns /\ nfn + 1 \in 0..MaxFns /\ blk \in Blocks
  BY StateFacts DEF BeginFunction
<1>2. nblk + 1 \in Block
  <2>1. Room(1) /\ 1 \in 1..1
    BY DEF BeginFunction
  <2> QED
    BY <2>1, NewBlocks
<1>3. Fresh(nfn + 1) \in BlockState /\ WithOp(Fresh(nfn + 1)) \in BlockState
  BY <1>1, FreshFacts, OpFacts
<1> QED
  BY <1>1, <1>2, <1>3 DEF BeginFunction, Blocks

-----------------------------------------------------------------------------
(* Type correctness of every step.                                         *)

\* The top construct's owed blocks are as they were created.
LEMMA TopOwed ==
    ASSUME TypeInv, OwedUntouched, Top.node \notin {"module", "func"},
           NEW b \in Owed(Top)
    PROVE  /\ b # insert
           /\ blk[b] = Fresh(IF Top.node = "for" THEN Top.fn ELSE 0)
<1>1. Len(frames) \in Pending
  BY DEF Pending, Top, TypeInv, FramesOK
<1> QED
  BY <1>1 DEF OwedUntouched, Top

\* popBlock finds a scope to pop; the number of loops never exceeds the depth.
LEMMA DepthPop ==
    ASSUME TypeInv, LoopsUnderWay' = LoopsUnderWay \ {Len(frames)}
    PROVE  /\ depth >= Cardinality(LoopsUnderWay')
           /\ Len(frames) \in LoopsUnderWay =>
                depth - 1 \in Nat /\ depth - 1 >= Cardinality(LoopsUnderWay')
<1> DEFINE m == Cardinality(LoopsUnderWay \ {Len(frames)})
<1>1. /\ m \in Nat /\ m <= Cardinality(LoopsUnderWay)
      /\ Len(frames) \in LoopsUnderWay =>
           /\ Cardinality(LoopsUnderWay) >= 1
           /\ m = Cardinality(LoopsUnderWay) - 1
  BY LoopCount, StateFacts
<1>2. depth \in Nat /\ Cardinality(LoopsUnderWay) \in Nat
      /\ depth >= Cardinality(LoopsUnderWay)
  BY StateFacts
<1>3. Cardinality(LoopsUnderWay') = m
  OBVIOUS
<1> HIDE DEF m
<1> QED
  BY <1>1, <1>2, <1>3

LEMMA DepthPush ==
    ASSUME TypeInv, LoopsUnderWay' = LoopsUnderWay \cup {Len(frames) + 1}
    PROVE  depth + 1 \in Nat /\ depth + 1 >= Cardinality(LoopsUnderWay')
<1> DEFINE m == Cardinality(LoopsUnderWay \cup {Len(frames) + 1})
<1>1. m <= Cardinality(LoopsUnderWay) + 1
  BY LoopCount, StateFacts
<1>2. depth \in Nat /\ Cardinality(LoopsUnderWay) \in Nat
      /\ depth >= Cardinality(LoopsUnderWay) /\ m \in Nat
  <2>1. IsFiniteSet(LoopsUnderWay)
    BY LoopsFinite, StateFacts
  <2>2. IsFiniteSet(LoopsUnderWay \cup {Len(frames) + 1})
    BY <2>1, FS_AddElement
  <2> QED
    BY <2>2, StateFacts, FS_CardinalityType
<1>3. Cardinality(LoopsUnderWay') = m
  OBVIOUS
<1> HIDE DEF m
<1> QED
  BY <1>1, <1>2, <1>3

LEMMA TypeInvStep ==
    ASSUME FramesOK', blk' \in Blocks, nblk' \in 0..MaxBlocks,
           nfn' \in 0..MaxFns, insert' \in 0..nblk', depth' \in Nat,
           status' \in {"running", "done", "crashed"},
           failed' \in BOOLEAN, nested' \in BOOLEAN,
           abandoned' \subseteq Block, left' \subseteq Block,
           insert' # 0 => blk'[insert'].fn # 0,
           depth' >= Cardinality(LoopsUnderWay')
    PROVE  TypeInv'
  BY DEF TypeInv, TypeOK, FramesOK, Blocks, InsertPointPlaced, Placed

LEMMA TypeInvNext ==
    ASSUME TypeInv, OwedUntouched, [Next]_vars PROVE TypeInv'
<1>1. /\ FramesOK /\ blk \in Blocks /\ nblk \in 0..MaxBlocks /\ nblk \in Nat
      /\ nfn \in 0..MaxFns /\ insert \in 0..nblk /\ depth \in Nat
      /\ status \in {"running", "done", "crashed"}
      /\ failed \in BOOLEAN /\ nested \in BOOLEAN
      /\ abandoned \subseteq Block /\ left \subseteq Block
      /\ insert # 0 => blk[insert].fn # 0 /\ insert \in Block
      /\ depth >= Cardinality(LoopsUnderWay)
      /\ MaxBlocks \in Nat /\ MaxFns \in Nat
  BY StateFacts, InsertFacts
     DEF TypeInv, TypeOK, InsertPointPlaced, Placed
<1>2. insert # 0 => blk[insert] \in BlockState
  BY InsertFacts
<1>3. ASSUME NEW emit \in BOOLEAN, NEW v \in {"null", "value"},
             SimpleStmt(emit, v)
      PROVE  TypeInv'
  <2>1. /\ frames' = SetVal(frames, v) /\ failed' = (failed \/ v = "null")
        /\ UNCHANGED <<nblk, nfn, insert, depth, status, abandoned, left, nested>>
    BY <1>3 DEF SimpleStmt
  <2>2. FramesOK' /\ LoopsUnderWay' = LoopsUnderWay
    BY <1>1, <2>1, SameFrames
  <2>3. blk' \in Blocks /\ (insert # 0 => blk'[insert].fn = blk[insert].fn)
    BY <1>2, <1>3, SimpleBlocks, OpFacts
  <2> QED
    BY <1>1, <2>1, <2>2, <2>3, TypeInvStep
<1>4. ASSUME NEW v \in {"null", "value"}, NEW err \in BOOLEAN,
             ReturnStmt(v, err)
      PROVE  TypeInv'
  <2>1. /\ frames' = SetVal(frames, v) /\ failed' = (failed \/ err)
        /\ UNCHANGED <<nblk, nfn, insert, depth, status, abandoned, left, nested>>
    BY <1>4 DEF ReturnStmt
  <2>2. FramesOK' /\ LoopsUnderWay' = LoopsUnderWay
    BY <1>1, <2>1, SameFrames
  <2>3. blk' \in Blocks /\ (insert # 0 => blk'[insert].fn = blk[insert].fn)
    BY <1>2, <1>4, ReturnBlocks, RetFacts
  <2> QED
    BY <1>1, <2>1, <2>2, <2>3, TypeInvStep
<1>5. CASE NullDereference
  <2>1. /\ status' = "crashed"
        /\ UNCHANGED <<blk, nblk, nfn, insert, depth, frames,
                       failed, abandoned, left, nested>>
    BY <1>5 DEF NullDereference
  <2>2. FramesOK' /\ LoopsUnderWay' = LoopsUnderWay
    BY <1>1, <2>1 DEF FramesOK, LoopsUnderWay
  <2> QED
    BY <1>1, <2>1, <2>2, TypeInvStep
<1>6. CASE BeginIf
  <2>1. /\ nblk' = nblk + 3 /\ nblk' <= MaxBlocks /\ insert' = nblk + 1
        /\ insert # 0 /\ Push("then", CurrentFn, nblk + 1)
        /\ UNCHANGED <<nfn, depth, status, failed, abandoned, left, nested>>
    BY <1>6 DEF BeginIf, Room
  <2>2. CurrentFn \in 1..MaxFns /\ CurrentFn \in 0..MaxFns /\ CurrentFn # 0
    BY <2>1, InsertFacts
  <2>3. FramesOK' /\ LoopsUnderWay' = LoopsUnderWay
    <3>1. nblk + 1 + Span("then") <= nblk' /\ nblk' \in Nat /\ nblk' >= nblk
      BY <1>1, <2>1, SpanValues
    <3> QED
      BY <1>1, <2>1, <2>2, <3>1, PushFrames
  <2>4. blk' \in Blocks /\ blk'[insert'].fn # 0
    BY <1>6, <2>1, <2>2, BeginIfBlocks, FreshFacts
  <2>5. nblk' \in 0..MaxBlocks /\ insert' \in 0..nblk'
    BY <1>1, <2>1
  <2> QED
    BY <1>1, <2>1, <2>3, <2>4, <2>5, TypeInvStep
<1>7. CASE AbandonIf
  <2>1. /\ Top.node \in {"then", "else"} /\ Top.node # "module" /\ Pop("null")
        /\ abandoned' \subseteq abandoned \cup {Top.base + 1, Top.base + 2}
        /\ failed' = (failed \/ Top.val = "undef")
        /\ UNCHANGED <<blk, nblk, nfn, insert, depth, status, left, nested>>
    BY <1>7 DEF AbandonIf
  <2>2. FramesOK' /\ LoopsUnderWay' = LoopsUnderWay \ {Len(frames)}
    BY <1>1, <2>1, PopFrames
  <2>3. abandoned' \subseteq Block
    BY <1>1, <2>1, TopBlocks, SpanValues
  <2>4. depth' >= Cardinality(LoopsUnderWay')
    BY <2>1, <2>2, DepthPop
  <2> QED
    BY <1>1, <2>1, <2>2, <2>3, <2>4, TypeInvStep
<1>8. CASE EndThen
  <2>1. /\ Top.node = "then" /\ insert' = Top.base + 1
        /\ frames' = [frames EXCEPT ![Len(frames)] = ElseFrame(@)]
        /\ failed' = (failed \/ Top.val = "undef")
        /\ UNCHANGED <<nblk, nfn, depth, status, abandoned, left, nested>>
    BY <1>8 DEF EndThen, In
  <2>2. FramesOK' /\ LoopsUnderWay' = LoopsUnderWay
    BY <1>1, <2>1, ElseFrames
  <2>3. /\ Top.base \in Nat /\ Top.base + 1 <= nblk /\ Top.fn # 0
    BY <2>1, TopBlocks, SpanValues
  <2>4. blk' \in Blocks /\ blk'[insert'].fn # 0
    BY <1>8, <2>1, <2>3, EndThenBlocks
  <2>5. insert' \in 0..nblk'
    BY <1>1, <2>1, <2>3
  <2> QED
    BY <1>1, <2>1, <2>2, <2>4, <2>5, TypeInvStep
<1>9. CASE EndElse
  <2>1. /\ Top.node = "else" /\ insert' = Top.base + 2 /\ Pop("null")
        /\ UNCHANGED <<nblk, nfn, depth, status, failed, abandoned, left, nested>>
    BY <1>9 DEF EndElse, In
  <2>2. FramesOK' /\ LoopsUnderWay' = LoopsUnderWay \ {Len(frames)}
    BY <1>1, <2>1, PopFrames
  <2>3. /\ Top.base \in Nat /\ Top.base + 2 <= nblk /\ Top.fn # 0
    BY <2>1, TopBlocks, SpanValues
  <2>4. blk' \in Blocks /\ blk'[insert'].fn # 0
    BY <1>9, <2>1, <2>3, EndElseBlocks
  <2>5. insert' \in 0..nblk'
    BY <1>1, <2>1, <2>3
  <2>6. depth' >= Cardinality(LoopsUnderWay')
    BY <2>1, <2>2, DepthPop
  <2> QED
    BY <1>1, <2>1, <2>2, <2>4, <2>5, <2>6, TypeInvStep
<1>10. CASE WhileConditionFails
  <2>1. /\ nblk' = nblk + 2 /\ nblk' <= MaxBlocks /\ insert # 0
        /\ frames' = SetVal(frames, "null") /\ failed' = TRUE
        /\ UNCHANGED <<nfn, insert, depth, status, abandoned, left, nested>>
    BY <1>10 DEF WhileConditionFails, Room
  <2>2. nblk' \in Nat /\ nblk' >= nblk /\ nblk' \in 0..MaxBlocks
        /\ insert' \in 0..nblk'
    BY <1>1, <2>1
  <2>3. FramesOK' /\ LoopsUnderWay' = LoopsUnderWay
    BY <1>1, <2>1, <2>2, SameFrames
  <2>4. blk' \in Blocks /\ blk'[insert] = blk[insert]
    <3>1. insert \in Block /\ insert \notin {nblk + 1, nblk + 2}
      BY <1>1, <2>1
    <3> QED
      BY <1>10, <3>1, WhileFailsBlocks
  <2> QED
    BY <1>1, <2>1, <2>2, <2>3, <2>4, TypeInvStep
<1>11. CASE BeginWhile
  <2>1. /\ nblk' = nblk + 2 /\ nblk' <= MaxBlocks /\ insert' = nblk + 1
        /\ insert # 0 /\ depth' = depth + 1
        /\ Push("while", CurrentFn, nblk + 1)
        /\ UNCHANGED <<nfn, status, failed, abandoned, left, nested>>
    BY <1>11 DEF BeginWhile, Room, PushBlock
  <2>2. CurrentFn \in 1..MaxFns /\ CurrentFn \in 0..MaxFns /\ CurrentFn # 0
    BY <2>1, InsertFacts
  <2>3. FramesOK' /\ LoopsUnderWay' = LoopsUnderWay \cup {Len(frames) + 1}
    <3>1. nblk + 1 + Span("while") <= nblk' /\ nblk' \in Nat /\ nblk' >= nblk
      BY <1>1, <2>1, SpanValues
    <3> QED
      BY <1>1, <2>1, <2>2, <3>1, PushFrames
  <2>4. blk' \in Blocks /\ blk'[insert'].fn # 0
    BY <1>11, <2>1, <2>2, BeginWhileBlocks, FreshFacts
  <2>5. nblk' \in 0..MaxBlocks /\ insert' \in 0..nblk'
    BY <1>1, <2>1
  <2>6. depth' \in Nat /\ depth' >= Cardinality(LoopsUnderWay')
    BY <2>1, <2>3, DepthPush
  <2> QED
    BY <1>1, <2>1, <2>3, <2>4, <2>5, <2>6, TypeInvStep
<1>12. CASE EndWhile
  <2>1. /\ Top.node = "while" /\ insert' = Top.base + 1 /\ depth' = depth - 1
        /\ Pop("null")
        /\ UNCHANGED <<nblk, nfn, status, failed, abandoned, left, nested>>
    BY <1>12 DEF EndWhile, In, PopBlock
  <2>2. FramesOK' /\ LoopsUnderWay' = LoopsUnderWay \ {Len(frames)}
    BY <1>1, <2>1, PopFrames
  <2>3. /\ Top.base \in Nat /\ Top.base + 1 <= nblk /\ Top.fn # 0
        /\ Top.base + 1 \in Block /\ Top.fn \in 0..MaxFns
    BY <2>1, TopBlocks, SpanValues
  <2>4. insert # Top.base + 1
    BY <2>1, TopOwed DEF Owed
  <2>5. blk' \in Blocks /\ blk'[insert'].fn # 0
    <3>1. blk[Top.base + 1] \in BlockState
      BY <1>1, <2>3 DEF Blocks
    <3> QED
      <4>1. WithRet(InFn(blk[Top.base + 1], Top.fn)).fn = Top.fn
        <5>1. /\ InFn(blk[Top.base + 1], Top.fn) \in BlockState
              /\ InFn(blk[Top.base + 1], Top.fn).fn = Top.fn
          BY <2>3, <3>1, InFnFacts
        <5> QED
          BY <5>1, RetFacts
      <4> QED
        BY <1>12, <2>1, <2>3, <2>4, <4>1, EndWhileBlocks
  <2>6. insert' \in 0..nblk'
    BY <1>1, <2>1, <2>3
  <2>7. Len(frames) \in LoopsUnderWay
    BY <1>1, <2>1 DEF LoopsUnderWay, Top, FramesOK
  <2>8. depth' \in Nat /\ depth' >= Cardinality(LoopsUnderWay')
    BY <2>1, <2>2, <2>7, DepthPop
  <2> QED
    BY <1>1, <2>1, <2>2, <2>5, <2>6, <2>8, TypeInvStep
<1>13. CASE ForConditionFails
  <2>1. /\ nblk' = nblk + 5 /\ nblk' <= MaxBlocks /\ insert # 0
        /\ insert' = nblk + 2
        /\ frames' = SetVal(frames, "null") /\ failed' = TRUE
        /\ UNCHANGED <<nfn, depth, status, abandoned, left, nested>>
    BY <1>1, <1>13 DEF ForConditionFails, Room
  <2>2. nblk' \in Nat /\ nblk' >= nblk /\ nblk' \in 0..MaxBlocks
        /\ insert' \in 0..nblk'
    BY <1>1, <2>1
  <2>3. FramesOK' /\ LoopsUnderWay' = LoopsUnderWay
    BY <1>1, <2>1, <2>2, SameFrames
  <2>4. CurrentFn \in 0..MaxFns /\ CurrentFn # 0
    BY <2>1, InsertFacts
  <2>5. blk' \in Blocks /\ blk'[insert'].fn # 0
    BY <1>13, <2>1, <2>4, ForFailsBlocks, FreshFacts
  <2> QED
    BY <1>1, <2>1, <2>2, <2>3, <2>5, TypeInvStep
<1>14. CASE BeginFor
  <2>1. /\ nblk' = nblk + 5 /\ nblk' <= MaxBlocks /\ insert' = nblk + 3
        /\ insert # 0 /\ depth' = depth + 1
        /\ Push("for", CurrentFn, nblk + 1)
        /\ UNCHANGED <<nfn, status, failed, abandoned, left, nested>>
    BY <1>1, <1>14 DEF BeginFor, Room, PushBlock
  <2>2. CurrentFn \in 1..MaxFns /\ CurrentFn \in 0..MaxFns /\ CurrentFn # 0
    BY <2>1, InsertFacts
  <2>3. FramesOK' /\ LoopsUnderWay' = LoopsUnderWay \cup {Len(frames) + 1}
    <3>1. nblk + 1 + Span("for") <= nblk' /\ nblk' \in Nat /\ nblk' >= nblk
      BY <1>1, <2>1, SpanValues
    <3> QED
      BY <1>1, <2>1, <2>2, <3>1, PushFrames
  <2>4. blk' \in Blocks /\ blk'[insert'].fn # 0
    BY <1>14, <2>1, <2>2, BeginForBlocks, FreshFacts
  <2>5. nblk' \in 0..MaxBlocks /\ insert' \in 0..nblk'
    BY <1>1, <2>1
  <2>6. depth' \in Nat /\ depth' >= Cardinality(LoopsUnderWay')
    BY <2>1, <2>3, DepthPush
  <2> QED
    BY <1>1, <2>1, <2>3, <2>4, <2>5, <2>6, TypeInvStep
<1>15. CASE EndFor
  <2>1. /\ Top.node = "for" /\ insert' = Top.base + 4 /\ depth' = depth - 1
        /\ Pop("null")
        /\ UNCHANGED <<nblk, nfn, status, failed, abandoned, left, nested>>
    BY <1>15 DEF EndFor, In, PopBlock
  <2>2. FramesOK' /\ LoopsUnderWay' = LoopsUnderWay \ {Len(frames)}
    BY <1>1, <2>1, PopFrames
  <2>3. /\ Top.base \in Nat /\ Top.base + 4 <= nblk /\ Top.fn # 0
        /\ Top.base + 4 \in Block /\ Top.fn \in 0..MaxFns
    BY <2>1, TopBlocks, SpanValues
  <2>4. /\ insert \notin {Top.base + 3, Top.base + 4}
        /\ blk[Top.base + 4] = Fresh(Top.fn)
    <3>1. Top.base + 3 \in Owed(Top) /\ Top.base + 4 \in Owed(Top)
      BY <2>1 DEF Owed
    <3> QED
      BY <2>1, <3>1, TopOwed
  <2>5. blk' \in Blocks /\ blk'[insert'].fn # 0
    <3>1. WithRet(blk[Top.base + 4]).fn # 0
      <4>1. Fresh(Top.fn) \in BlockState /\ Fresh(Top.fn).fn = Top.fn
        BY <2>3, FreshFacts
      <4>2. WithRet(Fresh(Top.fn)).fn = Fresh(Top.fn).fn
        BY <4>1, RetFacts
      <4> QED
        BY <2>3, <2>4, <4>1, <4>2
    <3> QED
      BY <1>15, <2>1, <2>4, <3>1, EndForBlocks
  <2>6. insert' \in 0..nblk'
    BY <1>1, <2>1, <2>3
  <2>7. Len(frames) \in LoopsUnderWay
    BY <1>1, <2>1 DEF LoopsUnderWay, Top, FramesOK
  <2>8. depth' \in Nat /\ depth' >= Cardinality(LoopsUnderWay')
    BY <2>1, <2>2, <2>7, DepthPop
  <2> QED
    BY <1>1, <2>1, <2>2, <2>5, <2>6, <2>8, TypeInvStep
<1>16. CASE ExternFunction
  <2>1. /\ nfn' = nfn + 1 /\ nfn < MaxFns /\ frames' = SetVal(frames, "value")
        /\ UNCHANGED <<blk, nblk, insert, depth, status,
                       failed, abandoned, left, nested>>
    BY <1>16 DEF ExternFunction
  <2>2. FramesOK' /\ LoopsUnderWay' = LoopsUnderWay
    BY <1>1, <2>1, SameFrames
  <2>3. nfn' \in 0..MaxFns
    BY <1>1, <2>1
  <2> QED
    BY <1>1, <2>1, <2>2, <2>3, TypeInvStep
<1>17. ASSUME NEW hasArgs \in BOOLEAN, BeginFunction(hasArgs)
       PROVE  TypeInv'
  <2>1. /\ nblk' = nblk + 1 /\ nblk' <= MaxBlocks /\ insert' = nblk + 1
        /\ nfn' = nfn + 1 /\ depth' = depth + 1
        /\ left' = left \cup ({insert} \ {0})
        /\ nested' = (nested \/ Len(frames) > 1)
        /\ Push("func", nfn + 1, nblk + 1)
        /\ UNCHANGED <<status, failed, abandoned>>
    BY <1>17 DEF BeginFunction, Room, PushBlock
  <2>2. nfn + 1 \in 1..MaxFns /\ nfn + 1 \in 0..MaxFns /\ nfn + 1 # 0
    BY <1>1, <1>17, BeginFunctionBlocks
  <2>3. FramesOK' /\ LoopsUnderWay' = LoopsUnderWay
    <3>1. nblk + 1 + Span("func") <= nblk' /\ nblk' \in Nat /\ nblk' >= nblk
      BY <1>1, <2>1, SpanValues
    <3> QED
      BY <1>1, <2>1, <2>2, <3>1, PushFrames
  <2>4. blk' \in Blocks /\ blk'[insert'].fn # 0
    <3>1. /\ Fresh(nfn + 1).fn # 0 /\ WithOp(Fresh(nfn + 1)).fn # 0
      <4>1. Fresh(nfn + 1) \in BlockState /\ Fresh(nfn + 1).fn = nfn + 1
        BY <2>2, FreshFacts
      <4>2. WithOp(Fresh(nfn + 1)).fn = Fresh(nfn + 1).fn
        BY <4>1, OpFacts
      <4> QED
        BY <2>2, <4>1, <4>2
    <3> QED
      BY <1>17, <2>1, <3>1, BeginFunctionBlocks
  <2>5. /\ nblk' \in 0..MaxBlocks /\ insert' \in 0..nblk'
        /\ depth' \in Nat /\ depth' >= Cardinality(LoopsUnderWay')
    BY <1>1, <2>1, <2>3, StateFacts
  <2>6. left' \subseteq Block
    BY <1>1, <2>1
  <2> QED
    BY <1>1, <2>1, <2>2, <2>3, <2>4, <2>5, <2>6, TypeInvStep
<1>18. CASE EndFunction
  <2>1. /\ Top.node = "func" /\ Pop("value")
        /\ UNCHANGED <<blk, nblk, nfn, insert, depth, status,
                       failed, abandoned, left, nested>>
    BY <1>18 DEF EndFunction, In
  <2>2. FramesOK' /\ LoopsUnderWay' = LoopsUnderWay \ {Len(frames)}
    BY <1>1, <2>1, PopFrames
  <2>3. depth' >= Cardinality(LoopsUnderWay')
    BY <2>1, <2>2, DepthPop
  <2> QED
    BY <1>1, <2>1, <2>2, <2>3, TypeInvStep
<1>19. CASE EndModule
  <2>1. /\ status' = "done"
        /\ UNCHANGED <<blk, nblk, nfn, insert, depth, frames,
                       failed, abandoned, left, nested>>
    BY <1>19 DEF EndModule
  <2>2. FramesOK' /\ LoopsUnderWay' = LoopsUnderWay
    BY <1>1, <2>1 DEF FramesOK, LoopsUnderWay
  <2> QED
    BY <1>1, <2>1, <2>2, TypeInvStep
<1>20. CASE UNCHANGED vars
  <2>1. UNCHANGED <<blk, nblk, nfn, insert, depth, frames, status,
                   failed, abandoned, left, nested>>
    BY <1>20 DEF vars
  <2>2. FramesOK' /\ LoopsUnderWay' = LoopsUnderWay
    BY <1>1, <2>1 DEF FramesOK, LoopsUnderWay
  <2> QED
    BY <1>1, <2>1, <2>2, TypeInvStep
<1> QED
  BY <1>3, <1>4, <1>5, <1>6, <1>7, <1>8, <1>9, <1>10, <1>11, <1>12, <1>13, <1>14, <1>15, <1>16, <1>17, <1>18, <1>19, <1>20
     DEF Next, Statement, EndOfBlock, Finished

-----------------------------------------------------------------------------
(* The blocks a construct owes stay untouched.  An inner construct works    *)
(* with newer blocks than the constructs around it, and the builder is in   *)
(* none of the owed ones, so nothing that is appended lands in them.        *)

LEMMA OwedRange ==
    ASSUME TypeInv, NEW i \in Pending, NEW b \in Owed(frames[i])
    PROVE  /\ b \in Block /\ b <= nblk
           /\ i < Len(frames) => b < Top.base
<1>1. /\ i \in 2..Len(frames) /\ frames[i] \in Frame /\ frames[i].base \in Nat
      /\ frames[i].base >= 1
      /\ frames[i].base + Span(frames[i].node) <= nblk
      /\ i < Len(frames) =>
           frames[i].base + Span(frames[i].node) < frames[Len(frames)].base
      /\ frames[i].node \in {"then", "else", "while", "for"}
  <2>1. i \in 1..Len(frames) /\ frames[i].node \notin {"module", "func"}
    BY DEF Pending
  <2>2. i \in 2..Len(frames)
    BY <2>1 DEF TypeInv, FramesOK
  <2>3. frames[i] \in Frame
    BY <2>1 DEF TypeInv, FramesOK
  <2> QED
    BY <2>1, <2>2, <2>3 DEF TypeInv, FramesOK, Frame
<1>2. b >= 1 /\ b <= frames[i].base + Span(frames[i].node) /\ b \in Nat
  <2>1. b \in (frames[i].base + 1)..(frames[i].base + Span(frames[i].node))
    BY <1>1, SpanValues DEF Owed
  <2> QED
    BY <1>1, <2>1, SpanValues
<1>3. nblk \in Nat /\ nblk <= MaxBlocks /\ MaxBlocks \in Nat
  BY StateFacts
<1>4. Span(frames[i].node) \in Nat
  BY <1>1, SpanValues
<1>5. b <= nblk /\ b \in Block
  BY <1>1, <1>2, <1>3, <1>4 DEF Block
<1>6. ASSUME i < Len(frames) PROVE b < Top.base
  <2>1. Len(frames) \in 1..Len(frames) /\ Len(frames) \in Nat
    BY <1>1
  <2>2. frames[Len(frames)].base \in Nat
    <3>1. frames[Len(frames)] \in Frame
      BY <2>1 DEF TypeInv, FramesOK
    <3> QED
      BY <3>1 DEF Frame
  <2> QED
    BY <1>1, <1>2, <1>4, <1>6, <2>2 DEF Top
<1> QED
  BY <1>5, <1>6

\* One frame that stays, one of its blocks that no one wrote to.
LEMMA OwedKept ==
    ASSUME OwedUntouched, NEW i \in Pending, NEW b \in Owed(frames'[i]),
           frames'[i].node = frames[i].node, frames'[i].fn = frames[i].fn,
           frames'[i].base = frames[i].base, blk'[b] = blk[b]
    PROVE  /\ b \in Owed(frames[i]) /\ b # insert
           /\ blk'[b] = Fresh(IF frames'[i].node = "for"
                              THEN frames'[i].fn ELSE 0)
<1>1. b \in Owed(frames[i])
  BY DEF Owed
<1> QED
  BY <1>1 DEF OwedUntouched

LEMMA OwedSame ==
    ASSUME TypeInv, OwedUntouched, Len(frames') = Len(frames),
           \A i \in 1..Len(frames) : /\ frames'[i].node = frames[i].node
                                     /\ frames'[i].fn = frames[i].fn
                                     /\ frames'[i].base = frames[i].base,
           \A c \in Block : c <= nblk /\ c # insert => blk'[c] = blk[c],
           insert' = insert \/ insert' > nblk
    PROVE  OwedUntouched'
<1> SUFFICES ASSUME NEW i \in Pending', NEW b \in Owed(frames'[i])
             PROVE  /\ b # insert'
                    /\ blk'[b] = Fresh(IF frames'[i].node = "for"
                                       THEN frames'[i].fn ELSE 0)
  BY DEF OwedUntouched
<1>1. i \in Pending
  BY DEF Pending
<1>2. /\ frames'[i].node = frames[i].node /\ frames'[i].fn = frames[i].fn
      /\ frames'[i].base = frames[i].base
  BY <1>1 DEF Pending
<1>3. b \in Owed(frames[i])
  BY <1>2 DEF Owed
<1>4. b \in Block /\ b <= nblk /\ b # insert
  BY <1>1, <1>3, OwedRange DEF OwedUntouched
<1>5. b # insert'
  BY <1>4, StateFacts DEF Block
<1> QED
  BY <1>1, <1>2, <1>4, <1>5, OwedKept

LEMMA OwedPush ==
    ASSUME TypeInv, OwedUntouched, Len(frames') = Len(frames) + 1,
           \A i \in 1..Len(frames) : frames'[i] = frames[i],
           \A c \in Block : c <= nblk /\ c # insert => blk'[c] = blk[c],
           insert' > nblk,
           \A b \in Owed(frames'[Len(frames) + 1]) :
               /\ b # insert'
               /\ blk'[b] = Fresh(IF frames'[Len(frames) + 1].node = "for"
                                  THEN frames'[Len(frames) + 1].fn ELSE 0)
    PROVE  OwedUntouched'
<1> SUFFICES ASSUME NEW i \in Pending', NEW b \in Owed(frames'[i])
             PROVE  /\ b # insert'
                    /\ blk'[b] = Fresh(IF frames'[i].node = "for"
                                       THEN frames'[i].fn ELSE 0)
  BY DEF OwedUntouched
<1>1. CASE i = Len(frames) + 1
  BY <1>1
<1>2. CASE i # Len(frames) + 1
  <2>1. i \in 1..Len(frames) /\ frames'[i] = frames[i] /\ i \in Pending
    BY <1>2 DEF Pending, TypeInv, FramesOK
  <2>2. b \in Block /\ b <= nblk /\ b # insert
    BY <2>1, OwedRange DEF OwedUntouched
  <2>3. b # insert'
    BY <2>2, StateFacts DEF Block
  <2> QED
    BY <2>1, <2>2, <2>3, OwedKept
<1> QED
  BY <1>1, <1>2

LEMMA OwedPop ==
    ASSUME TypeInv, OwedUntouched, Top.node # "module",
           Len(frames) >= 2, Len(frames') = Len(frames) - 1,
           \A i \in 1..Len(frames') : /\ frames'[i].node = frames[i].node
                                      /\ frames'[i].fn = frames[i].fn
                                      /\ frames'[i].base = frames[i].base,
           \A c \in Block : c < Top.base /\ c # insert => blk'[c] = blk[c],
           insert' = insert \/ insert' >= Top.base
    PROVE  OwedUntouched'
<1> SUFFICES ASSUME NEW i \in Pending', NEW b \in Owed(frames'[i])
             PROVE  /\ b # insert'
                    /\ blk'[b] = Fresh(IF frames'[i].node = "for"
                                       THEN frames'[i].fn ELSE 0)
  BY DEF OwedUntouched
<1>1. i \in 1..Len(frames') /\ i \in Pending /\ i < Len(frames)
  BY DEF Pending, TypeInv, FramesOK
<1>2. /\ frames'[i].node = frames[i].node /\ frames'[i].fn = frames[i].fn
      /\ frames'[i].base = frames[i].base
  BY <1>1
<1>3. b \in Owed(frames[i])
  BY <1>2 DEF Owed
<1>4. b \in Block /\ b < Top.base /\ b # insert
  BY <1>1, <1>3, OwedRange DEF OwedUntouched
<1>5. b # insert'
  BY <1>4, TopFacts DEF Block
<1> QED
  BY <1>1, <1>2, <1>4, <1>5, OwedKept

LEMMA OwedElse ==
    ASSUME TypeInv, OwedUntouched, EndThen
    PROVE  OwedUntouched'
<1>1. /\ Top.node = "then" /\ insert' = Top.base + 1 /\ nblk' = nblk
      /\ frames' = [frames EXCEPT ![Len(frames)] = ElseFrame(@)]
  BY DEF EndThen, In
<1>2. /\ Len(frames) >= 2 /\ Len(frames') = Len(frames)
      /\ frames'[Len(frames)].node = "else"
      /\ \A i \in 1..Len(frames) : /\ i < Len(frames) =>
                                        frames'[i].node = frames[i].node
                                   /\ frames'[i].fn = frames[i].fn
                                   /\ frames'[i].base = frames[i].base
  BY <1>1, StateFacts, ElseFrames
<1>3. \A c \in Block : c \notin {insert, Top.base + 1} => blk'[c] = blk[c]
  BY EndThenBlocks
<1>4. Len(frames) \in Nat /\ Top.base \in Nat /\ Top.base + 2 \in Block
  BY <1>1, TopBlocks, SpanValues DEF TypeInv, FramesOK
<1> SUFFICES ASSUME NEW i \in Pending', NEW b \in Owed(frames'[i])
             PROVE  /\ b # insert'
                    /\ blk'[b] = Fresh(IF frames'[i].node = "for"
                                       THEN frames'[i].fn ELSE 0)
  BY DEF OwedUntouched
<1>5. CASE i < Len(frames)
  <2>1. i \in Pending /\ i \in 1..Len(frames)
    BY <1>2, <1>4, <1>5 DEF Pending
  <2>2. /\ frames'[i].node = frames[i].node /\ frames'[i].fn = frames[i].fn
        /\ frames'[i].base = frames[i].base
    BY <1>2, <1>5, <2>1
  <2>3. b \in Owed(frames[i])
    BY <2>2 DEF Owed
  <2>4. b \in Block /\ b < Top.base /\ b # insert
    BY <1>5, <2>1, <2>3, OwedRange DEF OwedUntouched
  <2>5. b # insert' /\ blk'[b] = blk[b]
    BY <1>1, <1>3, <1>4, <2>4 DEF Block
  <2> QED
    BY <2>1, <2>2, <2>5, OwedKept
<1>6. CASE i = Len(frames)
  <2>1. frames'[i].node = "else" /\ frames'[i].base = Top.base /\ b = Top.base + 2
    BY <1>2, <1>4, <1>6 DEF Owed, Top
  <2>2. b # insert' /\ b # Top.base + 1
    BY <1>1, <1>4, <2>1
  <2>3. b # insert /\ blk[b] = Fresh(0)
    BY <1>1, <2>1, TopOwed DEF Owed
  <2>4. blk'[b] = blk[b]
    BY <1>3, <1>4, <2>1, <2>2, <2>3
  <2> QED
    BY <2>1, <2>2, <2>3, <2>4
<1>7. i \in 1..Len(frames)
  BY <1>2 DEF Pending
<1> QED
  BY <1>4, <1>5, <1>6, <1>7

LEMMA OwedNext ==
    ASSUME TypeInv, OwedUntouched, [Next]_vars PROVE OwedUntouched'
<1>1. /\ FramesOK /\ nblk \in Nat /\ insert \in 0..nblk
      /\ MaxBlocks \in Nat /\ \A c \in Block : c \in Nat
  BY StateFacts DEF Block
<1>2. ASSUME NEW v \in {"null", "value"}, frames' = SetVal(frames, v),
             \A c \in Block : c <= nblk /\ c # insert => blk'[c] = blk[c],
             insert' = insert \/ insert' > nblk
      PROVE  OwedUntouched'
  <2>1. /\ Len(frames') = Len(frames)
        /\ \A i \in 1..Len(frames) : /\ frames'[i].node = frames[i].node
                                     /\ frames'[i].fn = frames[i].fn
                                     /\ frames'[i].base = frames[i].base
    <3>1. frames \in Seq(Frame) /\ Len(frames) >= 1
      BY <1>1 DEF FramesOK
    <3>2. v \in {"undef", "null", "value"}
      BY <1>2
    <3>3. /\ Len(SetVal(frames, v)) = Len(frames)
          /\ \A i \in 1..Len(frames) :
                /\ SetVal(frames, v)[i].node = frames[i].node
                /\ SetVal(frames, v)[i].fn = frames[i].fn
                /\ SetVal(frames, v)[i].base = frames[i].base
      BY <3>1, <3>2, SetValFacts
    <3> QED
      BY <1>2, <3>3
  <2> QED
    BY <1>2, <2>1, OwedSame
<1>3. ASSUME Top.node # "module", nblk' = nblk,
             NEW v \in {"null", "value"}, Pop(v),
             \A c \in Block : c < Top.base /\ c # insert => blk'[c] = blk[c],
             insert' = insert \/ insert' >= Top.base
      PROVE  OwedUntouched'
  <2>1. /\ Len(frames) >= 2 /\ Len(frames') = Len(frames) - 1
        /\ \A i \in 1..Len(frames') : /\ frames'[i].node = frames[i].node
                                      /\ frames'[i].fn = frames[i].fn
                                      /\ frames'[i].base = frames[i].base
    BY <1>1, <1>3, PopFrames
  <2> QED
    BY <1>3, <2>1, OwedPop
<1>4. ASSUME NEW node \in {"func", "then", "while", "for"}, NEW f \in 1..MaxFns,
             Push(node, f, nblk + 1),
             nblk' \in Nat, nblk' >= nblk, nblk + 1 + Span(node) <= nblk',
             \A c \in Block : c <= nblk /\ c # insert => blk'[c] = blk[c],
             insert' > nblk,
             \A b \in Owed([node |-> node, fn |-> f, base |-> nblk + 1,
                            val |-> "undef"]) :
                 b # insert' /\ blk'[b] = Fresh(IF node = "for" THEN f ELSE 0)
      PROVE  OwedUntouched'
  <2>1. /\ Len(frames') = Len(frames) + 1
        /\ frames'[Len(frames) + 1] = [node |-> node, fn |-> f,
                                       base |-> nblk + 1, val |-> "undef"]
        /\ \A i \in 1..Len(frames) : frames'[i] = frames[i]
    BY <1>1, <1>4, PushFrames
  <2> QED
    BY <1>4, <2>1, OwedPush
<1>5. ASSUME NEW emit \in BOOLEAN, NEW v \in {"null", "value"},
             SimpleStmt(emit, v)
      PROVE  OwedUntouched'
  <2>1. frames' = SetVal(frames, v) /\ insert' = insert
    BY <1>5 DEF SimpleStmt
  <2> QED
    BY <1>2, <1>5, <2>1, SimpleBlocks
<1>6. ASSUME NEW v \in {"null", "value"}, NEW err \in BOOLEAN,
             ReturnStmt(v, err)
      PROVE  OwedUntouched'
  <2>1. frames' = SetVal(frames, v) /\ insert' = insert
    BY <1>6 DEF ReturnStmt
  <2> QED
    BY <1>2, <1>6, <2>1, ReturnBlocks
<1>7. CASE UNCHANGED <<blk, insert, frames>>
  BY <1>7 DEF OwedUntouched, Pending
<1>8. CASE BeginIf
  <2>1. /\ nblk' = nblk + 3 /\ insert' = nblk + 1 /\ insert # 0
        /\ Push("then", CurrentFn, nblk + 1)
    BY <1>8 DEF BeginIf
  <2>2. CurrentFn \in 1..MaxFns /\ nblk + 1 + Span("then") <= nblk'
    BY <1>1, <2>1, InsertFacts, SpanValues
  <2>3. \A c \in Block : c <= nblk /\ c # insert => blk'[c] = blk[c]
    BY <1>1, <1>8, BeginIfBlocks
  <2>4. Owed([node |-> "then", fn |-> CurrentFn, base |-> nblk + 1,
              val |-> "undef"]) = {nblk + 2, nblk + 3}
    BY <1>1 DEF Owed
  <2>5. blk'[nblk + 2] = Fresh(0) /\ blk'[nblk + 3] = Fresh(0)
    BY <1>8, BeginIfBlocks
  <2> QED
    BY <1>1, <1>4, <2>1, <2>2, <2>3, <2>4, <2>5
<1>9. CASE AbandonIf
  <2>1. /\ Top.node # "module" /\ Pop("null") /\ UNCHANGED <<blk, nblk, insert>>
    BY <1>9 DEF AbandonIf
  <2> QED
    BY <1>3, <2>1
<1>10. CASE EndThen
  BY <1>10, OwedElse
<1>11. CASE EndElse
  <2>1. /\ Top.node = "else" /\ insert' = Top.base + 2 /\ Pop("null")
        /\ nblk' = nblk
    BY <1>11 DEF EndElse, In
  <2>2. Top.base \in Nat
    BY <2>1, TopFacts
  <2>3. \A c \in Block : c < Top.base /\ c # insert => blk'[c] = blk[c]
    BY <1>1, <1>11, <2>2, EndElseBlocks
  <2> QED
    BY <1>3, <2>1, <2>2, <2>3
<1>12. CASE WhileConditionFails
  <2>1. frames' = SetVal(frames, "null") /\ insert' = insert
    BY <1>12 DEF WhileConditionFails
  <2>2. \A c \in Block : c <= nblk /\ c # insert => blk'[c] = blk[c]
    BY <1>1, <1>12, WhileFailsBlocks
  <2> QED
    BY <1>2, <2>1, <2>2
<1>13. CASE BeginWhile
  <2>1. /\ nblk' = nblk + 2 /\ insert' = nblk + 1 /\ insert # 0
        /\ Push("while", CurrentFn, nblk + 1)
    BY <1>13 DEF BeginWhile
  <2>2. CurrentFn \in 1..MaxFns /\ nblk + 1 + Span("while") <= nblk'
    BY <1>1, <2>1, InsertFacts, SpanValues
  <2>3. \A c \in Block : c <= nblk /\ c # insert => blk'[c] = blk[c]
    BY <1>1, <1>13, BeginWhileBlocks
  <2>4. Owed([node |-> "while", fn |-> CurrentFn, base |-> nblk + 1,
              val |-> "undef"]) = {nblk + 2}
    BY <1>1 DEF Owed
  <2>5. blk'[nblk + 2] = Fresh(0)
    BY <1>13, BeginWhileBlocks
  <2> QED
    BY <1>1, <1>4, <2>1, <2>2, <2>3, <2>4, <2>5
<1>14. CASE EndWhile
  <2>1. /\ Top.node = "while" /\ insert' = Top.base + 1 /\ Pop("null")
        /\ nblk' = nblk
    BY <1>14 DEF EndWhile, In
  <2>2. Top.base \in Nat
    BY <2>1, TopFacts
  <2>3. insert # Top.base + 1
    BY <2>1, TopOwed DEF Owed
  <2>4. \A c \in Block : c < Top.base /\ c # insert => blk'[c] = blk[c]
    BY <1>1, <1>14, <2>2, <2>3, EndWhileBlocks
  <2> QED
    BY <1>3, <2>1, <2>2, <2>4
<1>15. CASE ForConditionFails
  <2>1. frames' = SetVal(frames, "null") /\ insert' = nblk + 2
    BY <1>1, <1>15 DEF ForConditionFails
  <2>2. \A c \in Block : c <= nblk /\ c # insert => blk'[c] = blk[c]
    BY <1>1, <1>15, ForFailsBlocks
  <2> QED
    BY <1>1, <1>2, <2>1, <2>2
<1>16. CASE BeginFor
  <2>1. /\ nblk' = nblk + 5 /\ insert' = nblk + 3 /\ insert # 0
        /\ Push("for", CurrentFn, nblk + 1)
    BY <1>1, <1>16 DEF BeginFor
  <2>2. CurrentFn \in 1..MaxFns /\ nblk + 1 + Span("for") <= nblk'
    BY <1>1, <2>1, InsertFacts, SpanValues
  <2>3. \A c \in Block : c <= nblk /\ c # insert => blk'[c] = blk[c]
    BY <1>1, <1>16, BeginForBlocks
  <2>4. Owed([node |-> "for", fn |-> CurrentFn, base |-> nblk + 1,
              val |-> "undef"]) = {nblk + 4, nblk + 5}
    BY <1>1 DEF Owed
  <2>5. blk'[nblk + 4] = Fresh(CurrentFn) /\ blk'[nblk + 5] = Fresh(CurrentFn)
    BY <1>16, BeginForBlocks
  <2> QED
    BY <1>1, <1>4, <2>1, <2>2, <2>3, <2>4, <2>5
<1>17. CASE EndFor
  <2>1. /\ Top.node = "for" /\ insert' = Top.base + 4 /\ Pop("null")
        /\ nblk' = nblk
    BY <1>17 DEF EndFor, In
  <2>2. Top.base \in Nat
    BY <2>1, TopFacts
  <2>3. insert \notin {Top.base + 3, Top.base + 4}
    BY <2>1, TopOwed DEF Owed
  <2>4. \A c \in Block : c < Top.base /\ c # insert => blk'[c] = blk[c]
    BY <1>1, <1>17, <2>2, <2>3, EndForBlocks
  <2> QED
    BY <1>3, <2>1, <2>2, <2>4
<1>18. CASE ExternFunction
  <2>1. frames' = SetVal(frames, "value") /\ UNCHANGED <<blk, insert>>
    BY <1>18 DEF ExternFunction
  <2> QED
    BY <1>2, <2>1
<1>19. ASSUME NEW hasArgs \in BOOLEAN, BeginFunction(hasArgs)
       PROVE  OwedUntouched'
  <2>1. /\ nblk' = nblk + 1 /\ insert' = nblk + 1 /\ Push("func", nfn + 1, nblk + 1)
    BY <1>19 DEF BeginFunction
  <2>2. nfn + 1 \in 1..MaxFns /\ nblk + 1 + Span("func") <= nblk'
    BY <1>1, <1>19, <2>1, BeginFunctionBlocks, SpanValues
  <2>3. \A c \in Block : c <= nblk /\ c # insert => blk'[c] = blk[c]
    BY <1>1, <1>19, BeginFunctionBlocks
  <2>4. Owed([node |-> "func", fn |-> nfn + 1, base |-> nblk + 1,
              val |-> "undef"]) = {}
    BY DEF Owed
  <2> QED
    BY <1>1, <1>4, <2>1, <2>2, <2>3, <2>4
<1>20. CASE EndFunction
  <2>1. /\ Top.node # "module" /\ Pop("value") /\ UNCHANGED <<blk, nblk, insert>>
    BY <1>20 DEF EndFunction, In
  <2> QED
    BY <1>3, <2>1
<1>21. CASE NullDereference \/ EndModule \/ Finished \/ UNCHANGED vars
  BY <1>7, <1>21 DEF NullDereference, EndModule, Finished, vars
<1> QED
  BY <1>5, <1>6, <1>8, <1>9, <1>10, <1>11, <1>12, <1>13, <1>14, <1>15, <1>16,
     <1>17, <1>18, <1>19, <1>20, <1>21 DEF Next, Statement, EndOfBlock

-----------------------------------------------------------------------------
(* Instructions behind a terminator.  TornOnlyAfterRet alone is not         *)
(* inductive: the builder must not be in a block closed by a branch.        *)

TornOK(r) == r.torn => r.ret
RetClosed(r) == r.last = "term" => r.ret

TornInv ==
    /\ TornOnlyAfterRet
    /\ insert # 0 => RetClosed(blk[insert])

LEMMA TornOps ==
    ASSUME NEW r \in BlockState, TornOK(r), RetClosed(r)
    PROVE  /\ TornOK(WithOp(r)) /\ RetClosed(WithOp(r))
           /\ TornOK(WithRet(r)) /\ RetClosed(WithRet(r))
<1>1. r.torn \in BOOLEAN /\ r.ret \in BOOLEAN
  BY DEF BlockState
<1> QED
  BY <1>1, OpFacts, RetFacts DEF TornOK, RetClosed

LEMMA TornBr ==
    ASSUME NEW r \in BlockState, TornOK(r), RetClosed(r),
           NEW targets \in SUBSET Block
    PROVE  TornOK(WithBr(r, targets)) /\ TornOK(BrUnlessTerminated(r, targets))
<1>1. r.torn \in BOOLEAN /\ r.ret \in BOOLEAN
  BY DEF BlockState
<1>2. TornOK(WithBr(r, targets))
  BY <1>1, BrFacts DEF TornOK, RetClosed
<1>3. TornOK(BrUnlessTerminated(r, targets))
  BY <1>1, BrUnlessFacts DEF TornOK
<1> QED
  BY <1>2, <1>3

LEMMA TornFresh ==
    ASSUME NEW f \in 0..MaxFns
    PROVE  Fresh(f) \in BlockState /\ TornOK(Fresh(f)) /\ RetClosed(Fresh(f))
  BY FreshFacts DEF TornOK, RetClosed

LEMMA TornInFn ==
    ASSUME NEW r \in BlockState, TornOK(r), RetClosed(r), NEW f \in 0..MaxFns
    PROVE  InFn(r, f) \in BlockState /\ TornOK(InFn(r, f)) /\ RetClosed(InFn(r, f))
  BY InFnFacts DEF TornOK, RetClosed

LEMMA TornNext ==
    ASSUME TypeInv, OwedUntouched, TornInv, [Next]_vars PROVE TornInv'
<1>1. \A c \in Block : TornOK(blk[c]) /\ blk[c] \in BlockState
  BY StateFacts DEF TornInv, TornOnlyAfterRet, TornOK, Blocks
<1>2. insert # 0 =>
        /\ insert \in Block /\ blk[insert] \in BlockState
        /\ TornOK(blk[insert]) /\ RetClosed(blk[insert])
        /\ CurrentFn \in 0..MaxFns
  BY <1>1, InsertFacts DEF TornInv
<1>3. /\ nblk \in Nat /\ 0 \in 0..MaxFns
      /\ \A k \in 1..nblk : k \in Block
  BY StateFacts
<1>4. ASSUME \A c \in Block : TornOK(blk'[c]),
             insert' # 0 => RetClosed(blk'[insert'])
      PROVE  TornInv'
  BY <1>4 DEF TornInv, TornOnlyAfterRet, TornOK
<1>5. ASSUME NEW emit \in BOOLEAN, NEW v \in {"null", "value"},
             SimpleStmt(emit, v)
      PROVE  TornInv'
  <2>1. insert' = insert
    BY <1>5 DEF SimpleStmt
  <2>2. insert # 0 => TornOK(blk'[insert]) /\ RetClosed(blk'[insert])
    BY <1>2, <1>5, SimpleBlocks, TornOps
  <2>3. \A c \in Block : c # insert => blk'[c] = blk[c]
    BY <1>5, SimpleBlocks
  <2>4. \A c \in Block : TornOK(blk'[c])
    BY <1>1, <2>2, <2>3 DEF Block
  <2> QED
    BY <1>4, <2>1, <2>2, <2>4
<1>6. ASSUME NEW v \in {"null", "value"}, NEW err \in BOOLEAN,
             ReturnStmt(v, err)
      PROVE  TornInv'
  <2>1. insert' = insert
    BY <1>6 DEF ReturnStmt
  <2>2. insert # 0 => TornOK(blk'[insert]) /\ RetClosed(blk'[insert])
    BY <1>2, <1>6, ReturnBlocks, TornOps
  <2>3. \A c \in Block : c # insert => blk'[c] = blk[c]
    BY <1>6, ReturnBlocks
  <2>4. \A c \in Block : TornOK(blk'[c])
    BY <1>1, <2>2, <2>3 DEF Block
  <2> QED
    BY <1>4, <2>1, <2>2, <2>4
<1>7. CASE UNCHANGED <<blk, insert>>
  BY <1>7 DEF TornInv, TornOnlyAfterRet, RetClosed
<1>8. CASE BeginIf
  <2>1. insert # 0 /\ insert' = nblk + 1 /\ Room(3)
    BY <1>8 DEF BeginIf
  <2>2. TornOK(WithBr(blk[insert], {nblk + 1, nblk + 2}))
    <3>1. {nblk + 1, nblk + 2} \in SUBSET Block
      BY <2>1, NewBlocks, 1 \in 1..3, 2 \in 1..3
    <3> QED
      BY <1>2, <2>1, <3>1, TornBr
  <2>3. /\ TornOK(Fresh(CurrentFn)) /\ TornOK(Fresh(0))
        /\ RetClosed(Fresh(CurrentFn))
    BY <1>2, <1>3, <2>1, TornFresh
  <2>4. \A c \in Block : TornOK(blk'[c])
    BY <1>1, <1>8, <2>2, <2>3, BeginIfBlocks
  <2>5. RetClosed(blk'[insert'])
    BY <1>8, <2>1, <2>3, BeginIfBlocks
  <2> QED
    BY <1>4, <2>4, <2>5
<1>9. CASE EndThen
  <2>1. /\ Top.node = "then" /\ insert' = Top.base + 1
        /\ Top.fn \in 0..MaxFns /\ Top.base + 1 \in Block /\ Top.base + 2 \in Block
    <3>1. Top.node = "then" /\ insert' = Top.base + 1
      BY <1>9 DEF EndThen, In
    <3> QED
      BY <3>1, TopBlocks, SpanValues
  <2>2. insert # Top.base + 1 /\ blk[Top.base + 1] = Fresh(0)
    BY <2>1, TopOwed DEF Owed
  <2>3. /\ TornOK(InFn(blk[Top.base + 1], Top.fn))
        /\ RetClosed(InFn(blk[Top.base + 1], Top.fn))
    BY <1>3, <2>1, <2>2, TornFresh, TornInFn
  <2>4. insert # 0 =>
          TornOK(BrUnlessTerminated(blk[insert], {Top.base + 2}))
    BY <1>2, <2>1, TornBr, {Top.base + 2} \in SUBSET Block
  <2>5. \A c \in Block : TornOK(blk'[c])
    <3>1. \A c \in Block : c # 0
      BY DEF Block
    <3> QED
      BY <1>1, <1>9, <2>2, <2>3, <2>4, <3>1, EndThenBlocks
  <2>6. RetClosed(blk'[insert'])
    BY <1>9, <2>1, <2>2, <2>3, EndThenBlocks
  <2> QED
    BY <1>4, <2>5, <2>6
<1>10. CASE EndElse
  <2>1. /\ Top.node = "else" /\ insert' = Top.base + 2
        /\ Top.fn \in 0..MaxFns /\ Top.base + 2 \in Block
    <3>1. Top.node = "else" /\ insert' = Top.base + 2
      BY <1>10 DEF EndElse, In
    <3> QED
      BY <3>1, TopBlocks, SpanValues
  <2>2. insert # Top.base + 2 /\ blk[Top.base + 2] = Fresh(0)
    BY <2>1, TopOwed DEF Owed
  <2>3. /\ TornOK(InFn(blk[Top.base + 2], Top.fn))
        /\ RetClosed(InFn(blk[Top.base + 2], Top.fn))
    BY <1>3, <2>1, <2>2, TornFresh, TornInFn
  <2>4. insert # 0 =>
          TornOK(BrUnlessTerminated(blk[insert], {Top.base + 2}))
    BY <1>2, <2>1, TornBr, {Top.base + 2} \in SUBSET Block
  <2>5. \A c \in Block : TornOK(blk'[c])
    <3>1. \A c \in Block : c # 0
      BY DEF Block
    <3> QED
      BY <1>1, <1>10, <2>2, <2>3, <2>4, <3>1, EndElseBlocks
  <2>6. RetClosed(blk'[insert'])
    BY <1>10, <2>1, <2>2, <2>3, EndElseBlocks
  <2> QED
    BY <1>4, <2>5, <2>6
<1>11. CASE WhileConditionFails
  <2>1. insert # 0 /\ insert' = insert /\ insert \in Block
        /\ insert \notin {nblk + 1, nblk + 2}
    BY <1>2, <1>11, StateFacts DEF WhileConditionFails
  <2>2. TornOK(Fresh(CurrentFn)) /\ TornOK(Fresh(0))
    BY <1>2, <1>3, <2>1, TornFresh
  <2>3. \A c \in Block : TornOK(blk'[c])
    BY <1>1, <1>11, <2>2, WhileFailsBlocks
  <2>4. blk'[insert'] = blk[insert]
    BY <1>11, <2>1, WhileFailsBlocks
  <2> QED
    BY <1>2, <1>4, <2>1, <2>3, <2>4
<1>12. CASE BeginWhile
  <2>1. insert # 0 /\ insert' = nblk + 1 /\ Room(2)
    BY <1>12 DEF BeginWhile
  <2>2. TornOK(WithBr(blk[insert], {nblk + 1, nblk + 2}))
    <3>1. {nblk + 1, nblk + 2} \in SUBSET Block
      BY <2>1, NewBlocks, 1 \in 1..2, 2 \in 1..2
    <3> QED
      BY <1>2, <2>1, <3>1, TornBr
  <2>3. /\ TornOK(Fresh(CurrentFn)) /\ TornOK(Fresh(0))
        /\ RetClosed(Fresh(CurrentFn))
    BY <1>2, <1>3, <2>1, TornFresh
  <2>4. \A c \in Block : TornOK(blk'[c])
    BY <1>1, <1>12, <2>2, <2>3, BeginWhileBlocks
  <2>5. RetClosed(blk'[insert'])
    BY <1>12, <2>1, <2>3, BeginWhileBlocks
  <2> QED
    BY <1>4, <2>4, <2>5
<1>13. CASE EndWhile
  <2>1. /\ Top.node = "while" /\ insert' = Top.base + 1
        /\ Top.fn \in 0..MaxFns /\ Top.base + 1 \in Block /\ Top.base \in Block
    <3>1. Top.node = "while" /\ insert' = Top.base + 1
      BY <1>13 DEF EndWhile, In
    <3>2. Top.base + 0 \in Block /\ Top.base \in Nat
      BY <3>1, TopBlocks, SpanValues
    <3> QED
      BY <3>1, <3>2, TopBlocks, SpanValues
  <2>2. insert # Top.base + 1 /\ blk[Top.base + 1] = Fresh(0)
    BY <2>1, TopOwed DEF Owed
  <2>3. /\ TornOK(WithRet(InFn(blk[Top.base + 1], Top.fn)))
        /\ RetClosed(WithRet(InFn(blk[Top.base + 1], Top.fn)))
    <3>1. /\ InFn(blk[Top.base + 1], Top.fn) \in BlockState
          /\ TornOK(InFn(blk[Top.base + 1], Top.fn))
          /\ RetClosed(InFn(blk[Top.base + 1], Top.fn))
      BY <1>3, <2>1, <2>2, TornFresh, TornInFn
    <3> QED
      BY <3>1, TornOps
  <2>4. insert # 0 => TornOK(WithBr(blk[insert], {Top.base, Top.base + 1}))
    BY <1>2, <2>1, TornBr, {Top.base, Top.base + 1} \in SUBSET Block
  <2>5. \A c \in Block : TornOK(blk'[c])
    <3>1. \A c \in Block : c # 0
      BY DEF Block
    <3> QED
      BY <1>1, <1>13, <2>2, <2>3, <2>4, <3>1, EndWhileBlocks
  <2>6. RetClosed(blk'[insert'])
    BY <1>13, <2>1, <2>2, <2>3, EndWhileBlocks
  <2> QED
    BY <1>4, <2>5, <2>6
<1>14. ASSUME insert # 0, Room(5)
       PROVE  /\ TornOK(WithBr(blk[insert], {nblk + 1}))
              /\ TornOK(WithBr(Fresh(CurrentFn), {nblk + 2}))
              /\ TornOK(WithBr(Fresh(CurrentFn), {nblk + 3, nblk + 5}))
              /\ TornOK(Fresh(CurrentFn)) /\ RetClosed(Fresh(CurrentFn))
  <2>1. /\ {nblk + 1} \in SUBSET Block /\ {nblk + 2} \in SUBSET Block
        /\ {nblk + 3, nblk + 5} \in SUBSET Block
    BY <1>14, NewBlocks, 1 \in 1..5, 2 \in 1..5, 3 \in 1..5, 5 \in 1..5
  <2>2. /\ Fresh(CurrentFn) \in BlockState
        /\ TornOK(Fresh(CurrentFn)) /\ RetClosed(Fresh(CurrentFn))
    BY <1>2, <1>14, TornFresh
  <2> QED
    BY <1>2, <1>14, <2>1, <2>2, TornBr
<1>15. CASE ForConditionFails
  <2>1. insert # 0 /\ insert' = nblk + 2 /\ Room(5)
    BY <1>3, <1>15 DEF ForConditionFails
  <2>2. \A c \in Block : TornOK(blk'[c])
    BY <1>1, <1>14, <1>15, <2>1, ForFailsBlocks
  <2>3. RetClosed(blk'[insert'])
    BY <1>14, <1>15, <2>1, ForFailsBlocks
  <2> QED
    BY <1>4, <2>2, <2>3
<1>16. CASE BeginFor
  <2>1. insert # 0 /\ insert' = nblk + 3 /\ Room(5)
    BY <1>3, <1>16 DEF BeginFor
  <2>2. \A c \in Block : TornOK(blk'[c])
    BY <1>1, <1>14, <1>16, <2>1, BeginForBlocks
  <2>3. RetClosed(blk'[insert'])
    BY <1>14, <1>16, <2>1, BeginForBlocks
  <2> QED
    BY <1>4, <2>2, <2>3
<1>17. CASE EndFor
  <2>1. /\ Top.node = "for" /\ insert' = Top.base + 4 /\ Top.fn \in 0..MaxFns
        /\ Top.base + 1 \in Block /\ Top.base + 3 \in Block
        /\ Top.base + 4 \in Block
    <3>1. Top.node = "for" /\ insert' = Top.base + 4
      BY <1>17 DEF EndFor, In
    <3> QED
      BY <3>1, TopBlocks, SpanValues
  <2>2. /\ insert \notin {Top.base + 3, Top.base + 4}
        /\ blk[Top.base + 3] = Fresh(Top.fn) /\ blk[Top.base + 4] = Fresh(Top.fn)
    <3>1. Top.base + 3 \in Owed(Top) /\ Top.base + 4 \in Owed(Top)
      BY <2>1 DEF Owed
    <3> QED
      BY <2>1, <3>1, TopOwed
  <2>3. /\ Fresh(Top.fn) \in BlockState /\ TornOK(Fresh(Top.fn))
        /\ RetClosed(Fresh(Top.fn))
    BY <2>1, TornFresh
  <2>4. /\ TornOK(WithBr(blk[Top.base + 3], {Top.base + 1}))
        /\ TornOK(WithRet(blk[Top.base + 4]))
        /\ RetClosed(WithRet(blk[Top.base + 4]))
    BY <2>1, <2>2, <2>3, TornBr, TornOps, {Top.base + 1} \in SUBSET Block
  <2>5. insert # 0 => TornOK(WithBr(blk[insert], {Top.base + 3}))
    BY <1>2, <2>1, TornBr, {Top.base + 3} \in SUBSET Block
  <2>6. \A c \in Block : TornOK(blk'[c])
    <3>1. \A c \in Block : c # 0
      BY DEF Block
    <3> QED
      BY <1>1, <1>17, <2>2, <2>4, <2>5, <3>1, EndForBlocks
  <2>7. RetClosed(blk'[insert'])
    BY <1>17, <2>1, <2>2, <2>4, EndForBlocks
  <2> QED
    BY <1>4, <2>6, <2>7
<1>18. ASSUME NEW hasArgs \in BOOLEAN, BeginFunction(hasArgs)
       PROVE  TornInv'
  <2>1. insert' = nblk + 1 /\ nfn + 1 \in 0..MaxFns
    <3>1. insert' = nblk + 1
      BY <1>18 DEF BeginFunction
    <3>2. nfn \in 0..MaxFns /\ nfn < MaxFns /\ MaxFns \in Nat
      BY <1>18, ConstantsAssumption DEF BeginFunction, TypeInv, TypeOK
    <3> QED
      BY <3>1, <3>2
  <2>2. /\ TornOK(Fresh(nfn + 1)) /\ RetClosed(Fresh(nfn + 1))
        /\ TornOK(WithOp(Fresh(nfn + 1))) /\ RetClosed(WithOp(Fresh(nfn + 1)))
    BY <2>1, TornFresh, TornOps
  <2>3. \A c \in Block : TornOK(blk'[c])
    BY <1>1, <1>18, <2>2, BeginFunctionBlocks
  <2>4. RetClosed(blk'[insert'])
    BY <1>18, <2>1, <2>2, BeginFunctionBlocks
  <2> QED
    BY <1>4, <2>3, <2>4
<1>19. CASE \/ NullDereference \/ AbandonIf \/ ExternFunction \/ EndFunction
            \/ EndModule \/ Finished \/ UNCHANGED vars
  BY <1>7, <1>19 DEF NullDereference, AbandonIf, ExternFunction, EndFunction,
                     EndModule, Finished, vars
<1> QED
  BY <1>5, <1>6, <1>8, <1>9, <1>10, <1>11, <1>12, <1>13, <1>15, <1>16, <1>17,
     <1>18, <1>19 DEF Next, Statement, EndOfBlock

-----------------------------------------------------------------------------
(* The theorems.                                                           *)

SafeInv == TypeInv /\ OwedUntouched /\ TornInv

LEMMA SafeInvInit == Init => SafeInv
<1> SUFFICES ASSUME Init PROVE SafeInv
  OBVIOUS
<1>1. TypeInv
  BY TypeInvInit
<1>2. OwedUntouched
  <2>1. Pending = {}
    BY DEF Init, Pending
  <2> QED
    BY <2>1 DEF OwedUntouched
<1>3. TornInv
  BY DEF Init, TornInv, TornOnlyAfterRet, Fresh
<1> QED
  BY <1>1, <1>2, <1>3 DEF SafeInv

\* The inductive invariant holds throughout: types and call stack, the owed
\* blocks, and the state of the builder's block.
THEOREM SafeInvHolds == Spec => []SafeInv
<1>1. Init => SafeInv
  BY SafeInvInit
<1>2. SafeInv /\ [Next]_vars => SafeInv'
  BY TypeInvNext, OwedNext, TornNext DEF SafeInv
<1> QED
  BY <1>1, <1>2, PTL DEF Spec

\* Every state of the generator is well typed; among other things popBlock
\* never meets an empty scope stack and SetInsertPoint always gets a block
\* that exists (codegen.cpp:299-533, codegen.h:91-100).
THEOREM TypeCorrect == Spec => []TypeOK
<1>1. SafeInv => TypeOK
  BY DEF SafeInv, TypeInv
<1> QED
  BY <1>1, SafeInvHolds, PTL

\* The builder's block always belongs to a function (codegen.cpp:339, :352 and
\* :462 insert a block before the builder is moved to it).
THEOREM InsertPointSafe == Spec => []InsertPointPlaced
<1>1. SafeInv => InsertPointPlaced
  BY DEF SafeInv, TypeInv
<1> QED
  BY <1>1, SafeInvHolds, PTL

\* Nothing a nested statement generates touches the blocks an enclosing if or
\* loop still has to fill (codegen.cpp:317-353, 361-419, 427-466).
THEOREM OwedSafe == Spec => []OwedUntouched
<1>1. SafeInv => OwedUntouched
  BY DEF SafeInv
<1> QED
  BY <1>1, SafeInvHolds, PTL

\* Code lands behind a terminator only where a ret closed the block: no branch
\* of an if or a loop is ever written past.
THEOREM TornSafe == Spec => []TornOnlyAfterRet
<1>1. SafeInv => TornOnlyAfterRet
  BY DEF SafeInv, TornInv
<1> QED
  BY <1>1, SafeInvHolds, PTL
=============================================================================
