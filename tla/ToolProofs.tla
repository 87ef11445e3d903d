------------------------------ MODULE ToolProofs ------------------------------
(***************************************************************************)
(* Theorems about the package tool.  For a project file of any length and any *)
(* nesting the stack of values the document keeps and the calls of            *)
(* ParseObject and ParseArray under way belong together; and whatever init is *)
(* told, with any characters in it, info shows it again: the reader stays in  *)
(* step with what the writer wrote.                                           *)
(***************************************************************************)
EXTENDS Tool, FiniteSetTheorems, SequenceTheorems, WellFoundedInduction, TLAPS

Frame == {"object", "array"} \X Nat

\* What is read next goes with where it is read.
Expecting ==
    /\ expect \in {"first", "name", "key", "colon", "separator"} => frames # <<>>
    /\ expect \in {"name", "key", "colon"} => Container = "object"
    /\ expect = "first" => Seen = 0
    /\ expect \in {"root", "end"} => frames = <<>>

JsonInv ==
    /\ frames \in Seq(Frame) /\ stack \in Seq(Range(stack))
    /\ Expecting
    /\ StackAccounts

-----------------------------------------------------------------------------
LEMMA TopFrame ==
    ASSUME JsonInv, frames # <<>>
    PROVE  /\ Len(frames) \in Nat /\ Len(frames) >= 1 /\ DOMAIN frames = 1..Len(frames)
           /\ \A i \in 1..Len(frames) :
                 /\ frames[i] \in Frame
                 /\ frames[i][1] \in {"object", "array"} /\ frames[i][2] \in Nat
           /\ Container = frames[Len(frames)][1] /\ Seen = frames[Len(frames)][2]
BY DEF JsonInv, Frame, Container, Seen

LEMMA StackFacts ==
    ASSUME JsonInv
    PROVE  /\ Len(stack) \in Nat /\ DOMAIN stack = 1..Len(stack)
           /\ \A k \in 1..Len(stack) : Paired(stack[k])
BY DEF JsonInv, StackAccounts

\* The counts of a frame, whatever is under way in it.
LEMMA Counts ==
    ASSUME JsonInv, NEW i \in 1..Len(frames), frames # <<>>
    PROVE  /\ InFull(i) \in Nat /\ InPart(i) \in 0..2 /\ NamesIn(i) \in Nat
           /\ frames[i][1] = "object" => InFull(i) = 2 * frames[i][2]
           /\ i < Len(frames) => InPart(i) = IF frames[i][1] = "object" THEN 1 ELSE 0
<1>1. frames[i][1] \in {"object", "array"} /\ frames[i][2] \in Nat
  BY TopFrame
<1>2. InFull(i) \in Nat
  BY <1>1 DEF InFull
<1>3. InPart(i) \in 0..2
  BY <1>1 DEF InPart
<1>4. NamesIn(i) \in Nat
  BY <1>1 DEF NamesIn
<1> QED
  BY <1>1, <1>2, <1>3, <1>4 DEF InFull, InPart

\* A sequence with one element more is a sequence.
LEMMA Appended ==
    ASSUME NEW s, s \in Seq(Range(s)), NEW x
    PROVE  /\ Append(s, x) \in Seq(Range(Append(s, x)))
           /\ Len(Append(s, x)) = Len(s) + 1 /\ Len(s) \in Nat
           /\ Append(s, x)[Len(s) + 1] = x
           /\ \A k \in 1..Len(s) : Append(s, x)[k] = s[k]
<1> DEFINE S == Range(s) \cup {x}
           t == Append(s, x)
<1>1. s \in Seq(S)
  BY SeqMonotonic, Range(s) \subseteq S
<1>2. /\ t \in Seq(S) /\ Len(t) = Len(s) + 1 /\ Len(s) \in Nat
      /\ t[Len(s) + 1] = x /\ \A k \in 1..Len(s) : t[k] = s[k]
  BY <1>1
<1>3. DOMAIN t = 1..Len(t) /\ \A i \in 1..Len(t) : t[i] \in Range(t)
  BY <1>2 DEF Range
<1>4. t \in Seq(Range(t))
  <2> HIDE DEF t
  <2>1. t = [i \in 1..Len(t) |-> t[i]] /\ Len(t) \in Nat
    BY <1>2
  <2> QED
    BY <1>3, <2>1
<1> QED
  BY <1>2, <1>4

\* A part of a sequence.
LEMMA Part ==
    ASSUME NEW s, s \in Seq(Range(s)), NEW a \in 1..(Len(s) + 1), NEW b \in (a - 1)..Len(s)
    PROVE  /\ SubSeq(s, a, b) \in Seq(Range(s))
           /\ Len(SubSeq(s, a, b)) = b - a + 1
           /\ \A k \in 1..(b - a + 1) : SubSeq(s, a, b)[k] = s[a + k - 1]
<1>1. Len(s) \in Nat /\ DOMAIN s = 1..Len(s) /\ \A k \in 1..Len(s) : s[k] \in Range(s)
  BY DEF Range
<1>2. a \in Int /\ b \in Int /\ a <= b + 1 /\ a..b \subseteq 1..Len(s)
  BY <1>1
<1>3. \A k \in a..b : s[k] \in Range(s)
  BY <1>1, <1>2
<1>4. /\ SubSeq(s, a, b) \in Seq(Range(s))
      /\ Len(SubSeq(s, a, b)) = IF a <= b THEN b - a + 1 ELSE 0
      /\ \A k \in 1..(b - a + 1) : SubSeq(s, a, b)[k] = s[a + k - 1]
  BY <1>2, <1>3, SubSeqProperties
<1>5. (IF a <= b THEN b - a + 1 ELSE 0) = b - a + 1
  BY <1>2
<1> QED
  BY <1>4, <1>5

-----------------------------------------------------------------------------
(* How the places carry over to the next state. *)

\* A frame below the highest one keeps what it owns, when the stack stays as it
\* is up to the place of the frame above.
LEMMA LowerOwns ==
    ASSUME JsonInv, NEW places \in [DOMAIN frames -> DOMAIN stack], Laid(places),
           NEW next, NEW i \in 1..(Len(frames) - 1), frames # <<>>,
           i < Len(frames'), frames'[i] = frames[i],
           \A j \in 1..(i + 1) : next[j] = places[j],
           \A k \in 1..(places[i + 1] - 1) : stack'[k] = stack[k]
    PROVE  Owns(next, i)'
<1>1. /\ Len(frames) \in Nat /\ DOMAIN frames = 1..Len(frames) /\ i \in 1..Len(frames)
      /\ i + 1 \in 1..Len(frames) /\ i < Len(frames) /\ i \in Nat
  BY TopFrame
<1>2. /\ frames[i][1] \in {"object", "array"} /\ frames[i][2] \in Nat
  BY <1>1, TopFrame
<1>3. Len(stack) \in Nat /\ DOMAIN stack = 1..Len(stack)
  BY StackFacts
<1>4. places[i] \in 1..Len(stack) /\ places[i + 1] \in 1..Len(stack)
  BY <1>1, <1>3
<1>5. Owns(places, i)
  BY <1>1 DEF Laid
<1>6. /\ InFull(i) \in Nat /\ InPart(i) = IF frames[i][1] = "object" THEN 1 ELSE 0
      /\ frames[i][1] = "object" => InFull(i) = 2 * frames[i][2]
  BY <1>1, Counts
<1>7. InFull(i)' = InFull(i) /\ InPart(i)' = InPart(i) /\ NamesIn(i)' = NamesIn(i)
  BY <1>6 DEF InFull, InPart, NamesIn
<1>8. places[i] + 1 + InFull(i) + InPart(i) = places[i + 1]
  BY <1>1, <1>5 DEF Owns
<1>9. places[i] < places[i + 1]
  BY <1>4, <1>6, <1>8
<1>10. stack'[places[i]] = stack[places[i]]
  <2>1. \A n \in Nat : \A a, b \in 1..n : a < b => a \in 1..(b - 1)
    OBVIOUS
  <2>2. places[i] \in 1..(places[i + 1] - 1)
    BY <1>3, <1>4, <1>9, <2>1
  <2> QED
    BY <2>2
<1>11. ASSUME frames[i][1] = "object", NEW n \in 1..NamesIn(i)
       PROVE  stack'[places[i] + 2 * n - 1].kind = "string"
  <2>1. NamesIn(i) = frames[i][2] + 1 /\ InPart(i) = 1 /\ InFull(i) = 2 * frames[i][2]
    BY <1>6, <1>11 DEF NamesIn
  <2>2. places[i] + 2 * n - 1 \in 1..(places[i + 1] - 1)
    <3> DEFINE p == places[i]
               q == places[i + 1]
               v == frames[i][2]
    <3>1. n \in 1..(v + 1) /\ v \in Nat /\ p \in Nat /\ p >= 1 /\ q \in Nat
      BY <1>2, <1>3, <1>4, <2>1
    <3>2. p + 1 + 2 * v + 1 = q
      BY <1>8, <2>1
    <3> HIDE DEF p, q, v
    <3>3. p + 2 * n - 1 \in 1..(q - 1)
      BY <3>1, <3>2
    <3> QED
      BY <3>3 DEF p, q
  <2>3. stack[places[i] + 2 * n - 1].kind = "string"
    BY <1>5, <1>11 DEF Owns
  <2> QED
    BY <2>2, <2>3
<1>12. /\ next[i] = places[i] /\ next[i + 1] = places[i + 1]
       /\ \A j \in 1..(i - 1) : next[j] = places[j]
  BY <1>1
<1>13. \A j \in 1..(i - 1) : next[j] < next[i]
  BY <1>5, <1>12 DEF Owns
<1>14. stack'[next[i]] = Scalar(frames'[i][1])
  BY <1>5, <1>10, <1>12 DEF Owns
<1>15. next[i] + 1 + InFull(i)' + InPart(i)' = next[i + 1]
  BY <1>7, <1>8, <1>12
<1>16. frames'[i][1] = "object" =>
          \A n \in 1..NamesIn(i)' : stack'[next[i] + 2 * n - 1].kind = "string"
  BY <1>7, <1>11, <1>12
<1> QED
  BY <1>13, <1>14, <1>15, <1>16 DEF Owns

\* The names the highest frame has read are on the stack.
LEMMA Holds ==
    ASSUME JsonInv, frames # <<>>, NEW places \in [DOMAIN frames -> DOMAIN stack], Laid(places),
           frames[Len(frames)][1] = "object", NEW n \in 1..NamesIn(Len(frames))
    PROVE  /\ places[Len(frames)] + 2 * n - 1 \in 1..Len(stack)
           /\ stack[places[Len(frames)] + 2 * n - 1].kind = "string"
<1> DEFINE m == Len(frames)
<1>1. /\ m \in Nat /\ m \in 1..m /\ DOMAIN frames = 1..m /\ ~ (m < m)
      /\ Len(stack) \in Nat /\ DOMAIN stack = 1..Len(stack)
  BY TopFrame, StackFacts
<1>2. Owns(places, m)
  BY <1>1 DEF Laid
<1>3. /\ frames[m][2] \in Nat
      /\ InFull(m) = 2 * frames[m][2] /\ InPart(m) \in 0..2 /\ NamesIn(m) \in Nat
  BY <1>1, TopFrame, Counts
<1>4. places[m] + 1 + InFull(m) + InPart(m) = Len(stack) + 1
  BY <1>1, <1>2 DEF Owns
<1>5. places[m] \in 1..Len(stack)
  BY <1>1
<1>6. stack[places[m] + 2 * n - 1].kind = "string"
  BY <1>2 DEF Owns
<1> DEFINE p == places[m]
           l == Len(stack)
           b == InPart(m)
           k == NamesIn(m)
           v == frames[m][2]
<1>7. p \in Nat /\ p >= 1 /\ l \in Nat /\ b \in Nat /\ k \in Nat /\ v \in Nat /\ n \in 1..k
  <2>1. \A i \in Nat : \A j \in 1..i : j \in Nat /\ j >= 1
    OBVIOUS
  <2>2. \A x \in 0..2 : x \in Nat
    OBVIOUS
  <2> QED
    BY <1>1, <1>3, <1>5, <2>1, <2>2
<1>8. p + 1 + 2 * v + b = l + 1
  BY <1>3, <1>4
<1>9. (b = 0 /\ k = v) \/ (b # 0 /\ k = v + 1)
  BY <1>3 DEF NamesIn
<1> HIDE DEF p, l, b, k, v
<1>10. p + 2 * n - 1 \in 1..l
  BY <1>7, <1>8, <1>9
<1> QED
  BY <1>6, <1>10 DEF p, l

\* A step that reads on in the highest frame, with at most one value more.
LEMMA ReadsOn ==
    ASSUME JsonInv, frames # <<>>, NEW d \in {0, 1},
           frames' \in Seq(Frame), Len(frames') = Len(frames),
           \A i \in 1..(Len(frames) - 1) : frames'[i] = frames[i],
           frames'[Len(frames)][1] = frames[Len(frames)][1],
           stack' \in Seq(Range(stack')), Len(stack') = Len(stack) + d,
           \A k \in 1..Len(stack) : stack'[k] = stack[k],
           InFull(Len(frames))' + InPart(Len(frames))'
              = InFull(Len(frames)) + InPart(Len(frames)) + d,
           InFull(Len(frames))' \in Nat, InPart(Len(frames))' \in Nat,
           frames[Len(frames)][1] = "object" =>
              \/ NamesIn(Len(frames))' = NamesIn(Len(frames))
              \/ /\ d = 1 /\ InPart(Len(frames)) = 0
                 /\ NamesIn(Len(frames))' = NamesIn(Len(frames)) + 1
                 /\ stack'[Len(stack) + 1].kind = "string"
    PROVE  frames' # <<>> /\ \E places \in [DOMAIN frames' -> DOMAIN stack'] : Laid(places)'
<1> DEFINE m == Len(frames)
<1>1. m \in Nat /\ m >= 1 /\ DOMAIN frames = 1..m /\ DOMAIN frames' = 1..m /\ m \in 1..m
  BY TopFrame
<1>2. /\ Len(stack) \in Nat /\ DOMAIN stack = 1..Len(stack)
      /\ DOMAIN stack' = 1..(Len(stack) + d)
  BY StackFacts
<1>3. PICK places \in [DOMAIN frames -> DOMAIN stack] : Laid(places)
  BY DEF JsonInv, StackAccounts
<1>4. places \in [DOMAIN frames' -> DOMAIN stack']
  <2>1. DOMAIN stack \subseteq DOMAIN stack'
    BY <1>2
  <2> QED
    BY <1>1, <2>1
<1>5. \A i \in 1..m : places[i] \in 1..Len(stack)
  BY <1>1, <1>2
<1>6. ASSUME NEW i \in 1..(m - 1)
      PROVE  Owns(places, i)'
  <2>1. i + 1 \in 1..m
    BY <1>1
  <2>2. \A k \in 1..(places[i + 1] - 1) : stack'[k] = stack[k]
    BY <1>2, <1>5, <2>1
  <2>3. i < Len(frames')
    <3>1. \A n \in Nat : \A k \in 1..(n - 1) : k < n
      OBVIOUS
    <3>2. m \in Nat /\ m = Len(frames')
      BY <1>1
    <3> QED
      BY <3>1, <3>2
  <2>4. frames'[i] = frames[i]
    OBVIOUS
  <2> QED
    BY <1>3, <2>2, <2>3, <2>4, LowerOwns
<1>7. Owns(places, m)'
  <2>1. Owns(places, m)
    BY <1>1, <1>3 DEF Laid
  <2>2. /\ frames[m][1] \in {"object", "array"} /\ frames[m][2] \in Nat
        /\ InFull(m) \in Nat /\ InPart(m) \in 0..2 /\ NamesIn(m) \in Nat
        /\ frames[m][1] = "object" => InFull(m) = 2 * frames[m][2]
    BY <1>1, TopFrame, Counts
  <2>3. places[m] + 1 + InFull(m) + InPart(m) = Len(stack) + 1
    BY <1>1, <2>1 DEF Owns
  <2>4. places[m] \in 1..Len(stack) /\ places[m] \in Nat /\ places[m] >= 1
    <3>1. places[m] \in 1..Len(stack)
      BY <1>1, <1>5
    <3>2. \A n \in Nat : \A k \in 1..n : k \in Nat /\ k >= 1
      OBVIOUS
    <3> QED
      BY <1>2, <3>1, <3>2
  <2>4a. InFull(m) \in Nat /\ InPart(m) \in Nat /\ d \in Nat
    <3>1. \A x \in 0..2 : x \in Nat
      OBVIOUS
    <3>2. InFull(m) \in Nat /\ InPart(m) \in Nat
      BY <2>2, <3>1
    <3>3. d \in Nat
      OBVIOUS
    <3> QED
      BY <3>2, <3>3
  <2>5. stack'[places[m]] = Scalar(frames'[m][1])
    BY <2>1, <2>4 DEF Owns
  <2> DEFINE full == InFull(m)'
             part == InPart(m)'
  <2>6. full \in Nat /\ part \in Nat /\ full + part = InFull(m) + InPart(m) + d
    OBVIOUS
  <2>7. places[m] + 1 + full + part = Len(stack') + 1
    <3> DEFINE p == places[m]
               l == Len(stack)
               k == Len(stack')
               a == InFull(m)
               b == InPart(m)
    <3>1. /\ p \in Nat /\ l \in Nat /\ a \in Nat /\ b \in Nat /\ d \in Nat
          /\ k = l + d /\ full \in Nat /\ part \in Nat
      BY <1>2, <2>4, <2>4a, <2>6
    <3>2. p + 1 + a + b = l + 1 /\ full + part = a + b + d
      BY <2>3, <2>6
    <3> HIDE DEF full, part, p, l, k, a, b
    <3>3. p + 1 + full + part = k + 1
      BY <3>1, <3>2
    <3> QED
      BY <3>3 DEF p, k
  <2>8. ASSUME frames[m][1] = "object", NEW n \in 1..NamesIn(m)'
        PROVE  stack'[places[m] + 2 * n - 1].kind = "string"
    <3>1. CASE n \in 1..NamesIn(m)
      <4>1. /\ places[m] + 2 * n - 1 \in 1..Len(stack)
            /\ stack[places[m] + 2 * n - 1].kind = "string"
        BY <1>3, <2>8, <3>1, Holds
      <4> QED
        BY <4>1
    <3>2. CASE n \notin 1..NamesIn(m)
      <4>1. /\ d = 1 /\ InPart(m) = 0 /\ NamesIn(m)' = NamesIn(m) + 1
            /\ stack'[Len(stack) + 1].kind = "string"
        BY <2>8, <3>2
      <4>2. NamesIn(m) = frames[m][2]
        BY <2>2, <4>1 DEF NamesIn
      <4>3. n = frames[m][2] + 1
        <5>1. \A v \in Nat : \A k \in 1..(v + 1) : k \notin 1..v => k = v + 1
          OBVIOUS
        <5>2. n \in 1..(frames[m][2] + 1) /\ n \notin 1..frames[m][2]
          BY <2>8, <3>2, <4>1, <4>2
        <5> QED
          BY <2>2, <5>1, <5>2
      <4>4. places[m] + 2 * n - 1 = Len(stack) + 1
        <5>1. \A p, l, v \in Nat : p + 1 + 2 * v + 0 = l + 1 => p + 2 * (v + 1) - 1 = l + 1
          OBVIOUS
        <5>2. places[m] \in Nat
          BY <1>2, <2>4
        <5>3. places[m] + 1 + 2 * frames[m][2] + 0 = Len(stack) + 1
          BY <2>2, <2>3, <2>8, <4>1
        <5> QED
          BY <1>2, <2>2, <4>3, <5>1, <5>2, <5>3
      <4> QED
        BY <4>1, <4>4
    <3> QED
      BY <3>1, <3>2
  <2>9. \A j \in 1..(m - 1) : places[j] < places[m]
    BY <2>1 DEF Owns
  <2>10. ~ (m < Len(frames'))
    BY <1>1
  <2> QED
    BY <2>5, <2>7, <2>8, <2>9, <2>10 DEF Owns
<1>8. \A i \in DOMAIN frames' : Owns(places, i)'
  <2> TAKE i \in DOMAIN frames'
  <2>1. i \in 1..(m - 1) \/ i = m
    BY <1>1
  <2> QED
    BY <1>6, <1>7, <2>1
<1>9. places[1] = 1
  BY <1>3 DEF Laid
<1>10. frames' # <<>>
  BY <1>1
<1> QED
  BY <1>4, <1>8, <1>9, <1>10 DEF Laid

\* A step that leaves the values and the calls under way as they are.
LEMMA ReadsSame ==
    ASSUME JsonInv, frames' = frames, stack' = stack, Expecting',
           frames = <<>> =>
              Len(stack) = IF expect' = "root" \/ (expect' = "end" /\ error' = kParseErrorNone)
                           THEN 1 ELSE 0,
           frames # <<>> => InPart(Len(frames))' = InPart(Len(frames))
    PROVE  JsonInv'
<1>1. frames' \in Seq(Frame) /\ stack' \in Seq(Range(stack'))
  <2>1. Range(stack') = Range(stack)
    OBVIOUS
  <2> QED
    BY <2>1 DEF JsonInv
<1>2. \A k \in DOMAIN stack' : Paired(stack'[k])
  BY DEF JsonInv, StackAccounts
<1>3. CASE frames = <<>>
  BY <1>1, <1>2, <1>3 DEF JsonInv, StackAccounts
<1>4. CASE frames # <<>>
  <2> DEFINE m == Len(frames)
  <2>1. /\ m \in Nat /\ m >= 1 /\ m \in 1..m
        /\ InFull(m) \in Nat /\ InPart(m) \in 0..2
    BY <1>4, TopFrame, Counts
  <2>2. InFull(m)' = InFull(m) /\ NamesIn(m)' = NamesIn(m)
    BY <1>4 DEF InFull, NamesIn
  <2>3. InPart(m) \in Nat
    <3>1. \A x \in 0..2 : x \in Nat
      OBVIOUS
    <3> QED
      BY <2>1, <3>1
  <2>4. /\ InFull(m)' \in Nat /\ InPart(m)' \in Nat
        /\ InFull(m)' + InPart(m)' = InFull(m) + InPart(m) + 0
    <3>1. InFull(m)' = InFull(m) /\ InPart(m)' = InPart(m)
      BY <1>4, <2>2
    <3>2. InFull(m) + InPart(m) = InFull(m) + InPart(m) + 0
      BY <2>1, <2>3
    <3> QED
      BY <2>1, <2>3, <3>1, <3>2
  <2>5. Len(stack') = Len(stack) + 0
    BY StackFacts
  <2>6. frames' # <<>> /\ \E places \in [DOMAIN frames' -> DOMAIN stack'] : Laid(places)'
    <3>1. /\ Len(frames') = Len(frames) /\ 0 \in {0, 1}
          /\ \A i \in 1..(Len(frames) - 1) : frames'[i] = frames[i]
          /\ frames'[Len(frames)][1] = frames[Len(frames)][1]
      OBVIOUS
    <3>2. \A k \in 1..Len(stack) : stack'[k] = stack[k]
      OBVIOUS
    <3>3. /\ InFull(Len(frames))' + InPart(Len(frames))'
              = InFull(Len(frames)) + InPart(Len(frames)) + 0
          /\ InFull(Len(frames))' \in Nat /\ InPart(Len(frames))' \in Nat
          /\ NamesIn(Len(frames))' = NamesIn(Len(frames))
      BY <2>2, <2>4
    <3> QED
      BY <1>1, <1>4, <2>5, <3>1, <3>2, <3>3, ReadsOn, Zenon
  <2> QED
    BY <1>1, <1>2, <2>6 DEF JsonInv, StackAccounts
<1> QED
  BY <1>3, <1>4

\* A step that puts a value on the stack that holds no other.
LEMMA Pushes ==
    ASSUME JsonInv, frames' = frames, NEW value, stack' = Append(stack, value),
           value.kind # "object", Expecting',
           frames = <<>> => expect \notin {"root", "end"} /\ expect' = "root",
           frames # <<>> =>
              /\ InPart(Len(frames))' = InPart(Len(frames)) + 1
              /\ Container = "object" => InPart(Len(frames)) # 0 \/ value.kind = "string"
    PROVE  JsonInv'
<1>1. /\ frames' \in Seq(Frame) /\ stack' \in Seq(Range(stack'))
      /\ Len(stack') = Len(stack) + 1 /\ Len(stack) \in Nat
      /\ stack'[Len(stack) + 1] = value /\ \A k \in 1..Len(stack) : stack'[k] = stack[k]
  <2>1. stack \in Seq(Range(stack)) /\ frames' \in Seq(Frame)
    BY DEF JsonInv
  <2> QED
    BY <2>1, Appended
<1>2. \A k \in DOMAIN stack' : Paired(stack'[k])
  <2> TAKE k \in DOMAIN stack'
  <2>1. k \in 1..Len(stack) \/ k = Len(stack) + 1
    BY <1>1
  <2>2. Paired(value)
    BY DEF Paired
  <2>3. \A j \in 1..Len(stack) : Paired(stack[j])
    BY StackFacts
  <2> QED
    BY <1>1, <2>1, <2>2, <2>3
<1>3. CASE frames = <<>>
  <2>1. Len(stack) = 0
    BY <1>3 DEF JsonInv, StackAccounts
  <2> QED
    BY <1>1, <1>2, <1>3, <2>1 DEF JsonInv, StackAccounts
<1>4. CASE frames # <<>>
  <2> DEFINE m == Len(frames)
  <2>1. /\ m \in Nat /\ m >= 1 /\ m \in 1..m
        /\ InFull(m) \in Nat /\ InPart(m) \in 0..2 /\ NamesIn(m) \in Nat
        /\ frames[m][2] \in Nat /\ Container = frames[m][1]
    BY <1>4, TopFrame, Counts
  <2>2. InFull(m)' = InFull(m)
    BY DEF InFull
  <2>3. InPart(m) \in Nat
    <3>1. \A x \in 0..2 : x \in Nat
      OBVIOUS
    <3> QED
      BY <2>1, <3>1
  <2>4. /\ InFull(m)' \in Nat /\ InPart(m)' \in Nat
        /\ InFull(m)' + InPart(m)' = InFull(m) + InPart(m) + 1
    <3>1. \A a, b \in Nat : b + 1 \in Nat /\ a + (b + 1) = a + b + 1
      OBVIOUS
    <3> QED
      BY <1>4, <2>1, <2>2, <2>3, <3>1
  <2>5. frames[m][1] = "object" =>
           \/ NamesIn(m)' = NamesIn(m)
           \/ /\ InPart(m) = 0
              /\ NamesIn(m)' = NamesIn(m) + 1
              /\ stack'[Len(stack) + 1].kind = "string"
    <3>1. CASE InPart(m) = 0
      <4>1. NamesIn(m) = frames[m][2] + 0
        BY <3>1 DEF NamesIn
      <4>2. NamesIn(m)' = frames[m][2] + 1
        <5>1. InPart(m)' = 1
          BY <1>4, <3>1
        <5> QED
          BY <5>1 DEF NamesIn
      <4> QED
        BY <1>1, <1>4, <2>1, <3>1, <4>1, <4>2
    <3>2. CASE InPart(m) # 0
      <4>1. InPart(m)' # 0
        BY <1>4, <2>3
      <4> QED
        BY <3>2, <4>1 DEF NamesIn
    <3> QED
      BY <3>1, <3>2
  <2>6. frames' # <<>> /\ \E places \in [DOMAIN frames' -> DOMAIN stack'] : Laid(places)'
    <3>1. /\ Len(frames') = Len(frames) /\ 1 \in {0, 1}
          /\ \A i \in 1..(Len(frames) - 1) : frames'[i] = frames[i]
          /\ frames'[Len(frames)][1] = frames[Len(frames)][1]
      OBVIOUS
    <3>2. frames[Len(frames)][1] = "object" =>
           \/ NamesIn(Len(frames))' = NamesIn(Len(frames))
           \/ /\ 1 = 1 /\ InPart(Len(frames)) = 0
              /\ NamesIn(Len(frames))' = NamesIn(Len(frames)) + 1
              /\ stack'[Len(stack) + 1].kind = "string"
      BY <2>5
    <3> QED
      BY <1>1, <1>4, <2>4, <3>1, <3>2, ReadsOn, Zenon
  <2> QED
    BY <1>1, <1>2, <2>6 DEF JsonInv, StackAccounts
<1> QED
  BY <1>3, <1>4

\* StartObject and StartArray: one frame more, and its value above all others.
LEMMA Opens ==
    ASSUME JsonInv, NEW kind \in {"object", "array"}, expect = "value",
           frames' = Append(frames, <<kind, 0>>), stack' = Append(stack, Scalar(kind)),
           expect' = "first"
    PROVE  JsonInv'
<1> DEFINE top == <<kind, 0>>
<1>0. PICK m, l : m = Len(frames) /\ l = Len(stack)
  OBVIOUS
<1>1. /\ stack' \in Seq(Range(stack'))
      /\ Len(stack') = l + 1 /\ l \in Nat
      /\ stack'[l + 1] = Scalar(kind) /\ \A k \in 1..l : stack'[k] = stack[k]
  <2>1. stack \in Seq(Range(stack))
    BY DEF JsonInv
  <2> QED
    BY <1>0, <2>1, Appended
<1>2. /\ frames \in Seq(Frame) /\ m \in Nat
      /\ frames' \in Seq(Frame) /\ Len(frames') = m + 1 /\ frames'[m + 1] = top
      /\ \A i \in 1..m : frames'[i] = frames[i]
  <2>1. frames \in Seq(Frame) /\ top \in Frame
    BY DEF JsonInv, Frame
  <2> QED
    BY <1>0, <2>1
<1>3. frames' # <<>> /\ DOMAIN frames' = 1..(m + 1) /\ DOMAIN stack' = 1..(l + 1)
  BY <1>1, <1>2
<1>4. Expecting'
  <2>1. Seen' = 0
    BY <1>2 DEF Seen
  <2> QED
    BY <1>3, <2>1 DEF Expecting
<1>5. \A k \in DOMAIN stack' : Paired(stack'[k])
  <2> TAKE k \in DOMAIN stack'
  <2>1. k \in 1..l \/ k = l + 1
    BY <1>1, <1>3
  <2>2. Paired(Scalar(kind))
    <3>1. Scalar(kind).parts = <<>>
      BY DEF Scalar, Value
    <3>2. Len(<<>>) = 2 * 0 /\ 0 \in 0..Len(<<>>) /\ 1..0 = {}
      OBVIOUS
    <3> QED
      BY <3>1, <3>2 DEF Paired
  <2>3. \A j \in 1..l : Paired(stack[j])
    BY <1>0, StackFacts
  <2> QED
    BY <1>1, <2>1, <2>2, <2>3
<1> DEFINE full == InFull(m + 1)'
           part == InPart(m + 1)'
           names == NamesIn(m + 1)'
<1>6. full = 0 /\ part = 0 /\ names = 0
  <2>1. full = 0
    BY <1>2 DEF InFull
  <2>2. part = 0
    BY <1>2 DEF InPart
  <2>3. names = 0
    BY <1>2, <2>2 DEF NamesIn
  <2> QED
    BY <2>1, <2>2, <2>3
<1>7. CASE frames = <<>>
  <2>1. l = 0 /\ m = 0
    BY <1>0, <1>7 DEF JsonInv, StackAccounts
  <2>1a. PICK next : next = [i \in 1..1 |-> 1]
    OBVIOUS
  <2>2. next \in [DOMAIN frames' -> DOMAIN stack'] /\ next[1] = 1
    BY <1>3, <2>1, <2>1a
  <2>3. Owns(next, 1)'
    <3>1. stack'[next[1]] = Scalar(frames'[1][1])
      BY <1>1, <1>2, <2>1, <2>2
    <3>2. \A j \in 1..(1 - 1) : next[j] < next[1]
      OBVIOUS
    <3>3. next[1] + 1 + InFull(1)' + InPart(1)' = Len(stack') + 1
      BY <1>1, <1>6, <2>1, <2>2
    <3>4. \A n \in 1..NamesIn(1)' : FALSE
      BY <1>6, <2>1
    <3>5. ~ (1 < Len(frames'))
      BY <1>2, <2>1
    <3> QED
      BY <3>1, <3>2, <3>3, <3>4, <3>5 DEF Owns
  <2>4. Laid(next)'
    BY <1>3, <2>1, <2>2, <2>3 DEF Laid
  <2> QED
    BY <1>1, <1>2, <1>3, <1>4, <1>5, <2>2, <2>4 DEF JsonInv, StackAccounts
<1>8. CASE frames # <<>>
  <2>1. PICK places \in [DOMAIN frames -> DOMAIN stack] : Laid(places)
    BY <1>8 DEF JsonInv, StackAccounts
  <2>2. /\ m >= 1 /\ m \in 1..m /\ DOMAIN frames = 1..m /\ DOMAIN stack = 1..l
        /\ frames[m][1] \in {"object", "array"}
    BY <1>0, <1>8, TopFrame, StackFacts
  <2>3. \A i \in 1..m : places[i] \in 1..l
    BY <2>2
  <2>3a. PICK next : next = [i \in 1..(m + 1) |-> IF i = m + 1 THEN l + 1 ELSE places[i]]
    OBVIOUS
  <2>4. /\ next[m + 1] = l + 1 /\ \A i \in 1..m : next[i] = places[i]
    BY <1>2, <2>3a
  <2>5. next \in [DOMAIN frames' -> DOMAIN stack']
    <3>1. \A i \in 1..(m + 1) : next[i] \in 1..(l + 1)
      <4> TAKE i \in 1..(m + 1)
      <4>1. i = m + 1 \/ i \in 1..m
        BY <1>2
      <4>2. 1..l \subseteq 1..(l + 1) /\ l + 1 \in 1..(l + 1)
        BY <1>1
      <4> QED
        BY <2>3, <2>4, <4>1, <4>2
    <3> QED
      BY <1>3, <2>3a, <3>1
  <2>6. ASSUME NEW i \in 1..(m - 1)
        PROVE  Owns(next, i)'
    <3>1. i + 1 \in 1..m /\ i \in 1..m
      BY <1>2
    <3>2. \A k \in 1..(places[i + 1] - 1) : stack'[k] = stack[k]
      BY <1>1, <2>3, <3>1
    <3>3. i < Len(frames') /\ frames'[i] = frames[i]
      <4>1. \A n \in Nat : \A k \in 1..(n - 1) : k < n + 1
        OBVIOUS
      <4>2. i < m + 1
        BY <1>2, <4>1
      <4>3. i < Len(frames')
        BY <1>2, <4>2
      <4> QED
        BY <1>2, <3>1, <4>3
    <3>4. \A j \in 1..(i + 1) : next[j] = places[j]
      BY <1>2, <2>4
    <3> QED
      BY <1>0, <1>8, <2>1, <3>2, <3>3, <3>4, LowerOwns
  <2>7. Owns(next, m)'
    <3>1. Owns(places, m)
      BY <2>1, <2>2 DEF Laid
    <3>2. InFull(m)' = InFull(m) /\ InPart(m)' = InPart(m)
      <4>1. InFull(m)' = InFull(m)
        BY <1>2, <2>2 DEF InFull
      <4>2. m < Len(frames')
        BY <1>2
      <4>3. InPart(m)' = IF frames[m][1] = "object" THEN 1 ELSE 0
        BY <1>2, <2>2, <4>2 DEF InPart
      <4>4. InPart(m) = IF frames[m][1] = "object" THEN 1 ELSE 0
        BY <1>0, <1>2 DEF InPart
      <4> QED
        BY <4>1, <4>3, <4>4
    <3>3. NamesIn(m)' = NamesIn(m)
      BY <1>2, <2>2, <3>2 DEF NamesIn
    <3>4. stack'[next[m]] = Scalar(frames'[m][1])
      BY <1>1, <1>2, <2>2, <2>3, <2>4, <3>1 DEF Owns
    <3>5. \A j \in 1..(m - 1) : next[j] < next[m]
      BY <1>2, <2>2, <2>4, <3>1 DEF Owns
    <3>6. next[m] + 1 + InFull(m)' + InPart(m)' = next[m + 1]
      <4>1. ~ (m < m)
        BY <1>2
      <4>2. places[m] + 1 + InFull(m) + InPart(m) = l + 1
        BY <1>0, <3>1, <4>1 DEF Owns
      <4> QED
        BY <2>2, <2>4, <3>2, <4>2
    <3>7. ASSUME frames[m][1] = "object", NEW n \in 1..NamesIn(m)
          PROVE  stack'[next[m] + 2 * n - 1].kind = "string"
      <4>1. stack[places[m] + 2 * n - 1].kind = "string"
        BY <3>1, <3>7 DEF Owns
      <4>2. places[m] + 2 * n - 1 \in 1..l
        BY <1>0, <1>8, <2>1, <2>2, <3>7, Holds
      <4> QED
        BY <1>1, <2>2, <2>4, <4>1, <4>2
    <3>8. m < Len(frames')
      BY <1>2
    <3> QED
      BY <1>2, <2>2, <3>3, <3>4, <3>5, <3>6, <3>7, <3>8 DEF Owns
  <2>8. Owns(next, m + 1)'
    <3>1. stack'[next[m + 1]] = Scalar(frames'[m + 1][1])
      BY <1>1, <1>2, <2>4
    <3>2. \A j \in 1..m : next[j] < next[m + 1]
      <4>1. \A n \in Nat : \A k \in 1..n : k < n + 1
        OBVIOUS
      <4>2. \A j \in 1..m : places[j] < l + 1
        BY <1>1, <2>3, <4>1
      <4> QED
        BY <2>4, <4>2
    <3>3. next[m + 1] + 1 + full + part = Len(stack') + 1
      BY <1>1, <1>6, <2>4
    <3>4. \A n \in 1..names : stack'[next[m + 1] + 2 * n - 1].kind = "string"
      BY <1>6
    <3>5. ~ (m + 1 < Len(frames')) /\ 1..((m + 1) - 1) = 1..m
      BY <1>2
    <3>6. \A j \in 1..((m + 1) - 1) : next[j] < next[m + 1]
      BY <3>2, <3>5
    <3>7. next[m + 1] + 1 + full + part
             = IF m + 1 < Len(frames') THEN next[m + 1 + 1] ELSE Len(stack') + 1
      BY <3>3, <3>5
    <3> QED
      BY <3>1, <3>4, <3>6, <3>7 DEF Owns
  <2>9. Laid(next)'
    <3>1. \A i \in 1..(m + 1) : i \in 1..(m - 1) \/ i = m \/ i = m + 1
      BY <1>2
    <3>2. next[1] = 1
      BY <2>1, <2>2, <2>4 DEF Laid
    <3> QED
      BY <1>3, <2>6, <2>7, <2>8, <3>1, <3>2 DEF Laid
  <2> QED
    BY <1>1, <1>2, <1>3, <1>4, <1>5, <2>5, <2>9 DEF JsonInv, StackAccounts
<1> QED
  BY <1>7, <1>8

\* A sequence is one over its own elements.
LEMMA OverItself ==
    ASSUME NEW S, NEW s \in Seq(S)
    PROVE  s \in Seq(Range(s))
<1>1. Len(s) \in Nat /\ DOMAIN s = 1..Len(s) /\ s = [i \in 1..Len(s) |-> s[i]]
  OBVIOUS
<1>2. \A i \in 1..Len(s) : s[i] \in Range(s)
  BY <1>1 DEF Range
<1> QED
  BY <1>1, <1>2

\* EndObject and EndArray: the highest frame goes, and what was read in it
\* becomes part of its value, which the frame below has read now.
LEMMA Closes ==
    ASSUME JsonInv, frames # <<>>, NEW count \in Nat, Close(count),
           Held(count) = InFull(Len(frames)) + InPart(Len(frames)),
           Container = "object" => 1..count \subseteq 1..NamesIn(Len(frames))
    PROVE  JsonInv'
<1>0. PICK m, l : m = Len(frames) /\ l = Len(stack)
  OBVIOUS
<1>1. /\ m \in Nat /\ m >= 1 /\ m \in 1..m /\ DOMAIN frames = 1..m /\ ~ (m < m)
      /\ l \in Nat /\ DOMAIN stack = 1..l /\ Container = frames[m][1]
      /\ \A k \in 1..l : Paired(stack[k])
      /\ frames \in Seq(Frame) /\ stack \in Seq(Range(stack))
      /\ InFull(m) \in Nat /\ InPart(m) \in 0..2
      /\ \A i \in 1..m : frames[i][1] \in {"object", "array"} /\ frames[i][2] \in Nat
  BY <1>0, TopFrame, StackFacts, Counts DEF JsonInv
<1>2. PICK places \in [DOMAIN frames -> DOMAIN stack] : Laid(places)
  BY DEF JsonInv, StackAccounts
<1>3. PICK b : b = places[m]
  OBVIOUS
<1>4. Owns(places, m)
  BY <1>1, <1>2 DEF Laid
<1>5. b \in 1..l /\ b \in Nat /\ b >= 1 /\ b <= l
  BY <1>1, <1>3
<1>6. l - Held(count) = b
  <2>1. b + 1 + InFull(m) + InPart(m) = l + 1
    BY <1>0, <1>1, <1>3, <1>4 DEF Owns
  <2> DEFINE f == InFull(m)
             p == InPart(m)
  <2>2. f \in Nat /\ p \in Nat
    <3>1. \A x \in 0..2 : x \in Nat
      OBVIOUS
    <3> QED
      BY <1>1, <3>1
  <2>3. b + 1 + f + p = l + 1 /\ Held(count) = f + p
    BY <1>0, <2>1
  <2> HIDE DEF f, p
  <2>4. l - (f + p) = b
    BY <1>1, <1>5, <2>2, <2>3
  <2> QED
    BY <2>3, <2>4
<1>7. PICK value : value = [stack[b] EXCEPT !.parts = SubSeq(stack, b + 1, l)]
  OBVIOUS
<1>8. /\ stack' = Append(SubSeq(stack, 1, b - 1), value) /\ frames' = Front(frames)
      /\ expect' = IF m = 1 THEN "root" ELSE "separator"
  BY <1>0, <1>6, <1>7 DEF Close
<1>9. /\ stack' \in Seq(Range(stack')) /\ Len(stack') = b /\ stack'[b] = value
      /\ \A k \in 1..(b - 1) : stack'[k] = stack[k]
  <2> DEFINE low == SubSeq(stack, 1, b - 1)
  <2>1. /\ low \in Seq(Range(stack)) /\ Len(low) = b - 1
        /\ \A k \in 1..(b - 1) : low[k] = stack[k]
    <3>1. b - 1 \in (1 - 1)..Len(stack) /\ 1 \in 1..(Len(stack) + 1)
      BY <1>0, <1>1, <1>5
    <3>2. (b - 1) - 1 + 1 = b - 1 /\ \A k \in 1..(b - 1) : 1 + k - 1 = k
      BY <1>5
    <3> QED
      BY <1>1, <3>1, <3>2, Part
  <2>2. low \in Seq(Range(low))
    BY <2>1, OverItself
  <2> HIDE DEF low
  <2>3. /\ Append(low, value) \in Seq(Range(Append(low, value)))
        /\ Len(Append(low, value)) = Len(low) + 1
        /\ Append(low, value)[Len(low) + 1] = value
        /\ \A k \in 1..Len(low) : Append(low, value)[k] = low[k]
    BY <2>2, Appended
  <2>4. stack' = Append(low, value)
    BY <1>8 DEF low
  <2>5. Len(low) + 1 = b
    BY <1>5, <2>1
  <2> QED
    BY <2>1, <2>3, <2>4, <2>5
<1>10. Paired(value)
  <2>1. stack[b] = Scalar(frames[m][1])
    BY <1>3, <1>4 DEF Owns
  <2>2. value.kind = frames[m][1] /\ value.parts = SubSeq(stack, b + 1, l)
    <3>1. \A c, x : LET v == [Scalar(c) EXCEPT !.parts = x] IN v.kind = c /\ v.parts = x
      BY DEF Scalar, Value
    <3>2. value = [Scalar(frames[m][1]) EXCEPT !.parts = SubSeq(stack, b + 1, l)]
      BY <1>7, <2>1
    <3> QED
      BY <3>1, <3>2, Zenon
  <2>3. /\ Len(value.parts) = l - b
        /\ \A k \in 1..(l - b) : value.parts[k] = stack[b + k]
    <3>1. b + 1 \in 1..(Len(stack) + 1) /\ l \in ((b + 1) - 1)..Len(stack)
      BY <1>0, <1>1, <1>5
    <3>2. l - (b + 1) + 1 = l - b /\ \A k \in 1..(l - b) : (b + 1) + k - 1 = b + k
      BY <1>1, <1>5
    <3>3. /\ Len(SubSeq(stack, b + 1, l)) = l - (b + 1) + 1
          /\ \A k \in 1..(l - (b + 1) + 1) : SubSeq(stack, b + 1, l)[k] = stack[(b + 1) + k - 1]
      BY <1>1, <3>1, Part
    <3>4. \A k \in 1..(l - b) : SubSeq(stack, b + 1, l)[k] = stack[b + k]
      BY <3>2, <3>3
    <3> QED
      BY <2>2, <3>2, <3>3, <3>4
  <2>4. ASSUME frames[m][1] = "object"
        PROVE  \E n \in 0..Len(value.parts) :
                  /\ Len(value.parts) = 2 * n
                  /\ \A j \in 1..n : value.parts[2 * j - 1].kind = "string"
    <3>1. l - b = 2 * count
      <4>1. Held(count) = 2 * count
        BY <1>1, <2>4 DEF Held
      <4> QED
        BY <1>1, <1>5, <1>6, <4>1
    <3>2. ASSUME NEW j \in 1..count
          PROVE  value.parts[2 * j - 1].kind = "string"
      <4>1. j \in 1..NamesIn(m)
        BY <1>0, <1>1, <2>4
      <4>2. stack[b + 2 * j - 1].kind = "string"
        BY <1>0, <1>2, <1>3, <2>4, <4>1, Holds
      <4>3. 2 * j - 1 \in 1..(l - b) /\ b + (2 * j - 1) = b + 2 * j - 1
        BY <1>5, <3>1
      <4> QED
        BY <2>3, <4>2, <4>3
    <3>3. count \in 0..Len(value.parts)
      BY <2>3, <3>1
    <3> QED
      BY <2>3, <3>1, <3>2, <3>3
  <2> QED
    BY <2>2, <2>4 DEF Paired
<1>11. \A k \in DOMAIN stack' : Paired(stack'[k])
  <2>1. DOMAIN stack' = 1..b
    BY <1>5, <1>9
  <2>2. \A k \in 1..b : k = b \/ (k \in 1..(b - 1) /\ k \in 1..l)
    BY <1>1, <1>5
  <2> QED
    BY <1>1, <1>9, <1>10, <2>1, <2>2
<1>12. /\ frames' \in Seq(Frame) /\ Len(frames') = m - 1 /\ m - 1 \in Nat
       /\ DOMAIN frames' = 1..(m - 1) /\ \A i \in 1..(m - 1) : frames'[i] = frames[i]
  <2>1. \A i \in 1..(m - 1) : frames[i] \in Frame
    BY <1>0, <1>1
  <2>2. frames' = SubSeq(frames, 1, m - 1)
    BY <1>0, <1>8 DEF Front
  <2>3. m - 1 \in Int /\ m - 1 \in Nat
    BY <1>1
  <2>4. /\ SubSeq(frames, 1, m - 1) \in Seq(Frame)
        /\ Len(SubSeq(frames, 1, m - 1)) = IF 1 <= m - 1 THEN (m - 1) - 1 + 1 ELSE 0
        /\ \A i \in 1..((m - 1) - 1 + 1) : SubSeq(frames, 1, m - 1)[i] = frames[1 + i - 1]
    BY <2>1, <2>3, SubSeqProperties
  <2>5. /\ (IF 1 <= m - 1 THEN (m - 1) - 1 + 1 ELSE 0) = m - 1 /\ (m - 1) - 1 + 1 = m - 1
        /\ \A i \in 1..(m - 1) : 1 + i - 1 = i
    BY <1>1
  <2>6. Len(frames') = m - 1 /\ frames' \in Seq(Frame)
    BY <2>2, <2>4, <2>5
  <2>7. \A i \in 1..(m - 1) : frames'[i] = frames[i]
    BY <2>2, <2>4, <2>5
  <2> QED
    BY <2>3, <2>6, <2>7
<1>13. CASE m = 1
  <2>1. places[1] = 1
    BY <1>2 DEF Laid
  <2>2. frames' = <<>> /\ Len(stack') = 1 /\ expect' = "root"
    BY <1>3, <1>8, <1>9, <1>12, <1>13, <2>1
  <2>3. Expecting'
    BY <2>2 DEF Expecting
  <2> QED
    BY <1>9, <1>11, <1>12, <2>2, <2>3 DEF JsonInv, StackAccounts
<1>14. CASE m # 1
  <2>1. PICK o : o = m - 1
    OBVIOUS
  <2>2. /\ o \in Nat /\ o >= 1 /\ o \in 1..o /\ o \in 1..m /\ o + 1 = m /\ o < m
        /\ 1..o \subseteq 1..m
    BY <1>1, <1>14, <2>1
  <2>3. frames' # <<>> /\ expect' = "separator" /\ Len(frames') = o /\ DOMAIN frames' = 1..o
    BY <1>8, <1>12, <1>14, <2>1, <2>2
  <2>4. Expecting'
    BY <2>3 DEF Expecting
  <2>5. \A i \in 1..m : places[i] \in 1..l
    BY <1>1, <1>2
  <2>6. \A i \in 1..o : places[i] < b
    BY <1>3, <1>4, <2>1 DEF Owns
  <2>7. PICK next : next = [i \in 1..o |-> places[i]]
    OBVIOUS
  <2>8. next \in [DOMAIN frames' -> DOMAIN stack'] /\ \A i \in 1..o : next[i] = places[i]
    <3>1. DOMAIN stack' = 1..b
      BY <1>5, <1>9
    <3>2. \A i \in 1..o : places[i] \in 1..b
      BY <1>1, <1>5, <2>2, <2>5, <2>6
    <3> QED
      BY <2>3, <2>7, <3>1, <3>2
  <2>9. ASSUME NEW i \in 1..(o - 1)
        PROVE  Owns(next, i)'
    <3>1. i + 1 \in 1..o /\ i \in 1..(m - 1) /\ i < o /\ i \in 1..o /\ i + 1 \in Nat
      BY <2>1, <2>2
    <3>2. \A k \in 1..(places[i + 1] - 1) : stack'[k] = stack[k]
      <4>1. places[i + 1] \in Nat /\ places[i + 1] < b
        BY <2>2, <2>5, <2>6, <3>1
      <4>2. \A k \in 1..(places[i + 1] - 1) : k \in 1..(b - 1)
        BY <1>5, <4>1
      <4> QED
        BY <1>9, <4>2
    <3>3. i < Len(frames') /\ frames'[i] = frames[i]
      BY <1>12, <2>3, <3>1
    <3>4. \A j \in 1..(i + 1) : next[j] = places[j]
      BY <2>2, <2>8, <3>1
    <3> QED
      BY <1>0, <1>2, <3>1, <3>2, <3>3, <3>4, LowerOwns
  <2>10. Owns(next, o)'
    <3>1. Owns(places, o)
      BY <1>1, <1>2, <2>2 DEF Laid
    <3>2. /\ frames'[o] = frames[o] /\ frames[o][1] \in {"object", "array"}
          /\ frames[o][2] \in Nat
      BY <1>1, <1>12, <2>1, <2>2
    <3>3. InFull(o) \in Nat /\ InFull(o)' = InFull(o)
      BY <3>2 DEF InFull
    <3>4. /\ InPart(o) = IF frames[o][1] = "object" THEN 1 ELSE 0
          /\ InPart(o)' = IF frames[o][1] = "object" THEN 2 ELSE 1
      <4>1. InPart(o) = IF frames[o][1] = "object" THEN 1 ELSE 0
        BY <1>0, <2>2 DEF InPart
      <4>2. ~ (o < Len(frames'))
        BY <2>2, <2>3
      <4> QED
        BY <2>3, <3>2, <4>1, <4>2 DEF InPart
    <3>5. frames[o][1] = "object" => NamesIn(o)' = NamesIn(o)
      BY <3>2, <3>4 DEF NamesIn
    <3>6. places[o] + 1 + InFull(o) + InPart(o) = b
      BY <1>0, <1>3, <2>2, <3>1 DEF Owns
    <3>7. stack'[next[o]] = Scalar(frames'[o][1])
      <4>1. places[o] \in 1..(b - 1)
        BY <1>1, <1>5, <2>2, <2>5, <2>6
      <4> QED
        BY <1>9, <2>2, <2>8, <3>1, <3>2, <4>1 DEF Owns
    <3>8. \A j \in 1..(o - 1) : next[j] < next[o]
      BY <2>2, <2>8, <3>1 DEF Owns
    <3>9. next[o] + 1 + InFull(o)' + InPart(o)' = Len(stack') + 1
      <4>1. InPart(o)' = InPart(o) + 1 /\ InPart(o) \in Nat
        BY <3>2, <3>4
      <4>2. places[o] \in Nat
        BY <1>1, <2>2, <2>5
      <4> DEFINE p == places[o]
                 f == InFull(o)
                 q == InPart(o)
      <4>3. p \in Nat /\ f \in Nat /\ q \in Nat /\ p + 1 + f + q = b
        BY <3>3, <3>6, <4>1, <4>2
      <4> HIDE DEF p, f, q
      <4>4. p + 1 + f + (q + 1) = b + 1
        BY <1>5, <4>3
      <4> QED
        BY <1>9, <2>2, <2>8, <3>3, <4>1, <4>4 DEF p, f, q
    <3>10. ASSUME frames[o][1] = "object", NEW n \in 1..NamesIn(o)
           PROVE  stack'[next[o] + 2 * n - 1].kind = "string"
      <4>1. stack[places[o] + 2 * n - 1].kind = "string"
        BY <3>1, <3>10 DEF Owns
      <4>2. places[o] + 2 * n - 1 \in 1..(b - 1)
        <5> DEFINE p == places[o]
                   v == frames[o][2]
        <5>1. p \in Nat /\ p >= 1 /\ v \in Nat
          BY <1>1, <2>2, <2>5, <3>2
        <5>2. p + 1 + 2 * v + 1 = b
          BY <3>4, <3>6, <3>10 DEF InFull
        <5>3. n \in 1..(v + 1)
          BY <3>4, <3>10 DEF NamesIn
        <5> HIDE DEF p, v
        <5>4. p + 2 * n - 1 \in 1..(b - 1)
          BY <5>1, <5>2, <5>3
        <5> QED
          BY <5>4 DEF p
      <4> QED
        BY <1>9, <2>2, <2>8, <4>1, <4>2
    <3>11. ~ (o < Len(frames'))
      BY <2>2, <2>3
    <3>12. frames'[o][1] = "object" =>
              \A n \in 1..NamesIn(o)' : stack'[next[o] + 2 * n - 1].kind = "string"
      BY <3>2, <3>5, <3>10
    <3> QED
      BY <3>7, <3>8, <3>9, <3>11, <3>12 DEF Owns
  <2>11. Laid(next)'
    <3>1. \A i \in 1..o : i \in 1..(o - 1) \/ i = o
      BY <2>2
    <3>2. next[1] = 1
      BY <1>2, <2>2, <2>8 DEF Laid
    <3> QED
      BY <2>3, <2>9, <2>10, <3>1, <3>2 DEF Laid
  <2> QED
    BY <1>9, <1>11, <1>12, <2>3, <2>4, <2>8, <2>11 DEF JsonInv, StackAccounts
<1> QED
  BY <1>13, <1>14

-----------------------------------------------------------------------------
(* The steps. *)

\* What the highest frame has read of its member or element.
LEMMA InTop ==
    ASSUME frames \in Seq(Frame), frames # <<>>
    PROVE  /\ Container \in {"object", "array"} /\ Container = frames[Len(frames)][1]
           /\ InPart(Len(frames)) =
                 CASE expect = "separator" -> IF Container = "object" THEN 2 ELSE 1
                   [] expect = "colon" -> 1
                   [] expect \in {"value", "string", "number"} -> IF Container = "object" THEN 1 ELSE 0
                   [] OTHER -> 0
<1>1. Len(frames) \in Nat /\ Len(frames) >= 1 /\ frames[Len(frames)] \in Frame
  OBVIOUS
<1>2. ~ (Len(frames) < Len(frames))
  BY <1>1
<1>3. Container \in {"object", "array"} /\ Container = frames[Len(frames)][1]
  BY <1>1 DEF Container, Frame
<1> QED
  BY <1>2, <1>3 DEF InPart

\* A value that is read to its end and holds no other.
LEMMA PushesValue ==
    ASSUME JsonInv, expect \in {"value", "string", "number"}, frames' = frames,
           NEW value, stack' = Append(stack, value), value.kind # "object", expect' = Behind
    PROVE  JsonInv'
<1>1. CASE frames = <<>>
  <2>1. expect' = "root" /\ expect \notin {"root", "end"}
    BY <1>1 DEF Behind
  <2>2. Expecting'
    BY <1>1, <2>1 DEF Expecting
  <2> QED
    BY <1>1, <2>1, <2>2, Pushes
<1>2. CASE frames # <<>>
  <2>1. expect' = "separator"
    BY <1>2 DEF Behind
  <2>2. Expecting'
    BY <1>2, <2>1 DEF Expecting
  <2>3. frames \in Seq(Frame)
    BY DEF JsonInv
  <2>4. /\ Container \in {"object", "array"}
        /\ InPart(Len(frames)) = IF Container = "object" THEN 1 ELSE 0
    BY <1>2, <2>3, InTop
  <2>5. InPart(Len(frames))' = IF Container = "object" THEN 2 ELSE 1
    <3>1. /\ frames' \in Seq(Frame) /\ frames' # <<>> /\ Container' = Container
      BY <1>2, <2>3 DEF Container
    <3>2. ~ (Len(frames') < Len(frames')) /\ Container = frames'[Len(frames')][1]
      BY <3>1, TopFrame, <1>2
    <3> QED
      BY <2>1, <2>4, <3>2 DEF InPart
  <2>6. /\ InPart(Len(frames))' = InPart(Len(frames)) + 1
        /\ Container = "object" => InPart(Len(frames)) # 0
    BY <2>4, <2>5
  <2> QED
    BY <1>2, <2>2, <2>6, Pushes
<1> QED
  BY <1>1, <1>2

\* A step that changes what is read next, but not what was read.
LEMMA Turns ==
    ASSUME JsonInv, frames' = frames, stack' = stack, Expecting',
           expect \notin {"root", "end"}, expect' \notin {"root", "end"},
           \/ expect' = expect
           \/ /\ frames # <<>> /\ expect \in {"first", "name"}
              /\ \/ expect' = "value" /\ Container # "object"
                 \/ expect' \in {"name", "key"}
           \/ frames # <<>> /\ Container = "object" /\ expect = "colon" /\ expect' = "value"
           \/ expect = "value" /\ expect' \in {"string", "number"}
    PROVE  JsonInv'
<1>1. CASE frames = <<>>
  <2>1. Len(stack) = 0
    BY <1>1 DEF JsonInv, StackAccounts
  <2> QED
    BY <1>1, <2>1, ReadsSame
<1>2. CASE frames # <<>>
  <2>1. frames \in Seq(Frame)
    BY DEF JsonInv
  <2>2. /\ Container \in {"object", "array"}
        /\ InPart(Len(frames)) =
                 CASE expect = "separator" -> IF Container = "object" THEN 2 ELSE 1
                   [] expect = "colon" -> 1
                   [] expect \in {"value", "string", "number"} -> IF Container = "object" THEN 1 ELSE 0
                   [] OTHER -> 0
    BY <1>2, <2>1, InTop
  <2>3. InPart(Len(frames))' =
                 CASE expect' = "separator" -> IF Container = "object" THEN 2 ELSE 1
                   [] expect' = "colon" -> 1
                   [] expect' \in {"value", "string", "number"} -> IF Container = "object" THEN 1 ELSE 0
                   [] OTHER -> 0
    <3>1. ~ (Len(frames') < Len(frames')) /\ Container = frames'[Len(frames')][1]
      BY <1>2, TopFrame
    <3> QED
      BY <3>1 DEF InPart
  <2>4. InPart(Len(frames))' = InPart(Len(frames))
    BY <2>2, <2>3
  <2> QED
    BY <1>2, <2>4, ReadsSame
<1> QED
  BY <1>1, <1>2

\* An error ends the reading and leaves all as it is.
LEMMA Fails ==
    ASSUME JsonInv, Reading, NEW code, Fail(code)
    PROVE  JsonInv'
<1>1. frames' = frames /\ stack' = stack /\ expect' = expect /\ expect # "end"
  BY DEF Fail, Reading
<1>2. Expecting'
  BY <1>1 DEF JsonInv, Expecting, Container, Seen
<1>3. frames = <<>> => Len(stack) = IF expect = "root" THEN 1 ELSE 0
  BY <1>1 DEF JsonInv, StackAccounts
<1>4. InPart(Len(frames))' = InPart(Len(frames))
  BY <1>1 DEF InPart
<1> QED
  BY <1>1, <1>2, <1>3, <1>4, ReadsSame

\* A character of a string leaves the values alone.
LEMMA Puts ==
    ASSUME JsonInv, InString, NEW char, NEW length, Put(char, length)
    PROVE  JsonInv'
<1>1. frames' = frames /\ stack' = stack /\ expect' = expect /\ expect \in {"key", "string"}
  BY DEF Put, InString
<1>2. Expecting'
  BY <1>1 DEF JsonInv, Expecting, Container, Seen
<1> QED
  BY <1>1, <1>2, Turns

LEMMA LiteralStep ==
    ASSUME JsonInv, Literal
    PROVE  JsonInv'
<1>1. /\ expect = "value" /\ frames' = frames /\ expect' = Behind
      /\ stack' = Append(stack, Scalar(Peek)) /\ Peek \in Words
  BY DEF Literal, Push
<1>2. Scalar(Peek).kind # "object"
  BY <1>1 DEF Scalar, Value, Words
<1> QED
  BY <1>1, <1>2, PushesValue

LEMMA StartStep ==
    ASSUME JsonInv, Start
    PROVE  JsonInv'
<1>1. /\ expect = "value" /\ expect' = "first" /\ Peek \in DOMAIN StartOf
      /\ stack' = Append(stack, Scalar(StartOf[Peek]))
      /\ frames' = Append(frames, <<StartOf[Peek], 0>>)
  BY DEF Start, Push
<1>2. StartOf[Peek] \in {"object", "array"}
  <2>1. Peek \in {"{", "["} /\ StartOf[Peek] = IF Peek = "{" THEN "object" ELSE "array"
    BY <1>1, Zenon DEF StartOf
  <2> QED
    BY <2>1, Zenon
<1> QED
  BY <1>1, <1>2, Opens

LEMMA FirstStep ==
    ASSUME JsonInv, First
    PROVE  JsonInv'
<1>1. expect = "first" /\ frames # <<>> /\ Seen = 0
  BY DEF First, JsonInv, Expecting
<1>2. /\ Container \in {"object", "array"} /\ Container = frames[Len(frames)][1]
      /\ InPart(Len(frames)) = 0 /\ Seen = frames[Len(frames)][2]
  <2>1. frames \in Seq(Frame)
    BY DEF JsonInv
  <2> QED
    BY <1>1, <2>1, InTop, TopFrame
<1>3. CASE Peek = EndOf[Container]
  <2>1. Close(0)
    BY <1>3 DEF First
  <2>2. Held(0) = InFull(Len(frames)) + InPart(Len(frames))
    BY <1>1, <1>2 DEF Held, InFull
  <2>3. 1..0 \subseteq 1..NamesIn(Len(frames)) /\ 0 \in Nat
    OBVIOUS
  <2> QED
    BY <1>1, <2>1, <2>2, <2>3, Closes
<1>4. CASE Peek # EndOf[Container]
  <2>1. expect' = Inside /\ frames' = frames /\ stack' = stack
    BY <1>4 DEF First
  <2>2. \/ expect' = "value" /\ Container # "object"
        \/ expect' = "name" /\ Container = "object"
    BY <2>1 DEF Inside
  <2>3. Expecting'
    BY <1>1, <2>1, <2>2 DEF Expecting, Container
  <2> QED
    BY <1>1, <2>1, <2>2, <2>3, Turns
<1> QED
  BY <1>3, <1>4

LEMMA MemberNameStep ==
    ASSUME JsonInv, MemberName
    PROVE  JsonInv'
<1>1. expect = "name" /\ Reading /\ frames # <<>> /\ Container = "object"
  BY DEF MemberName, JsonInv, Expecting
<1>2. CASE Peek = Quote
  <2>1. expect' = "key" /\ frames' = frames /\ stack' = stack
    BY <1>2 DEF MemberName
  <2>2. Expecting'
    BY <1>1, <2>1 DEF Expecting, Container
  <2> QED
    BY <1>1, <2>1, <2>2, Turns
<1>3. CASE Peek # Quote
  BY <1>1, <1>3, Fails DEF MemberName
<1> QED
  BY <1>2, <1>3

LEMMA ColonStep ==
    ASSUME JsonInv, Colon
    PROVE  JsonInv'
<1>1. expect = "colon" /\ Reading /\ frames # <<>> /\ Container = "object"
  BY DEF Colon, JsonInv, Expecting
<1>2. CASE Peek = ":"
  <2>1. expect' = "value" /\ frames' = frames /\ stack' = stack
    BY <1>2 DEF Colon
  <2>2. Expecting'
    BY <1>1, <2>1 DEF Expecting, Container
  <2> QED
    BY <1>1, <2>1, <2>2, Turns
<1>3. CASE Peek # ":"
  BY <1>1, <1>3, Fails DEF Colon
<1> QED
  BY <1>2, <1>3

LEMMA SeparatorStep ==
    ASSUME JsonInv, Separator
    PROVE  JsonInv'
<1> DEFINE m == Len(frames)
<1>1. expect = "separator" /\ Reading /\ frames # <<>> /\ frames \in Seq(Frame)
  <2>1. expect = "separator" /\ Reading
    BY Zenon DEF Separator
  <2> QED
    BY <2>1 DEF JsonInv, Expecting
<1>2. /\ Container \in {"object", "array"} /\ Container = frames[m][1]
      /\ InPart(m) = IF Container = "object" THEN 2 ELSE 1
      /\ Seen = frames[m][2] /\ Seen \in Nat /\ m \in Nat /\ m >= 1 /\ m \in 1..m
      /\ DOMAIN frames = 1..m
  BY <1>1, InTop, TopFrame
<1>3. InFull(m) = IF Container = "object" THEN 2 * Seen ELSE Seen
  BY <1>2 DEF InFull
<1>4. NamesIn(m) = Seen + 1
  BY <1>2 DEF NamesIn
<1>5. CASE Peek = ","
  <2>1. /\ frames' = [frames EXCEPT ![m][2] = @ + 1] /\ stack' = stack /\ expect' = Inside
    BY <1>5, Zenon DEF Separator
  <2>2. PICK frame : frame = <<Container, Seen + 1>>
    OBVIOUS
  <2>3. /\ frame \in Frame /\ frame[1] = Container /\ frame[2] = Seen + 1
    BY <1>2, <2>2 DEF Frame
  <2>4. [frames[m] EXCEPT ![2] = @ + 1] = frame
    <3>1. frames[m] = <<Container, Seen>>
      BY <1>1, <1>2 DEF Frame
    <3> QED
      BY <2>2, <3>1
  <2>5. frames' = [frames EXCEPT ![m] = frame]
    BY <2>1, <2>4
  <2>6. /\ frames' \in Seq(Frame) /\ Len(frames') = m /\ frames'[m] = frame
        /\ \A i \in 1..(m - 1) : frames'[i] = frames[i]
        /\ frames' # <<>>
    <3>1. /\ [frames EXCEPT ![m] = frame] \in Seq(Frame)
          /\ Len([frames EXCEPT ![m] = frame]) = m
          /\ \A j \in 1..m : [frames EXCEPT ![m] = frame][j] = IF j = m THEN frame ELSE frames[j]
      BY <1>1, <1>2, <2>3, ExceptSeq
    <3>2. frames' \in Seq(Frame) /\ Len(frames') = m
      BY <2>5, <3>1
    <3>3. frames'[m] = frame
      BY <1>2, <2>5, <3>1
    <3>4. \A i \in 1..(m - 1) : frames'[i] = frames[i]
      <4>1. \A n \in Nat : \A i \in 1..(n - 1) : i \in 1..n /\ i # n
        OBVIOUS
      <4>2. m \in Nat
        BY <1>2
      <4>3. \A i \in 1..(m - 1) : i \in 1..m /\ i # m
        BY <4>1, <4>2
      <4> HIDE DEF m
      <4> QED
        BY <2>5, <3>1, <4>3
    <3>5. frames' # <<>>
      BY <1>2, <3>2
    <3> QED
      BY <3>2, <3>3, <3>4, <3>5
  <2>7. Container' = Container /\ Seen' = Seen + 1
    BY <2>3, <2>6 DEF Container, Seen
  <2>8. \/ expect' = "value" /\ Container # "object"
        \/ expect' = "name" /\ Container = "object"
    BY <2>1 DEF Inside
  <2>9. Expecting'
    BY <2>6, <2>7, <2>8 DEF Expecting
  <2>10. /\ InPart(m)' = 0
    <3>1. ~ (Len(frames') < Len(frames')) /\ frames'[Len(frames')][1] = Container
      BY <1>2, <2>3, <2>6
    <3> QED
      BY <2>6, <2>8, <3>1 DEF InPart
  <2>11. InFull(m)' = IF Container = "object" THEN 2 * (Seen + 1) ELSE Seen + 1
    BY <2>3, <2>6 DEF InFull
  <2>12. NamesIn(m)' = Seen + 1
    <3>1. frames'[Len(frames')][2] = Seen + 1
      BY <2>3, <2>6
    <3> QED
      BY <1>2, <2>10, <3>1 DEF NamesIn
  <2>13. /\ InFull(m)' + InPart(m)' = InFull(m) + InPart(m) + 0
         /\ InFull(m)' \in Nat /\ InPart(m)' \in Nat
    <3>1. Container = "object" =>
             /\ InFull(m)' = 2 * (Seen + 1) /\ InFull(m) = 2 * Seen /\ InPart(m) = 2
      BY <1>2, <1>3, <2>11
    <3>2. Container # "object" =>
             /\ InFull(m)' = Seen + 1 /\ InFull(m) = Seen /\ InPart(m) = 1
      BY <1>2, <1>3, <2>11
    <3>3. \A n \in Nat : /\ 2 * (n + 1) + 0 = 2 * n + 2 + 0 /\ 2 * (n + 1) \in Nat
                        /\ (n + 1) + 0 = n + 1 + 0 /\ n + 1 \in Nat
      OBVIOUS
    <3>4. Seen \in Nat /\ 0 \in Nat
      BY <1>2
    <3>5. InFull(m)' \in Nat /\ InPart(m)' \in Nat
      BY <2>10, <3>1, <3>2, <3>3, <3>4
    <3> QED
      BY <2>10, <3>1, <3>2, <3>3, <3>4, <3>5
  <2>14. /\ stack' \in Seq(Range(stack')) /\ Len(stack') = Len(stack) + 0
         /\ \A k \in 1..Len(stack) : stack'[k] = stack[k]
    <3>1. stack \in Seq(Range(stack)) /\ Len(stack) \in Nat
      BY StackFacts DEF JsonInv
    <3> QED
      BY <2>1, <3>1
  <2>15. frames' # <<>> /\ \E places \in [DOMAIN frames' -> DOMAIN stack'] : Laid(places)'
    <3>1. frames'[Len(frames)][1] = frames[Len(frames)][1] /\ 0 \in {0, 1}
      BY <1>2, <2>3, <2>6
    <3>2. NamesIn(Len(frames))' = NamesIn(Len(frames))
      BY <1>4, <2>12
    <3> QED
      BY <1>1, <2>6, <2>13, <2>14, <3>1, <3>2, ReadsOn, Zenon
  <2>16. \A k \in DOMAIN stack' : Paired(stack'[k])
    BY <2>1 DEF JsonInv, StackAccounts
  <2> QED
    BY <2>6, <2>9, <2>14, <2>15, <2>16 DEF JsonInv, StackAccounts
<1> DEFINE Comma == Peek = ","
<1>6. CASE ~ Comma /\ Peek = EndOf[Container]
  <2>1. Close(Seen + 1)
    BY <1>6, Zenon DEF Separator
  <2>2. Held(Seen + 1) = InFull(m) + InPart(m)
    BY <1>2, <1>3 DEF Held
  <2>3. 1..(Seen + 1) \subseteq 1..NamesIn(m) /\ Seen + 1 \in Nat
    BY <1>2, <1>4
  <2> QED
    BY <1>1, <2>1, <2>2, <2>3, Closes
<1>7. CASE ~ Comma /\ Peek # EndOf[Container]
  <2>1. PICK code : Fail(code)
    BY <1>7, Zenon DEF Separator
  <2> QED
    BY <1>1, <2>1, Fails
<1>8. Comma => JsonInv'
  BY <1>5, Zenon
<1> HIDE DEF Comma
<1> QED
  BY <1>6, <1>7, <1>8

LEMMA RootStep ==
    ASSUME JsonInv, Root
    PROVE  JsonInv'
<1>1. expect = "root" /\ Reading /\ frames = <<>> /\ error = kParseErrorNone
  BY DEF Root, JsonInv, Expecting, Reading
<1>2. CASE Peek = Nul
  <2>1. expect' = "end" /\ frames' = frames /\ stack' = stack /\ error' = error
    BY <1>2 DEF Root
  <2>2. Expecting'
    BY <1>1, <2>1 DEF Expecting
  <2>3. Len(stack) = 1
    BY <1>1 DEF JsonInv, StackAccounts
  <2>4. error' = kParseErrorNone
    BY <1>1, <2>1
  <2> QED
    BY <1>1, <2>1, <2>2, <2>3, <2>4, ReadsSame
<1>3. CASE Peek # Nul
  BY <1>1, <1>3, Fails DEF Root
<1> QED
  BY <1>2, <1>3

LEMMA StringStartStep ==
    ASSUME JsonInv, StringStart
    PROVE  JsonInv'
<1>1. expect = "value" /\ expect' = "string" /\ frames' = frames /\ stack' = stack
  BY DEF StringStart
<1>2. Expecting'
  BY <1>1 DEF Expecting
<1> QED
  BY <1>1, <1>2, Turns

LEMMA StringEndStep ==
    ASSUME JsonInv, StringEnd
    PROVE  JsonInv'
<1> DEFINE value == Value("string", token, <<>>)
<1>1. /\ expect \in {"key", "string"} /\ frames' = frames
      /\ stack' = Append(stack, value)
      /\ expect' = IF expect = "key" THEN "colon" ELSE Behind
  BY DEF StringEnd, InString, Push
<1>2. value.kind = "string"
  BY DEF Value
<1> HIDE DEF value
<1>3. CASE expect = "string"
  BY <1>1, <1>2, <1>3, PushesValue
<1>4. CASE expect = "key"
  <2>1. frames # <<>> /\ Container = "object" /\ expect' = "colon" /\ frames \in Seq(Frame)
    BY <1>1, <1>4 DEF JsonInv, Expecting
  <2>2. Expecting'
    BY <1>1, <2>1 DEF Expecting, Container
  <2>3. InPart(Len(frames)) = 0
    BY <1>4, <2>1, InTop
  <2>4. InPart(Len(frames))' = 1
    <3>1. ~ (Len(frames') < Len(frames'))
      BY <1>1, <2>1, TopFrame
    <3> QED
      BY <2>1, <3>1 DEF InPart
  <2>5. InPart(Len(frames))' = InPart(Len(frames)) + 1
    BY <2>3, <2>4
  <2> QED
    BY <1>1, <1>2, <2>1, <2>2, <2>5, Pushes
<1> QED
  BY <1>1, <1>3, <1>4

LEMMA StringCharStep ==
    ASSUME JsonInv, StringChar
    PROVE  JsonInv'
<1>1. InString /\ Reading
  BY DEF StringChar, InString
<1>2. \/ \E code : Fail(code)
      \/ \E char, length : Put(char, length)
  BY DEF StringChar
<1> QED
  BY <1>1, <1>2, Fails, Puts

LEMMA StringEscapeStep ==
    ASSUME JsonInv, StringEscape
    PROVE  JsonInv'
<1>1. InString /\ Reading
  BY DEF StringEscape, InString
<1>2. \/ \E code : Fail(code)
      \/ \E char, length : Put(char, length)
  BY DEF StringEscape
<1> QED
  BY <1>1, <1>2, Fails, Puts

LEMMA NumberStartStep ==
    ASSUME JsonInv, NumberStart
    PROVE  JsonInv'
<1>1. expect = "value" /\ expect' = "number" /\ frames' = frames /\ stack' = stack
  BY DEF NumberStart
<1>2. Expecting'
  BY <1>1 DEF Expecting
<1> QED
  BY <1>1, <1>2, Turns

LEMMA NumberStep ==
    ASSUME JsonInv, Number
    PROVE  JsonInv'
<1>1. Reading /\ expect = "number"
  BY DEF Number
<1>2. \/ \E code : Fail(code)
      \/ frames' = frames /\ stack' = stack /\ expect' = expect
      \/ Push(Scalar("number")) /\ frames' = frames /\ expect' = Behind
  BY DEF Number
<1>3. ASSUME frames' = frames, stack' = stack, expect' = expect
      PROVE  JsonInv'
  <2>1. Expecting'
    BY <1>1, <1>3 DEF Expecting
  <2> QED
    BY <1>1, <1>3, <2>1, Turns
<1>4. ASSUME Push(Scalar("number")), frames' = frames, expect' = Behind
      PROVE  JsonInv'
  <2>1. Scalar("number").kind # "object"
    BY DEF Scalar, Value
  <2>2. stack' = Append(stack, Scalar("number"))
    BY <1>4 DEF Push
  <2> QED
    BY <1>1, <1>4, <2>1, <2>2, PushesValue
<1> QED
  BY <1>1, <1>2, <1>3, <1>4, Fails

LEMMA JsonStep ==
    ASSUME JsonInv, JNext
    PROVE  JsonInv'
BY LiteralStep, StartStep, FirstStep, MemberNameStep, ColonStep, SeparatorStep, RootStep,
   StringStartStep, StringEndStep, StringCharStep, StringEscapeStep, NumberStartStep, NumberStep
   DEF JNext

LEMMA JsonStutter ==
    ASSUME JsonInv, UNCHANGED jvars
    PROVE  JsonInv'
<1>1. frames' = frames /\ stack' = stack /\ expect' = expect /\ error' = error
  BY DEF jvars
<1>2. Expecting'
  BY <1>1 DEF JsonInv, Expecting, Container, Seen
<1>3. frames = <<>> => Len(stack) = IF expect = "root" \/ (expect = "end" /\ error = kParseErrorNone)
                                    THEN 1 ELSE 0
  BY DEF JsonInv, StackAccounts
<1>4. InPart(Len(frames))' = InPart(Len(frames))
  BY <1>1 DEF InPart
<1> QED
  BY <1>1, <1>2, <1>3, <1>4, ReadsSame

\* A new text: no call is under way and the document is empty.
LEMMA ParseStep ==
    ASSUME NEW t, Parse(t)
    PROVE  JsonInv'
<1>1. /\ frames' = <<>> /\ stack' = <<>>
      /\ \/ expect' = "end" /\ error' = "DocumentEmpty"
         \/ expect' = "value"
  BY DEF Parse
<1>2. frames' \in Seq(Frame) /\ stack' \in Seq(Range(stack')) /\ Len(stack') = 0 /\ DOMAIN stack' = {}
  BY <1>1
<1>3. "DocumentEmpty" # kParseErrorNone
  BY Zenon DEF kParseErrorNone
<1>4. Expecting'
  BY <1>1 DEF Expecting
<1> QED
  BY <1>1, <1>2, <1>3, <1>4 DEF JsonInv, StackAccounts

-----------------------------------------------------------------------------
(* The tool. *)

\* In every state the values of the document and the calls under way belong
\* together, whatever the project file holds.
THEOREM JsonInvHolds == Spec => []JsonInv
<1>1. Init => JsonInv
  <2> SUFFICES ASSUME Init PROVE JsonInv
    OBVIOUS
  <2>1. frames = <<>> /\ stack = <<>> /\ expect = "nothing"
    BY DEF Init, Idle
  <2>2. frames \in Seq(Frame) /\ stack \in Seq(Range(stack)) /\ Len(stack) = 0 /\ DOMAIN stack = {}
    BY <2>1
  <2>3. Expecting
    BY <2>1 DEF Expecting
  <2> QED
    BY <2>1, <2>2, <2>3 DEF JsonInv, StackAccounts
<1>2. JsonInv /\ [Next]_tvars => JsonInv'
  <2> SUFFICES ASSUME JsonInv, [Next]_tvars PROVE JsonInv'
    OBVIOUS
  <2>1. CASE ParseLine
    BY <2>1, JsonStutter DEF ParseLine
  <2>2. CASE Dispatch
    BY <2>2, JsonStutter DEF Dispatch
  <2>3. CASE Ask
    BY <2>3, JsonStutter DEF Ask
  <2>4. CASE Write
    BY <2>4, JsonStutter DEF Write
  <2>5. CASE Again
    BY <2>5, JsonStutter DEF Again
  <2>6. CASE OpenProject
    BY <2>6, JsonStutter, ParseStep DEF OpenProject
  <2>7. CASE Read
    BY <2>7, JsonStep DEF Read
  <2>8. CASE Show
    BY <2>8, JsonStutter DEF Show
  <2>9. CASE UNCHANGED tvars
    BY <2>9, JsonStutter DEF tvars
  <2> QED
    BY <2>1, <2>2, <2>3, <2>4, <2>5, <2>6, <2>7, <2>8, <2>9 DEF Next
<1> QED
  BY <1>1, <1>2, PTL DEF Spec

\* Every object and array under way has its own value and what was read in it on
\* the stack of values, for a text of any length and any nesting: EndObject and
\* EndArray take their own members and no one else's.
THEOREM StackAccountsHolds == Spec => []StackAccounts
<1>1. JsonInv => StackAccounts
  BY DEF JsonInv
<1> QED
  BY <1>1, JsonInvHolds, PTL

\* When ThInfo asks a document that was read without an error for its members,
\* there is one root, and an object has a name in front of every value.
ShowsOneRoot ==
    phase = "reading" /\ ~ Reading /\ error = kParseErrorNone =>
        frames = <<>> /\ Len(stack) = 1 /\ Paired(stack[1])

\* ThInfo reads the members of one whole value, whatever the project file holds.
THEOREM ShowsOneRootHolds == Spec => []ShowsOneRoot
<1>1. JsonInv => ShowsOneRoot
  <2> SUFFICES ASSUME JsonInv, ~ Reading, error = kParseErrorNone
               PROVE  frames = <<>> /\ Len(stack) = 1 /\ Paired(stack[1])
    BY DEF ShowsOneRoot
  <2>1. expect = "end"
    BY DEF Reading
  <2>2. frames = <<>> /\ Len(stack) = 1
    BY <2>1 DEF JsonInv, Expecting, StackAccounts
  <2> QED
    BY <2>2, StackFacts
<1> QED
  BY <1>1, JsonInvHolds, PTL

-----------------------------------------------------------------------------
(* Sequences in sequences. *)

\* A set of numbers that is not empty has a least one; with it a proof goes from a
\* least counterexample to the one before it.
LEMMA Least ==
    ASSUME NEW T, T \subseteq Nat, T # {}
    PROVE  \E n \in T : \A m \in T : n <= m
<1> DEFINE R == {ss \in Nat \X Nat : ss[1] < ss[2]}
<1>1. IsWellFoundedOn(R, Nat) BY NatLessThanWellFounded DEF OpToRel
<1> HIDE DEF R
<1>2. PICK n \in T : \A m \in T : ~ (<<m, n>> \in R)
  BY <1>1, WFMin
<1>3. \A m \in T : n <= m
  <2>1. TAKE m \in T
  <2>2. m \in Nat /\ n \in Nat OBVIOUS
  <2>3. ~ (m < n) BY <2>2, <1>2 DEF R
  <2>4. QED BY <2>2, <2>3
<1>4. QED BY <1>3

FollowedBy(A, B, C) ==
    /\ Len(A) \in Nat /\ Len(B) \in Nat /\ Len(C) = Len(A) + Len(B)
    /\ \A p \in 1..Len(A) : p \in 1..(Len(A) + Len(B)) /\ C[p] = A[p]
    /\ \A j \in 1..Len(B) : Len(A) + j \in 1..(Len(A) + Len(B)) /\ C[Len(A) + j] = B[j]

\* What stands behind what in a sequence put together from two.
LEMMA Joins ==
    ASSUME NEW S, NEW A \in Seq(S), NEW B \in Seq(S)
    PROVE  A \o B \in Seq(S) /\ FollowedBy(A, B, A \o B)
<1> DEFINE a == Len(A)
           b == Len(B)
<1>1. a \in Nat /\ b \in Nat BY LenProperties
<1>2. /\ A \o B \in Seq(S) /\ Len(A \o B) = a + b
      /\ \A p \in 1..(a + b) : (A \o B)[p] = IF p <= a THEN A[p] ELSE B[p - a]
  BY ConcatProperties
<1> HIDE DEF a, b
<1>3. \A p \in 1..a : p \in 1..(a + b) /\ p <= a BY <1>1
<1>4. \A j \in 1..b : a + j \in 1..(a + b) /\ ~ (a + j <= a) /\ a + j - a = j BY <1>1
<1>5. \A p \in 1..a : (A \o B)[p] = A[p] BY <1>2, <1>3
<1>6. ASSUME NEW j \in 1..b PROVE (A \o B)[a + j] = B[j]
  <2>1. PICK q \in 1..(a + b) : q = a + j /\ ~ (q <= a) /\ q - a = j
    <3> DEFINE p == a + j
    <3>1. p \in 1..(a + b) /\ p = a + j /\ ~ (p <= a) /\ p - a = j BY <1>1
    <3> HIDE DEF p
    <3>2. QED BY <3>1
  <2>2. (A \o B)[q] = B[q - a] BY <1>2, <2>1
  <2>3. QED BY <2>1, <2>2
<1>7. QED BY <1>1, <1>2, <1>3, <1>4, <1>5, <1>6, Zenon DEF a, b, FollowedBy

(* FlattenSeq puts each sequence behind the ones before it. *)
Offsets(s, off) ==
    /\ off \in [1..(Len(s) + 1) -> Nat] /\ off[1] = 0
    /\ \A i \in 1..Len(s) : off[i + 1] = off[i] + Len(s[i])

\* The places where the parts of a flattened sequence begin.
LEMMA OffsetsExist ==
    ASSUME NEW S, NEW s \in Seq(Seq(S))
    PROVE  \E off : Offsets(s, off)
<1> DEFINE n == Len(s)
<1> DEFINE Up(k) == \E off \in [1..(k + 1) -> Nat] : off[1] = 0 /\ \A i \in 1..k : off[i + 1] = off[i] + Len(s[i])
<1> DEFINE Bad == {k \in Nat : k <= n /\ ~ Up(k)}
<1>1. n \in Nat /\ DOMAIN s = 1..n /\ \A i \in 1..n : s[i] \in Seq(S) /\ Len(s[i]) \in Nat
  BY LenProperties, ElementOfSeq
<1>2. Up(0)
  <2>1. [i \in 1..1 |-> 0] \in [1..(0 + 1) -> Nat] OBVIOUS
  <2>2. [i \in 1..1 |-> 0][1] = 0 OBVIOUS
  <2>3. \A i \in 1..0 : FALSE OBVIOUS
  <2>4. QED BY <2>1, <2>2, <2>3, Zenon
<1>3. ASSUME NEW k \in Nat, k + 1 <= n, Up(k) PROVE Up(k + 1)
  <2>1. PICK off \in [1..(k + 1) -> Nat] : off[1] = 0 /\ \A i \in 1..k : off[i + 1] = off[i] + Len(s[i])
    BY <1>3
  <2> DEFINE new == [i \in 1..(k + 1 + 1) |-> IF i = k + 2 THEN off[k + 1] + Len(s[k + 1]) ELSE off[i]]
  <2>2. k + 1 \in 1..n BY <1>1, <1>3
  <2>3. new \in [1..(k + 1 + 1) -> Nat] BY <1>1, <2>1, <2>2
  <2>4. new[1] = 0 BY <2>1
  <2>5. ASSUME NEW i \in 1..(k + 1) PROVE new[i + 1] = new[i] + Len(s[i])
    BY <2>1, <2>2, <1>1
  <2>6. QED BY <2>3, <2>4, <2>5
<1>4. Bad = {}
  <2>1. SUFFICES ASSUME Bad # {} PROVE FALSE OBVIOUS
  <2>2. PICK k \in Bad : \A m \in Bad : k <= m BY <2>1, Least
  <2>3. k \in Nat /\ k <= n /\ ~ Up(k) BY <2>2
  <2> HIDE DEF Up
  <2>4. k # 0 BY <1>2, <2>3
  <2>5. k - 1 \in Nat /\ k - 1 <= n /\ k - 1 \notin Bad /\ k - 1 + 1 = k BY <1>1, <2>2, <2>3, <2>4
  <2>6. Up(k - 1) BY <2>5
  <2>7. QED BY <1>3, <2>3, <2>5, <2>6
<1> HIDE DEF Up
<1>5. Up(n) BY <1>1, <1>4
<1>6. QED BY <1>5, Zenon DEF Up, Offsets

OneBehindOther(s, off, all) ==
    /\ Len(all) = off[Len(s) + 1]
    /\ \A i \in 1..Len(s) : \A j \in 1..Len(s[i]) :
          off[i] + j \in 1..off[Len(s) + 1] /\ all[off[i] + j] = s[i][j]

(* flatten, the recursive function in FlattenSeq *)
LEMMA Flattened ==
    ASSUME NEW S, NEW s \in Seq(Seq(S)), NEW off, Offsets(s, off)
    PROVE  FlattenSeq(s) \in Seq(S) /\ OneBehindOther(s, off, FlattenSeq(s))
<1> DEFINE n == Len(s)
<1>1. n \in Nat /\ DOMAIN s = 1..n /\ \A i \in 1..n : s[i] \in Seq(S) /\ Len(s[i]) \in Nat
  BY LenProperties, ElementOfSeq
<1>2. CASE n = 0
  <2>1. FlattenSeq(s) = s /\ s = <<>> BY <1>2, EmptySeq DEF FlattenSeq
  <2>2. off[1] = 0 BY DEF Offsets
  <2>3. QED BY <2>1, <2>2, <1>2, EmptySeq DEF OneBehindOther
<1>3. CASE n # 0
  <2> DEFINE Rec(f) == f = [i \in 1..Len(s) |-> IF i = 1 THEN s[i] ELSE f[i-1] \o s[i]]
  <2> DEFINE F == CHOOSE f : Rec(f)
  <2>1. FlattenSeq(s) = F[n]
    BY <1>3 DEF FlattenSeq
  <2> DEFINE Up(k) == \E f \in [1..k -> Seq(S)] : \A i \in 1..k : f[i] = IF i = 1 THEN s[i] ELSE f[i-1] \o s[i]
  <2> DEFINE Bad == {k \in Nat : 1 <= k /\ k <= n /\ ~ Up(k)}
  <2>2. Up(1)
    <3>1. [i \in 1..1 |-> s[i]] \in [1..1 -> Seq(S)] BY <1>1, <1>3
    <3>2. \A i \in 1..1 : i = 1 OBVIOUS
    <3>3. [i \in 1..1 |-> s[i]][1] = s[1] OBVIOUS
    <3>4. QED BY <3>1, <3>2, <3>3, Zenon
  <2>3. ASSUME NEW k \in Nat, 1 <= k, k + 1 <= n, Up(k) PROVE Up(k + 1)
    <3>1. PICK f \in [1..k -> Seq(S)] : \A i \in 1..k : f[i] = IF i = 1 THEN s[i] ELSE f[i-1] \o s[i]
      BY <2>3
    <3> DEFINE new == [i \in 1..(k + 1) |-> IF i = k + 1 THEN f[k] \o s[k + 1] ELSE f[i]]
    <3>2. k + 1 \in 1..n /\ k \in 1..k BY <1>1, <2>3
    <3>3. f[k] \o s[k + 1] \in Seq(S) BY <3>2, <1>1, ConcatProperties
    <3>4. new \in [1..(k + 1) -> Seq(S)]
      <4>1. \A i \in 1..(k + 1) : i = k + 1 \/ i \in 1..k BY <2>3
      <4>2. QED BY <4>1, <3>3
    <3>5. ASSUME NEW i \in 1..(k + 1) PROVE new[i] = IF i = 1 THEN s[i] ELSE new[i-1] \o s[i]
      <4>1. CASE i = k + 1
        <5>1. i # 1 /\ i - 1 = k /\ i - 1 \in 1..(k + 1) /\ k # k + 1 BY <4>1, <2>3
        <5>2. new[i - 1] = f[k] BY <5>1
        <5>3. new[i] = f[k] \o s[k + 1] BY <4>1
        <5>4. QED BY <4>1, <5>1, <5>2, <5>3
      <4>2. CASE i # k + 1
        <5>1. i \in 1..k /\ (i # 1 => i - 1 \in 1..k /\ i - 1 \in 1..(k + 1) /\ i - 1 # k + 1) BY <4>2, <2>3
        <5>2. new[i] = f[i] BY <4>2
        <5>3. i # 1 => new[i - 1] = f[i - 1] BY <5>1
        <5>4. QED BY <5>1, <5>2, <5>3, <3>1
      <4>3. QED BY <4>1, <4>2
    <3>6. QED BY <3>4, <3>5
  <2>4. Bad = {}
    <3>1. SUFFICES ASSUME Bad # {} PROVE FALSE OBVIOUS
    <3>2. PICK k \in Bad : \A m \in Bad : k <= m BY <3>1, Least
    <3>3. k \in Nat /\ 1 <= k /\ k <= n /\ ~ Up(k) BY <3>2
    <3> HIDE DEF Up
    <3>4. k # 1 BY <2>2, <3>3
    <3>5. k - 1 \in Nat /\ 1 <= k - 1 /\ k - 1 <= n /\ k - 1 \notin Bad /\ k - 1 + 1 = k BY <1>1, <3>2, <3>3, <3>4
    <3>6. Up(k - 1) BY <3>5
    <3>7. QED BY <2>3, <3>3, <3>5, <3>6
  <2>5. PICK f \in [1..n -> Seq(S)] : \A i \in 1..n : f[i] = IF i = 1 THEN s[i] ELSE f[i-1] \o s[i]
    <3> HIDE DEF Up
    <3>1. Up(n) BY <1>1, <1>3, <2>4
    <3>2. QED BY <3>1 DEF Up
  <2>6. Rec(f)
    <3>1. f = [i \in 1..n |-> f[i]] BY <2>5
    <3>2. QED BY <3>1, <2>5
  <2>7. Rec(F)
    <3> HIDE DEF Rec
    <3>1. \E g : Rec(g) BY <2>6, Zenon
    <3>2. QED BY <3>1, Zenon
  <2> HIDE DEF F
  <2>8. \A i \in 1..n : F[i] = IF i = 1 THEN s[i] ELSE F[i-1] \o s[i] BY <2>7
  <2>9. off \in [1..(n + 1) -> Nat] /\ off[1] = 0 /\ \A i \in 1..n : off[i + 1] = off[i] + Len(s[i]) BY DEF Offsets
  <2> DEFINE Good(i) == /\ F[i] \in Seq(S) /\ Len(F[i]) = off[i + 1]
                        /\ \A k \in 1..i : \A j \in 1..Len(s[k]) :
                              off[k] + j \in 1..off[i + 1] /\ F[i][off[k] + j] = s[k][j]
  <2> DEFINE Wrong == {i \in Nat : 1 <= i /\ i <= n /\ ~ Good(i)}
  <2>10. Good(1)
    <3>1. F[1] = s[1] /\ 1 \in 1..n BY <1>1, <1>3, <2>8
    <3>2. off[1 + 1] = Len(s[1]) BY <3>1, <2>9, <1>1
    <3>3. \A k \in 1..1 : k = 1 OBVIOUS
    <3>4. \A j \in 1..Len(s[1]) : off[1] + j = j /\ j \in 1..off[1 + 1] BY <2>9, <3>2, <3>1, <1>1
    <3>5. QED BY <3>1, <3>2, <3>3, <3>4, <1>1
  <2>11. ASSUME NEW i \in Nat, NEW m \in Nat, 1 <= i, m = i + 1, m <= n, Good(i) PROVE Good(m)
    <3>1. m \in 1..n /\ m # 1 /\ m - 1 = i BY <1>1, <2>11
    <3>2. F[m] = F[i] \o s[m] BY <3>1, <2>8
    <3>3. F[i] \in Seq(S) /\ Len(F[i]) = off[m] /\ s[m] \in Seq(S) /\ Len(s[m]) \in Nat
      BY <2>11, <3>1, <1>1
    <3>4. /\ F[m] \in Seq(S) /\ Len(F[m]) = off[m] + Len(s[m]) /\ off[m] \in Nat
          /\ \A p \in 1..off[m] : p \in 1..(off[m] + Len(s[m])) /\ F[m][p] = F[i][p]
          /\ \A j \in 1..Len(s[m]) : off[m] + j \in 1..(off[m] + Len(s[m])) /\ F[m][off[m] + j] = s[m][j]
      <4>1. F[m] \in Seq(S) /\ FollowedBy(F[i], s[m], F[m])
        BY <3>2, <3>3, Joins
      <4>2. QED BY <4>1, <3>3, Zenon DEF FollowedBy
    <3>5. off[m + 1] = off[m] + Len(s[m]) BY <3>1, <2>9
    <3>6. ASSUME NEW k \in 1..m, NEW j \in 1..Len(s[k])
          PROVE  off[k] + j \in 1..(off[m] + Len(s[m])) /\ F[m][off[k] + j] = s[k][j]
      <4>1. CASE k = m BY <4>1, <3>4, Zenon
      <4>2. CASE k # m
        <5>1. k \in 1..i BY <4>2, <2>11
        <5>2. off[k] + j \in 1..off[m] /\ F[i][off[k] + j] = s[k][j] BY <5>1, <3>3, <2>11, Zenon
        <5>3. QED BY <5>2, <3>4, Zenon
      <4>3. QED BY <4>1, <4>2
    <3>7. QED BY <3>4, <3>5, <3>6
  <2> HIDE DEF Good
  <2>12. Wrong = {}
    <3>1. SUFFICES ASSUME Wrong # {} PROVE FALSE OBVIOUS
    <3>2. PICK k \in Wrong : \A m \in Wrong : k <= m BY <3>1, Least
    <3>3. k \in Nat /\ 1 <= k /\ k <= n /\ ~ Good(k) BY <3>2
    <3>4. k # 1 BY <2>10, <3>3
    <3>5. PICK i \in Nat : 1 <= i /\ k = i + 1 BY <3>3, <3>4
    <3>6. i <= n /\ i \notin Wrong BY <1>1, <3>2, <3>3, <3>5
    <3>7. Good(i) BY <3>5, <3>6
    <3>8. QED BY <2>11, <3>3, <3>5, <3>7
  <2>13. Good(n)
    <3>1. 1 <= n /\ n <= n /\ n \in Nat BY <1>1, <1>3
    <3>2. QED BY <2>12, <3>1
  <2>14. QED BY <2>1, <2>13 DEF Good, OneBehindOther
<1>4. QED BY <1>2, <1>3

-----------------------------------------------------------------------------
(* Strings of C, white space. *)

\* FirstOf finds the first place of a character, or none.
LEMMA FirstFacts ==
    ASSUME NEW C, NEW w \in Seq(C), NEW c
    PROVE  /\ FirstOf(w, c) \in 0..Len(w) /\ Len(w) \in Nat
           /\ FirstOf(w, c) # 0 => w[FirstOf(w, c)] = c /\ \A j \in 1..(FirstOf(w, c) - 1) : w[j] # c
           /\ FirstOf(w, c) = 0 => \A j \in 1..Len(w) : w[j] # c
<1> DEFINE I == {i \in 1..Len(w) : w[i] = c}
<1>1. Len(w) \in Nat BY LenProperties
<1>2. FirstOf(w, c) = IF I # {} THEN Min(I) ELSE 0 BY DEF FirstOf, SelectInSeq
<1>3. CASE I = {} BY <1>1, <1>2, <1>3
<1>4. CASE I # {}
  <2>0. I \subseteq Nat BY <1>1
  <2> HIDE DEF I
  <2>1. PICK n \in I : \A m \in I : n <= m BY <2>0, <1>4, Least
  <2>2. Min(I) \in I /\ \A m \in I : Min(I) <= m BY <2>1 DEF Min
  <2>3. FirstOf(w, c) = Min(I) BY <1>2, <1>4
  <2>4. FirstOf(w, c) \in 1..Len(w) /\ w[FirstOf(w, c)] = c /\ \A j \in 1..Len(w) : w[j] = c => FirstOf(w, c) <= j
    BY <2>2, <2>3 DEF I
  <2>5. \A j \in 1..(FirstOf(w, c) - 1) : j \in 1..Len(w) /\ ~ (FirstOf(w, c) <= j) BY <1>1, <2>4
  <2>6. QED BY <1>1, <2>4, <2>5
<1>5. QED BY <1>3, <1>4

\* c_str() ends in front of the first NUL, so that nothing of it has one.
LEMMA CStrFacts ==
    ASSUME NEW C, NEW w \in Seq(C)
    PROVE  /\ CStr(w) \in Seq(C)
           /\ \A j \in 1..Len(CStr(w)) : CStr(w)[j] # Nul
<1> DEFINE n == FirstOf(w, Nul)
<1>1. /\ n \in 0..Len(w) /\ Len(w) \in Nat
      /\ n # 0 => \A j \in 1..(n - 1) : w[j] # Nul
      /\ n = 0 => \A j \in 1..Len(w) : w[j] # Nul
  BY FirstFacts
<1>2. CStr(w) = IF n = 0 THEN w ELSE SubSeq(w, 1, n - 1) BY DEF CStr
<1> HIDE DEF n
<1>3. CASE n = 0 BY <1>1, <1>2, <1>3
<1>4. CASE n # 0
  <2>1. n - 1 \in 0..Len(w) /\ 1 \in 1..(Len(w) + 1) BY <1>1, <1>4
  <2>2. /\ SubSeq(w, 1, n - 1) \in Seq(C) /\ Len(SubSeq(w, 1, n - 1)) = n - 1
        /\ \A j \in 1..(n - 1) : SubSeq(w, 1, n - 1)[j] = w[j]
    <3>1. SubSeq(w, 1, n - 1) = [j \in 1..(n - 1) |-> w[j]] BY <2>1, <1>1
    <3>2. \A j \in 1..(n - 1) : w[j] \in C BY <2>1, <1>1, ElementOfSeq
    <3>3. n - 1 \in Nat BY <2>1
    <3>4. QED BY <3>1, <3>2, <3>3
  <2>3. QED BY <2>2, <1>1, <1>2, <1>4
<1>5. QED BY <1>3, <1>4

\* c_str() of a string without a NUL is the string.
LEMMA CStrSame ==
    ASSUME NEW C, NEW w \in Seq(C), \A j \in 1..Len(w) : w[j] # Nul
    PROVE  CStr(w) = w
<1>1. FirstOf(w, Nul) = 0 BY FirstFacts
<1>2. QED BY <1>1 DEF CStr

\* Skip stays where no white space is.
LEMMA SkipNone ==
    ASSUME NEW C, NEW t \in Seq(C), NEW i \in 1..(Len(t) + 1), i <= Len(t) => t[i] \notin Blank
    PROVE  Skip(t, i) = i
<1>0. Len(t) \in Nat BY LenProperties
<1> DEFINE Ok(j) == (j > Len(t) \/ t[j] \notin Blank) /\ \A k \in i..(j - 1) : t[k] \in Blank
<1>1. Ok(i) /\ i \in i..(Len(t) + 1) BY <1>0
<1>2. \A j \in i..(Len(t) + 1) : Ok(j) => j = i
  <2>1. SUFFICES ASSUME NEW j \in i..(Len(t) + 1), Ok(j), j # i PROVE FALSE OBVIOUS
  <2>2. i \in i..(j - 1) /\ i <= Len(t) BY <1>0, <2>1
  <2>3. t[i] \in Blank BY <2>1, <2>2
  <2>4. QED BY <2>2, <2>3
<1>3. Skip(t, i) = CHOOSE j \in i..(Len(t) + 1) : Ok(j) BY DEF Skip
<1> HIDE DEF Ok
<1>4. QED BY <1>1, <1>2, <1>3

-----------------------------------------------------------------------------
(* What the writer puts for a character, and how it is read. *)

(* The writer puts a character as it is, with a backslash before a letter for it, or by its number. *)
Short(c) == c \in {Quote, Backslash} \cup (Control \ {"us"})
LetterOf(c) == IF c \in {Quote, Backslash} THEN c ELSE CHOOSE e \in DOMAIN Escape : Escape[e] = c

NewLine == "\n"
CarriageReturn == "\r"
Tab == "\t"
Letters == {"b", "f", "n", "r", "t"}

\* the characters of a file, and what else words are put together from
Char == STRING \cup {Quote, Backslash, Nul, "u", "0", "1", "F", "{", "}", ":", ","} \cup DOMAIN Escape
        \cup {"-", "true", "[", "]", "info", "1.0.0", "main.th", "MIT"} \cup Range(Member)

\* The characters with an escape of their own are different ones.
LEMMA Characters ==
    /\ Control = {NewLine, CarriageReturn, Tab, "bs", "ff", "us"}
    /\ NewLine # "us" /\ CarriageReturn # "us" /\ Tab # "us"
    /\ Quote \notin {"us", "bs", "ff", "u", "/", Backslash, NewLine, CarriageReturn, Tab} \cup Letters
    /\ Backslash \notin {"us", "bs", "ff", "u", "/", Quote, NewLine, CarriageReturn, Tab} \cup Letters
<1>1. Control = {NewLine, CarriageReturn, Tab, "bs", "ff", "us"}
  BY Zenon DEF Control, NewLine, CarriageReturn, Tab
<1>2. NewLine # "us" /\ CarriageReturn # "us" /\ Tab # "us"
  BY Zenon DEF NewLine, CarriageReturn, Tab
<1>3. Quote \notin {"us", "bs", "ff", "u", "/", Backslash, NewLine, CarriageReturn, Tab} \cup Letters
  BY Zenon DEF Quote, Backslash, NewLine, CarriageReturn, Tab, Letters
<1>4. Backslash \notin {"us", "bs", "ff", "u", "/", Quote, NewLine, CarriageReturn, Tab} \cup Letters
  BY Zenon DEF Quote, Backslash, NewLine, CarriageReturn, Tab, Letters
<1>5. QED BY <1>1, <1>2, <1>3, <1>4

\* The letters behind a backslash, and what ParseStringToStream makes of them.
LEMMA Escapes ==
    /\ DOMAIN Escape = {Quote, Backslash, "/"} \cup Letters /\ "u" \notin DOMAIN Escape
    /\ Escape[Quote] = Quote /\ Escape[Backslash] = Backslash
    /\ Escape["b"] = "bs" /\ Escape["f"] = "ff"
    /\ Escape["n"] = NewLine /\ Escape["r"] = CarriageReturn /\ Escape["t"] = Tab
<1>1. DOMAIN Escape = {Quote, Backslash, "/"} \cup Letters BY Zenon DEF Escape, Letters
<1>2. "u" \notin DOMAIN Escape BY <1>1, Characters, Zenon DEF Letters
<1>3. \A e \in Letters : Quote # e /\ Backslash # e BY Characters, Zenon
<1>4. Escape[Quote] = Quote /\ Escape[Backslash] = Backslash
  BY <1>3, Zenon DEF Escape, Letters
<1>5. Escape["b"] = "bs" /\ Escape["f"] = "ff" /\ Escape["n"] = NewLine /\ Escape["r"] = CarriageReturn /\ Escape["t"] = Tab
  BY Zenon DEF Escape, NewLine, CarriageReturn, Tab
<1>6. QED BY <1>1, <1>2, <1>4, <1>5

\* What the writer and the command line put into words.
LEMMA Piece ==
    /\ {Quote, Backslash, Nul, "u", "0", "1", "F", "{", "}", ":", ","} \subseteq Char
    /\ DOMAIN Escape \subseteq Char /\ STRING \subseteq Char /\ Range(Member) \subseteq Char
    /\ {"-", "true", "[", "]", "info", "1.0.0", "main.th", "MIT"} \subseteq Char
BY Zenon DEF Char

\* The three forms the writer has for a character.
LEMMA EscapedForm ==
    ASSUME NEW c
    PROVE  /\ Short(c) => Escaped(c) = <<Backslash, LetterOf(c)>>
           /\ c = "us" => Escaped(c) = <<Backslash, "u", "0", "0", "1", "F">> /\ ~ Short(c)
           /\ ~ Short(c) /\ c # "us" => Escaped(c) = <<c>>
<1>1. "us" \notin {Quote, Backslash} BY Characters, Zenon
<1>2. \A d \in Control \ {"us"} : d \notin {Quote, Backslash} /\ d # "us" BY Characters, Zenon
<1>4. CASE c \in {Quote, Backslash}
  <2>0. c # "us" /\ c \notin Control \ {"us"} BY <1>1, <1>2, <1>4, Zenon
  <2>1. Escaped(c) = <<Backslash, c>> /\ LetterOf(c) = c BY <1>4, <2>0, Zenon DEF Escaped, LetterOf
  <2>2. QED BY <1>1, <1>4, <2>1, Zenon DEF Short
<1>5. CASE c = "us"
  <2>1. Escaped(c) = <<Backslash, "u", "0", "0", "1", "F">> BY <1>1, <1>5, Zenon DEF Escaped
  <2>2. QED BY <1>1, <1>5, <2>1, Zenon DEF Short
<1>6. CASE c \in Control \ {"us"}
  <2>1. c \notin {Quote, Backslash} /\ c # "us" BY <1>2, <1>6
  <2>2. LetterOf(c) = CHOOSE e \in DOMAIN Escape : Escape[e] = c BY <2>1, Zenon DEF LetterOf
  <2>3. Escaped(c) = <<Backslash, CHOOSE e \in DOMAIN Escape : Escape[e] = c>> BY <1>6, <2>1, Zenon DEF Escaped
  <2>4. QED BY <2>1, <2>2, <2>3, <1>6, Zenon DEF Short
<1>7. CASE c \notin {Quote, Backslash} /\ c # "us" /\ c \notin Control \ {"us"}
  <2>1. Escaped(c) = <<c>> BY <1>7, Zenon DEF Escaped
  <2>2. QED BY <2>1, <1>7, Zenon DEF Short
<1>8. QED BY <1>4, <1>5, <1>6, <1>7, Zenon

\* A letter stands for the character it was chosen for.
LEMMA LetterFacts ==
    ASSUME NEW c, Short(c)
    PROVE  LetterOf(c) \in DOMAIN Escape /\ Escape[LetterOf(c)] = c
<1>1. CASE c \in {Quote, Backslash}
  <2>1. LetterOf(c) = c BY <1>1, Zenon DEF LetterOf
  <2>2. QED BY <1>1, <2>1, Escapes
<1>2. CASE c \in Control \ {"us"} /\ c \notin {Quote, Backslash}
  <2>1. {"b", "f", "n", "r", "t"} \subseteq DOMAIN Escape BY Escapes, Zenon DEF Letters
  <2>2. c \in {NewLine, CarriageReturn, Tab, "bs", "ff"} BY <1>2, Characters, Zenon
  <2>3. \E e \in DOMAIN Escape : Escape[e] = c BY <2>1, <2>2, Escapes, Zenon
  <2>4. LetterOf(c) = CHOOSE e \in DOMAIN Escape : Escape[e] = c BY <1>2, Zenon DEF LetterOf
  <2>5. QED BY <2>3, <2>4, Zenon
<1>3. QED BY <1>1, <1>2, Zenon DEF Short

\* The writer's forms are text.
LEMMA EscapedType ==
    ASSUME NEW c \in Char
    PROVE  Escaped(c) \in Seq(Char) /\ Len(Escaped(c)) \in 1..6
<1>1. CASE Short(c)
  <2>1. LetterOf(c) \in Char /\ Backslash \in Char BY <1>1, LetterFacts, Piece, Zenon
  <2>2. Escaped(c) = <<Backslash, LetterOf(c)>> BY <1>1, EscapedForm
  <2>3. QED BY <2>1, <2>2
<1>2. CASE c = "us"
  <2>1. Escaped(c) = <<Backslash, "u", "0", "0", "1", "F">> BY <1>2, EscapedForm
  <2>2. Backslash \in Char /\ "u" \in Char /\ "0" \in Char /\ "1" \in Char /\ "F" \in Char BY Piece, Zenon
  <2>3. \A a, b, d, e, f \in Char : <<a, b, d, d, e, f>> \in Seq(Char) /\ Len(<<a, b, d, d, e, f>>) = 6 OBVIOUS
  <2>4. LET s == <<Backslash, "u", "0", "0", "1", "F">> IN s \in Seq(Char) /\ Len(s) = 6 BY <2>2, <2>3, Zenon
  <2>5. Escaped(c) \in Seq(Char) /\ Len(Escaped(c)) = 6 BY <2>1, <2>4, Zenon
  <2>6. QED BY <2>5
<1>3. CASE ~ Short(c) /\ c # "us"
  <2>1. Escaped(c) = <<c>> BY <1>3, EscapedForm, Zenon
  <2>2. QED BY <2>1
<1>4. QED BY <1>1, <1>2, <1>3

HexFacts(i) == /\ CharAt(i) = "0" /\ CharAt(i + 1) = "0" /\ CharAt(i + 2) = "1" /\ CharAt(i + 3) = "F"

\* The four digits of a control character without a letter are its number.
LEMMA UnitSeparator ==
    ASSUME NEW i \in Nat, HexFacts(i)
    PROVE  Hex4At(i) /\ Hex4(i) = 31 /\ Hex4(i) \notin Lead /\ Encode(Hex4(i)) = "us"
<1>1. /\ "0" \in DOMAIN HexDigit /\ "1" \in DOMAIN HexDigit /\ "F" \in DOMAIN HexDigit
      /\ HexDigit["0"] = 0 /\ HexDigit["1"] = 1 /\ HexDigit["F"] = 15
  BY DEF HexDigit
<1>2. \A k \in i..(i + 3) : k \in {i, i + 1, i + 2, i + 3} OBVIOUS
<1>3. Hex4At(i) BY <1>1, <1>2 DEF Hex4At, HexFacts
<1>4. Hex4(i) = 31 BY <1>1 DEF Hex4, HexFacts
<1>5. 31 \notin Lead BY DEF Lead
<1>6. Encode(31) = "us" BY DEF Encode
<1>7. QED BY <1>3, <1>4, <1>5, <1>6

(* What the writer puts for a character is read as that character, in one step. *)
LEMMA EscapedRead ==
    ASSUME at \in Nat, InString, NEW c, c # Nul,
           \A m \in 1..Len(Escaped(c)) : CharAt(at + m - 1) = Escaped(c)[m],
           StringEnd \/ StringChar \/ StringEscape
    PROVE  Put(c, Len(Escaped(c)))
<1>0. at + 1 - 1 = at /\ at + 2 - 1 = at + 1 /\ at + 3 - 1 = at + 2 /\ at + 4 - 1 = at + 2 + 1
      /\ at + 5 - 1 = at + 2 + 2 /\ at + 6 - 1 = at + 2 + 3 /\ at + 2 \in Nat OBVIOUS
<1>1. Quote # Backslash BY Characters
<1>2. CASE Short(c)
  <2>1. Escaped(c) = <<Backslash, LetterOf(c)>> /\ Len(Escaped(c)) = 2 BY <1>2, EscapedForm
  <2>2. Peek = Backslash /\ CharAt(at + 1) = LetterOf(c)
    <3>1. 1 \in 1..Len(Escaped(c)) /\ 2 \in 1..Len(Escaped(c)) BY <2>1
    <3>2. CharAt(at + 1 - 1) = Escaped(c)[1] /\ CharAt(at + 2 - 1) = Escaped(c)[2] BY <3>1
    <3>3. QED BY <3>2, <2>1, <1>0 DEF Peek
  <2>3. StringEscape BY <2>2, <1>1 DEF StringEnd, StringChar
  <2>4. CharAt(at + 1) \in DOMAIN Escape /\ Escape[CharAt(at + 1)] = c BY <2>2, <1>2, LetterFacts
  <2>5. Put(Escape[CharAt(at + 1)], 2) BY <2>3, <2>4, Zenon DEF StringEscape
  <2>6. QED BY <2>5, <2>4, <2>1
<1>3. CASE c = "us"
  <2>1. Escaped(c) = <<Backslash, "u", "0", "0", "1", "F">> /\ Len(Escaped(c)) = 6 BY <1>3, EscapedForm
  <2>2. Peek = Backslash /\ CharAt(at + 1) = "u" /\ HexFacts(at + 2)
    <3>1. 1 \in 1..Len(Escaped(c)) /\ 2 \in 1..Len(Escaped(c)) /\ 3 \in 1..Len(Escaped(c)) /\ 4 \in 1..Len(Escaped(c))
          /\ 5 \in 1..Len(Escaped(c)) /\ 6 \in 1..Len(Escaped(c)) BY <2>1
    <3>2. CharAt(at + 1 - 1) = Escaped(c)[1] /\ CharAt(at + 2 - 1) = Escaped(c)[2] BY <3>1
    <3>3. CharAt(at + 3 - 1) = Escaped(c)[3] /\ CharAt(at + 4 - 1) = Escaped(c)[4] BY <3>1
    <3>4. CharAt(at + 5 - 1) = Escaped(c)[5] /\ CharAt(at + 6 - 1) = Escaped(c)[6] BY <3>1
    <3>5. Peek = Backslash /\ CharAt(at + 1) = "u" BY <3>2, <2>1, <1>0 DEF Peek
    <3>6. CharAt(at + 2) = "0" /\ CharAt(at + 2 + 1) = "0" BY <3>3, <2>1, <1>0
    <3>7. CharAt(at + 2 + 2) = "1" /\ CharAt(at + 2 + 3) = "F" BY <3>4, <2>1, <1>0
    <3>8. QED BY <3>5, <3>6, <3>7 DEF HexFacts
  <2>3. StringEscape BY <2>2, <1>1 DEF StringEnd, StringChar
  <2>4. "u" \notin DOMAIN Escape BY Escapes
  <2>5. Hex4At(at + 2) /\ Hex4(at + 2) \notin Lead /\ Encode(Hex4(at + 2)) = "us"
    BY <2>2, <1>0, UnitSeparator
  <2>6. Put(Encode(Hex4(at + 2)), 6) BY <2>2, <2>3, <2>4, <2>5, Zenon DEF StringEscape
  <2>7. QED BY <2>6, <2>5, <2>1, <1>3
<1>4. CASE ~ Short(c) /\ c # "us"
  <2>1. Escaped(c) = <<c>> /\ Len(Escaped(c)) = 1 BY <1>4, EscapedForm
  <2>2. Peek = c
    <3>1. 1 \in 1..Len(Escaped(c)) BY <2>1
    <3>2. CharAt(at + 1 - 1) = Escaped(c)[1] BY <3>1
    <3>3. QED BY <3>2, <2>1, <1>0 DEF Peek
  <2>3. c \notin {Quote, Backslash} /\ c \notin Control BY <1>4, Zenon DEF Short
  <2>4. StringChar BY <2>2, <2>3 DEF StringEnd, StringEscape
  <2>5. Put(c, 1) BY <2>2, <2>3, <2>4, Zenon DEF StringChar
  <2>6. QED BY <2>1, <2>5
<1>5. QED BY <1>2, <1>3, <1>4

-----------------------------------------------------------------------------
(* A string as WriteString writes it: place[j] is where its j-th character stands,
   the last place that of the closing quote. *)

Body(chars) == FlattenSeq([i \in DOMAIN chars |-> Escaped(chars[i])])

\* In t the string chars is written from the quote at q on, its j-th character at place[j].
QuotedAt(chars, t, q, place) ==
    /\ q \in 1..Len(t) /\ t[q] = Quote
    /\ place \in [1..(Len(chars) + 1) -> 1..Len(t)] /\ place[1] = q + 1
    /\ \A j \in 1..Len(chars) :
          /\ place[j + 1] = place[j] + Len(Escaped(chars[j]))
          /\ \A m \in 1..Len(Escaped(chars[j])) :
                place[j] + m - 1 \in 1..Len(t) /\ t[place[j] + m - 1] = Escaped(chars[j])[m]
    /\ t[place[Len(chars) + 1]] = Quote

\* A string between its quotes: what stands where.
LEMMA WriteStringParts ==
    ASSUME NEW chars \in Seq(Char)
    PROVE  /\ Body(chars) \in Seq(Char) /\ Len(Body(chars)) \in Nat
           /\ WriteString(chars) \in Seq(Char) /\ Len(WriteString(chars)) = Len(Body(chars)) + 2
           /\ WriteString(chars)[1] = Quote /\ WriteString(chars)[Len(Body(chars)) + 2] = Quote
           /\ \A x \in 1..Len(Body(chars)) : WriteString(chars)[x + 1] = Body(chars)[x]
<1> DEFINE s == [i \in DOMAIN chars |-> Escaped(chars[i])]
           b == Body(chars)
           k == Len(b)
           one == <<Quote>>
<1>1. DOMAIN chars = 1..Len(chars) /\ Len(chars) \in Nat /\ \A i \in 1..Len(chars) : chars[i] \in Char
  BY LenProperties, ElementOfSeq
<1>2. s \in Seq(Seq(Char)) /\ Len(s) = Len(chars)
  <2>1. \A i \in 1..Len(chars) : Escaped(chars[i]) \in Seq(Char) BY <1>1, EscapedType
  <2>2. QED BY <1>1, <2>1
<1>3. b \in Seq(Char)
  <2>1. PICK off : Offsets(s, off) BY <1>2, OffsetsExist
  <2> HIDE DEF s
  <2>2. FlattenSeq(s) \in Seq(Char) BY <1>2, <2>1, Flattened
  <2>3. QED BY <2>2 DEF s, Body
<1>4. k \in Nat BY <1>3, LenProperties
<1>5. one \in Seq(Char) /\ Len(one) = 1 /\ one[1] = Quote
  <2>1. Quote \in Char BY Piece, Zenon
  <2>2. QED BY <2>1
<1>6. WriteString(chars) = (one \o b) \o one BY DEF WriteString, Body
<1> HIDE DEF b, k, one
<1>7. /\ one \o b \in Seq(Char) /\ Len(one \o b) = 1 + k /\ (one \o b)[1] = Quote
      /\ \A x \in 1..k : x + 1 \in 1..(1 + k) /\ (one \o b)[x + 1] = b[x]
  <2>1. one \o b \in Seq(Char) /\ FollowedBy(one, b, one \o b) BY <1>3, <1>5, Joins
  <2>2. Len(b) = k BY DEF k
  <2>3. 1 \in 1..1 /\ \A x \in 1..k : 1 + x = x + 1 BY <1>4
  <2>4. QED BY <2>1, <2>2, <2>3, <1>5 DEF FollowedBy
<1>8. /\ WriteString(chars) \in Seq(Char) /\ Len(WriteString(chars)) = k + 2
      /\ \A x \in 1..(1 + k) : WriteString(chars)[x] = (one \o b)[x]
      /\ WriteString(chars)[k + 2] = Quote
  <2>1. WriteString(chars) \in Seq(Char) /\ FollowedBy(one \o b, one, WriteString(chars)) BY <1>5, <1>6, <1>7, Joins
  <2>2. 1 \in 1..1 /\ (1 + k) + 1 = k + 2 BY <1>4
  <2>3. QED BY <2>1, <2>2, <1>5, <1>7 DEF FollowedBy
<1>9. 1 \in 1..(1 + k) BY <1>4
<1>10. QED BY <1>3, <1>4, <1>7, <1>8, <1>9 DEF b, k

\* Each character of a string has its place in the text.
LEMMA Quoted ==
    ASSUME NEW chars \in Seq(Char), NEW t \in Seq(Char), NEW base \in Nat,
           \A x \in 1..Len(WriteString(chars)) : base + x \in 1..Len(t) /\ t[base + x] = WriteString(chars)[x]
    PROVE  \E place : /\ QuotedAt(chars, t, base + 1, place)
                      /\ place[Len(chars) + 1] = base + Len(WriteString(chars))
<1> DEFINE s == [i \in DOMAIN chars |-> Escaped(chars[i])]
           b == Body(chars)
           w == WriteString(chars)
           n == Len(chars)
           k == Len(b)
<1>1. DOMAIN chars = 1..n /\ n \in Nat /\ \A i \in 1..n : chars[i] \in Char
  BY LenProperties, ElementOfSeq
<1>2. s \in Seq(Seq(Char)) /\ Len(s) = n /\ \A i \in 1..n : s[i] = Escaped(chars[i]) /\ Len(s[i]) \in Nat
  <2>1. \A i \in 1..n : Escaped(chars[i]) \in Seq(Char) /\ Len(Escaped(chars[i])) \in Nat
    BY <1>1, EscapedType, LenProperties
  <2>2. QED BY <1>1, <2>1
<1>3. PICK off : Offsets(s, off) BY <1>2, OffsetsExist
<1>4. /\ k = off[n + 1] /\ off \in [1..(n + 1) -> Nat] /\ off[1] = 0
      /\ \A j \in 1..n : /\ off[j + 1] = off[j] + Len(Escaped(chars[j]))
                         /\ \A m \in 1..Len(Escaped(chars[j])) :
                               off[j] + m \in 1..k /\ b[off[j] + m] = Escaped(chars[j])[m]
  <2> HIDE DEF s
  <2>1. OneBehindOther(s, off, FlattenSeq(s)) BY <1>2, <1>3, Flattened
  <2>2. b = FlattenSeq(s) BY DEF s, Body
  <2>3. k = off[n + 1] /\ off \in [1..(n + 1) -> Nat] /\ off[1] = 0
    BY <1>2, <1>3, <2>1, <2>2 DEF Offsets, OneBehindOther
  <2> HIDE DEF b, k, n
  <2>4. ASSUME NEW j \in 1..n
        PROVE  /\ off[j + 1] = off[j] + Len(Escaped(chars[j]))
               /\ \A m \in 1..Len(Escaped(chars[j])) : off[j] + m \in 1..k /\ b[off[j] + m] = Escaped(chars[j])[m]
    <3>1. s[j] = Escaped(chars[j]) /\ Len(s) = n BY <1>2
    <3>2. off[j + 1] = off[j] + Len(s[j]) BY <3>1, <1>3 DEF Offsets
    <3>3. \A m \in 1..Len(s[j]) : off[j] + m \in 1..off[n + 1] /\ b[off[j] + m] = s[j][m]
      BY <3>1, <2>1, <2>2 DEF OneBehindOther
    <3>4. QED BY <3>1, <3>2, <3>3, <2>3
  <2>5. QED BY <2>3, <2>4
<1>5. /\ k \in Nat /\ Len(w) = k + 2 /\ w[1] = Quote /\ w[k + 2] = Quote
      /\ \A x \in 1..k : w[x + 1] = b[x]
  BY WriteStringParts
<1>6. \A x \in 1..(k + 2) : base + x \in 1..Len(t) /\ t[base + x] = w[x] BY <1>5
<1>7. Len(t) \in Nat BY LenProperties
<1> HIDE DEF s, b, w, n, k
<1>8. \A j \in 1..(n + 1) : off[j] \in 0..k
  <2>1. \A j \in 1..n : off[j] \in Nat /\ off[j] <= k
    <3>1. TAKE j \in 1..n
    <3>2. Len(Escaped(chars[j])) \in 1..6 BY <1>1, EscapedType
    <3>3. 1 \in 1..Len(Escaped(chars[j]))
      <4>1. \A l \in 1..6 : 1 \in 1..l OBVIOUS
      <4>2. QED BY <4>1, <3>2
    <3>4. off[j] + 1 \in 1..k BY <3>3, <1>4
    <3>6. off[j] \in Nat BY <1>1, <1>4
    <3>5. QED BY <3>4, <3>6, <1>5
  <2>2. \A j \in 1..(n + 1) : j \in 1..n \/ j = n + 1 BY <1>1
  <2>3. QED BY <2>1, <2>2, <1>4, <1>5
<1> DEFINE place == [j \in 1..(n + 1) |-> base + 2 + off[j]]
<1>9. place \in [1..(n + 1) -> 1..Len(t)]
  <2>1. ASSUME NEW j \in 1..(n + 1) PROVE base + 2 + off[j] \in 1..Len(t)
    <3>1. \A o \in 0..k : o + 2 \in 1..(k + 2) /\ base + (o + 2) = base + 2 + o BY <1>5
    <3>2. QED BY <3>1, <1>6, <1>8
  <2>2. QED BY <2>1
<1>10. base + 1 \in 1..Len(t) /\ t[base + 1] = Quote
  <2>1. 1 \in 1..(k + 2) BY <1>5
  <2>2. QED BY <2>1, <1>5, <1>6
<1>11. 1 \in 1..(n + 1) /\ n + 1 \in 1..(n + 1) /\ \A j \in 1..n : j \in 1..(n + 1) /\ j + 1 \in 1..(n + 1) BY <1>1
<1>12. place[1] = base + 1 + 1 BY <1>4, <1>11
<1>13. place[n + 1] = base + Len(w) /\ t[place[n + 1]] = Quote
  <2>1. place[n + 1] = base + 2 + k BY <1>4, <1>11
  <2>2. base + 2 + k = base + (k + 2) /\ k + 2 \in 1..(k + 2) BY <1>5
  <2>3. t[base + (k + 2)] = Quote BY <2>2, <1>5, <1>6
  <2>4. QED BY <2>1, <2>2, <2>3, <1>5
<1>14. ASSUME NEW j \in 1..n
       PROVE  /\ place[j + 1] = place[j] + Len(Escaped(chars[j]))
              /\ \A m \in 1..Len(Escaped(chars[j])) :
                    place[j] + m - 1 \in 1..Len(t) /\ t[place[j] + m - 1] = Escaped(chars[j])[m]
  <2>1. place[j] = base + 2 + off[j] /\ place[j + 1] = base + 2 + off[j + 1] BY <1>11
  <2>2. off[j] \in Nat /\ Len(Escaped(chars[j])) \in Nat BY <1>1, <1>4, <1>11, EscapedType, LenProperties
  <2>3. off[j + 1] = off[j] + Len(Escaped(chars[j])) BY <1>4
  <2>4. place[j + 1] = place[j] + Len(Escaped(chars[j])) BY <2>1, <2>2, <2>3
  <2>5. ASSUME NEW m \in 1..Len(Escaped(chars[j]))
        PROVE  place[j] + m - 1 \in 1..Len(t) /\ t[place[j] + m - 1] = Escaped(chars[j])[m]
    <3>1. PICK x \in 1..k : x = off[j] + m /\ b[x] = Escaped(chars[j])[m] BY <1>4
    <3>2. m \in Nat BY <2>2
    <3>3. x + 1 \in 1..(k + 2) /\ base + (x + 1) = base + 2 + off[j] + m - 1
      <4>1. \A c, o, l \in Nat : c + (o + l + 1) = c + 2 + o + l - 1 OBVIOUS
      <4>2. base + (x + 1) = base + 2 + off[j] + m - 1 BY <4>1, <3>1, <3>2, <2>2
      <4>3. x + 1 \in 1..(k + 2) BY <1>5
      <4>4. QED BY <4>2, <4>3
    <3>4. base + (x + 1) \in 1..Len(t) /\ t[base + (x + 1)] = w[x + 1] BY <3>3, <1>6
    <3>5. w[x + 1] = b[x] BY <1>5
    <3>6. QED BY <2>1, <3>1, <3>3, <3>4, <3>5
  <2>6. QED BY <2>4, <2>5
<1>15. QED
  <2> HIDE DEF place
  <2>1. QuotedAt(chars, t, base + 1, place) BY <1>9, <1>10, <1>12, <1>13, <1>14 DEF QuotedAt, n
  <2>2. place[Len(chars) + 1] = base + Len(WriteString(chars)) BY <1>13 DEF n, w
  <2>3. QED BY <2>1, <2>2

-----------------------------------------------------------------------------
(* The object as ThInit writes it: begin[i] is where the i-th string begins. *)

\* the sign in front of the i-th string, and how many there are
Sign(i) == IF (i - 1) % 2 = 0 THEN "," ELSE ":"
Signs(i) == IF i = 1 THEN 0 ELSE 1
OpeningBrace == "{"
ClosingBrace == "}"

\* In t the strings are written one behind the other: the i-th with its sign
\* begins at begin[i], its j-th character at place[i][j].
LaidOut(strings, t, begin, place) ==
    /\ Len(t) \in Nat /\ begin \in [1..(Len(strings) + 1) -> 1..Len(t)]
    /\ t[1] = OpeningBrace /\ begin[1] = 2
    /\ begin[Len(strings) + 1] = Len(t) /\ t[Len(t)] = ClosingBrace
    /\ \A i \in 1..Len(strings) :
          /\ i # 1 => t[begin[i]] = Sign(i)
          /\ QuotedAt(strings[i], t, begin[i] + Signs(i), place[i])
          /\ begin[i + 1] = place[i][Len(strings[i]) + 1] + 1

\* A string with the sign in front of it: what stands where.
LEMMA PartParts ==
    ASSUME NEW chars \in Seq(Char), NEW i \in Nat, i # 0
    PROVE  LET p == Prefix(i - 1) \o WriteString(chars) IN
           /\ p \in Seq(Char) /\ Len(p) = Signs(i) + Len(WriteString(chars))
           /\ i # 1 => p[1] = Sign(i) /\ 1 \in 1..Len(p)
           /\ \A x \in 1..Len(WriteString(chars)) : Signs(i) + x \in 1..Len(p) /\ p[Signs(i) + x] = WriteString(chars)[x]
<1> DEFINE w == WriteString(chars)
           f == Prefix(i - 1)
           p == f \o w
<1>1. w \in Seq(Char) /\ Len(w) \in Nat BY WriteStringParts, LenProperties
<1>2. f \in Seq(Char) /\ Len(f) = Signs(i) /\ (i # 1 => f = <<Sign(i)>> /\ Len(f) = 1)
  <2>1. "," \in Char /\ ":" \in Char BY Piece, Zenon
  <2>2. Sign(i) \in Char BY <2>1, Zenon DEF Sign
  <2>3. CASE i = 1
    <3>1. f = <<>> BY <2>3 DEF Prefix
    <3>2. f \in Seq(Char) /\ Len(f) = 0
      <4>1. <<>> \in Seq(Char) BY EmptySeq, Zenon
      <4>2. Len(<<>>) = 0 BY <4>1, EmptySeq, Zenon
      <4> HIDE DEF f
      <4>3. QED BY <3>1, <4>1, <4>2, Zenon
    <3>3. Signs(i) = 0 BY <2>3 DEF Signs
    <3> HIDE DEF f
    <3>4. QED BY <2>3, <3>2, <3>3
  <2>4. CASE i # 1
    <3>1. i - 1 # 0 BY <2>4
    <3>2. f = <<Sign(i)>> BY <3>1, Zenon DEF Prefix, Sign
    <3>3. <<Sign(i)>> \in Seq(Char) /\ Len(<<Sign(i)>>) = 1 BY <2>2
    <3>4. QED BY <2>4, <3>2, <3>3, Zenon DEF Signs
  <2>5. QED BY <2>3, <2>4
<1> HIDE DEF w, f
<1>3. f \o w \in Seq(Char) /\ FollowedBy(f, w, f \o w) BY <1>1, <1>2, Joins
<1>4. Len(p) = Signs(i) + Len(w) BY <1>2, <1>3 DEF FollowedBy
<1>5. i # 1 => p[1] = Sign(i) /\ 1 \in 1..Len(p)
  <2>1. SUFFICES ASSUME i # 1 PROVE p[1] = Sign(i) /\ 1 \in 1..Len(p) OBVIOUS
  <2>2. 1 \in 1..1 /\ Len(f) = 1 /\ f[1] = Sign(i) BY <1>2, <2>1
  <2>3. 1 \in 1..(Len(f) + Len(w)) /\ p[1] = f[1] BY <2>2, <1>3 DEF FollowedBy
  <2>4. QED BY <2>2, <2>3, <1>3 DEF FollowedBy
<1>6. \A x \in 1..Len(w) : Signs(i) + x \in 1..Len(p) /\ p[Signs(i) + x] = w[x]
  BY <1>2, <1>3, Zenon DEF FollowedBy
<1>7. QED BY <1>3, <1>4, <1>5, <1>6 DEF w, f

\* The whole of what the writer writes: each string has its sign and its place.
LEMMA WrittenLaidOut ==
    ASSUME NEW strings \in Seq(Seq(Char)), Len(strings) # 0
    PROVE  /\ Written(strings) \in Seq(Char)
           /\ \E begin, place : LaidOut(strings, Written(strings), begin, place)
<1> DEFINE n == Len(strings)
           Part1(i) == Prefix(i - 1) \o WriteString(strings[i])
           s == [i \in DOMAIN strings |-> Part1(i)]
           all == FlattenSeq(s)
           t == Written(strings)
           one == <<OpeningBrace>>
           end == <<ClosingBrace>>
<1>1. DOMAIN strings = 1..n /\ n \in Nat /\ \A i \in 1..n : strings[i] \in Seq(Char)
  BY LenProperties, ElementOfSeq
<1>2. \A i \in 1..n : i \in Nat /\ i # 0 BY <1>1
<1>3. ASSUME NEW i \in 1..n
      PROVE  /\ Part1(i) \in Seq(Char) /\ Len(Part1(i)) = Signs(i) + Len(WriteString(strings[i]))
             /\ i # 1 => Part1(i)[1] = Sign(i) /\ 1 \in 1..Len(Part1(i))
             /\ \A x \in 1..Len(WriteString(strings[i])) :
                   Signs(i) + x \in 1..Len(Part1(i)) /\ Part1(i)[Signs(i) + x] = WriteString(strings[i])[x]
  BY <1>1, <1>2, PartParts
<1> HIDE DEF Part1
<1>4. s \in Seq(Seq(Char)) /\ Len(s) = n /\ \A i \in 1..n : s[i] = Part1(i)
  BY <1>1, <1>3
<1>5. PICK off : Offsets(s, off) BY <1>4, OffsetsExist
<1>6. all \in Seq(Char) /\ OneBehindOther(s, off, all)
  <2> HIDE DEF s
  <2>1. QED BY <1>4, <1>5, Flattened
<1>7. /\ off \in [1..(n + 1) -> Nat] /\ off[1] = 0 /\ Len(all) = off[n + 1]
      /\ \A i \in 1..n : off[i + 1] = off[i] + Len(Part1(i))
      /\ \A i \in 1..n : \A j \in 1..Len(Part1(i)) : off[i] + j \in 1..Len(all) /\ all[off[i] + j] = Part1(i)[j]
  <2> HIDE DEF s, all, n, Part1
  <2>1. off \in [1..(n + 1) -> Nat] /\ off[1] = 0 /\ Len(all) = off[n + 1]
    BY <1>4, <1>5, <1>6 DEF Offsets, OneBehindOther
  <2>2. \A i \in 1..n : off[i + 1] = off[i] + Len(Part1(i)) BY <1>4, <1>5 DEF Offsets
  <2>3. \A i \in 1..n : \A j \in 1..Len(Part1(i)) : off[i] + j \in 1..Len(all) /\ all[off[i] + j] = Part1(i)[j]
    <3>1. TAKE i \in 1..n
    <3>2. Len(s) = n /\ s[i] = Part1(i) BY <1>4
    <3>3. QED BY <3>2, <1>6, <2>1, Zenon DEF OneBehindOther
  <2>4. QED BY <2>1, <2>2, <2>3
<1>8. one \in Seq(Char) /\ Len(one) = 1 /\ one[1] = OpeningBrace
  <2>1. OpeningBrace \in Char BY Piece, Zenon DEF OpeningBrace
  <2>2. QED BY <2>1
<1>9. end \in Seq(Char) /\ Len(end) = 1 /\ end[1] = ClosingBrace
  <2>1. ClosingBrace \in Char BY Piece, Zenon DEF ClosingBrace
  <2>2. QED BY <2>1
<1>10. t = (one \o all) \o end BY Zenon DEF Written, OpeningBrace, ClosingBrace, Part1
<1>11. Len(all) \in Nat BY <1>6, LenProperties
<1> HIDE DEF s, all, t, one, end
<1> DEFINE k == Len(all)
<1>12. one \o all \in Seq(Char) /\ FollowedBy(one, all, one \o all) BY <1>6, <1>8, Joins
<1>13. t \in Seq(Char) /\ FollowedBy(one \o all, end, t) BY <1>9, <1>10, <1>12, Joins
<1>14. Len(one \o all) = 1 + k /\ Len(t) = k + 2 BY <1>8, <1>9, <1>11, <1>12, <1>13 DEF FollowedBy
<1>15. t[1] = OpeningBrace /\ t[k + 2] = ClosingBrace
  <2>1. 1 \in 1..1 /\ 1 \in 1..(1 + k) /\ (1 + k) + 1 = k + 2 BY <1>11
  <2>2. (one \o all)[1] = OpeningBrace BY <2>1, <1>8, <1>12 DEF FollowedBy
  <2>3. t[1] = (one \o all)[1] BY <2>1, <1>13, <1>14 DEF FollowedBy
  <2>4. t[k + 2] = end[1] BY <2>1, <1>9, <1>13, <1>14 DEF FollowedBy
  <2>5. QED BY <2>2, <2>3, <2>4, <1>9
<1>16. \A x \in 1..k : 1 + x \in 1..(k + 2) /\ t[1 + x] = all[x]
  <2>1. TAKE x \in 1..k
  <2>2. 1 + x \in 1..(1 + k) /\ 1 + x \in 1..(k + 2) BY <1>11
  <2>3. (one \o all)[1 + x] = all[x] BY <1>8, <1>12, Zenon DEF FollowedBy
  <2>4. t[1 + x] = (one \o all)[1 + x] BY <2>2, <1>13, <1>14 DEF FollowedBy
  <2>5. QED BY <2>2, <2>3, <2>4
<1> HIDE DEF k
<1>17. k \in Nat BY <1>11 DEF k
<1> DEFINE begin == [i \in 1..(n + 1) |-> 2 + off[i]]
<1>18. \A i \in 1..n : i \in 1..(n + 1) /\ i + 1 \in 1..(n + 1) BY <1>1
<1>19. \A i \in 1..(n + 1) : off[i] \in 0..k
  <2>1. ASSUME NEW i \in 1..n PROVE off[i] \in 0..k
    <3>1. Len(Part1(i)) # 0
      <4>1. Len(Body(strings[i])) \in Nat /\ Len(WriteString(strings[i])) = Len(Body(strings[i])) + 2
        BY <1>1, WriteStringParts
      <4>2. Signs(i) \in {0, 1} BY DEF Signs
      <4>3. QED BY <1>3, <4>1, <4>2
    <3>2. Len(Part1(i)) \in Nat BY <1>3, LenProperties
    <3>3. 1 \in 1..Len(Part1(i)) BY <3>1, <3>2
    <3>4. off[i] + 1 \in 1..k /\ off[i] \in Nat BY <3>3, <1>7, <1>18 DEF k
    <3>5. \A o \in Nat : o + 1 \in 1..k => o \in 0..k BY <1>17
    <3>6. QED BY <3>4, <3>5, <1>7
  <2>2. off[n + 1] \in 0..k BY <1>7, <1>17 DEF k
  <2>3. \A i \in 1..(n + 1) : i \in 1..n \/ i = n + 1 BY <1>1
  <2>4. QED BY <2>1, <2>2, <2>3
<1>20. begin \in [1..(n + 1) -> 1..Len(t)]
  <2>1. \A o \in 0..k : 2 + o \in 1..(k + 2) BY <1>17
  <2>2. QED BY <2>1, <1>14, <1>19 DEF k
<1>21. ASSUME NEW i \in 1..n
       PROVE  /\ i # 1 => t[begin[i]] = Sign(i)
              /\ \E pl : /\ QuotedAt(strings[i], t, begin[i] + Signs(i), pl)
                         /\ begin[i + 1] = pl[Len(strings[i]) + 1] + 1
  <2>1. begin[i] = 2 + off[i] /\ begin[i + 1] = 2 + off[i + 1] /\ off[i] \in Nat BY <1>18, <1>7
  <2>2. i # 1 => t[begin[i]] = Sign(i)
    <3>1. SUFFICES ASSUME i # 1 PROVE t[begin[i]] = Sign(i) OBVIOUS
    <3>2. 1 \in 1..Len(Part1(i)) /\ Part1(i)[1] = Sign(i) BY <3>1, <1>3
    <3>3. off[i] + 1 \in 1..k /\ all[off[i] + 1] = Sign(i) BY <3>2, <1>7 DEF k
    <3>4. t[1 + (off[i] + 1)] = Sign(i) BY <3>3, <1>16 DEF k
    <3>5. 1 + (off[i] + 1) = 2 + off[i]
      <4>1. \A o \in Nat : 1 + (o + 1) = 2 + o OBVIOUS
      <4>2. QED BY <4>1, <2>1
    <3>6. QED BY <2>1, <3>4, <3>5
  <2> DEFINE base == 1 + off[i] + Signs(i)
             w == WriteString(strings[i])
  <2>3. base \in Nat /\ Signs(i) \in Nat
    <3>1. Signs(i) \in Nat BY DEF Signs
    <3>2. \A o, g \in Nat : 1 + o + g \in Nat OBVIOUS
    <3>3. QED BY <2>1, <3>1, <3>2
  <2>4. ASSUME NEW x \in 1..Len(w) PROVE base + x \in 1..Len(t) /\ t[base + x] = w[x]
    <3>1. Signs(i) + x \in 1..Len(Part1(i)) /\ Part1(i)[Signs(i) + x] = w[x] BY <1>3
    <3>2. off[i] + (Signs(i) + x) \in 1..k /\ all[off[i] + (Signs(i) + x)] = w[x] BY <3>1, <1>7 DEF k
    <3>3. 1 + (off[i] + (Signs(i) + x)) \in 1..(k + 2) /\ t[1 + (off[i] + (Signs(i) + x))] = w[x] BY <3>2, <1>16 DEF k
    <3>4. x \in Nat BY <1>1, WriteStringParts, LenProperties
    <3>5. 1 + (off[i] + (Signs(i) + x)) = base + x
      <4>1. \A o, g, y \in Nat : 1 + (o + (g + y)) = 1 + o + g + y OBVIOUS
      <4>2. QED BY <4>1, <2>1, <2>3, <3>4
    <3>6. QED BY <3>3, <3>5, <1>14 DEF k
  <2> HIDE DEF base
  <2>5. PICK pl : QuotedAt(strings[i], t, base + 1, pl) /\ pl[Len(strings[i]) + 1] = base + Len(w)
    BY <1>1, <1>13, <2>3, <2>4, Quoted
  <2>6. base + 1 = begin[i] + Signs(i)
    <3>1. \A o, g \in Nat : 1 + o + g + 1 = 2 + o + g OBVIOUS
    <3>2. QED BY <3>1, <2>1, <2>3 DEF base
  <2>7. begin[i + 1] = base + Len(w) + 1
    <3>1. off[i + 1] = off[i] + (Signs(i) + Len(w)) BY <1>3, <1>7
    <3>2. Len(w) \in Nat BY <1>1, WriteStringParts, LenProperties
    <3>3. \A o, g, l \in Nat : 2 + (o + (g + l)) = 1 + o + g + l + 1 OBVIOUS
    <3>4. 2 + off[i + 1] = 1 + off[i] + Signs(i) + Len(w) + 1
      <4> HIDE DEF w
      <4>1. 2 + (off[i] + (Signs(i) + Len(w))) = 1 + off[i] + Signs(i) + Len(w) + 1 BY <2>1, <2>3, <3>2, <3>3
      <4>2. QED BY <3>1, <4>1, Zenon
    <3>5. QED BY <2>1, <3>4 DEF base
  <2>8. QED BY <2>2, <2>5, <2>6, <2>7
<1> HIDE DEF begin
<1> DEFINE Fits(i, pl) == /\ QuotedAt(strings[i], t, begin[i] + Signs(i), pl)
                          /\ begin[i + 1] = pl[Len(strings[i]) + 1] + 1
           place == [i \in 1..n |-> CHOOSE pl : Fits(i, pl)]
<1>22. \A i \in 1..n : Fits(i, place[i])
  <2>1. \A i \in 1..n : \E pl : Fits(i, pl) BY <1>21
  <2> HIDE DEF Fits
  <2>2. QED BY <2>1, Zenon
<1>23. begin[1] = 2 /\ begin[n + 1] = Len(t)
  <2>1. 1 \in 1..(n + 1) /\ n + 1 \in 1..(n + 1) BY <1>1
  <2>2. begin[1] = 2 + off[1] /\ begin[n + 1] = 2 + off[n + 1] BY <2>1 DEF begin
  <2>3. QED BY <2>2, <1>7, <1>14, <1>17 DEF k
<1>24. Len(t) \in Nat /\ t[Len(t)] = ClosingBrace BY <1>13, <1>14, <1>15, LenProperties DEF k
<1> HIDE DEF place
<1>25. LaidOut(strings, t, begin, place)
  BY <1>15, <1>20, <1>21, <1>22, <1>23, <1>24 DEF LaidOut, n
<1>26. QED BY <1>13, <1>25 DEF t

-----------------------------------------------------------------------------
(* Which call of the reader reads. *)

Comma == ","
ColonSign == ":"

\* The marks of JSON are told apart.
LEMMA Marks ==
    /\ OpeningBrace \in DOMAIN StartOf /\ StartOf[OpeningBrace] = "object"
    /\ OpeningBrace \notin Words /\ OpeningBrace # Quote /\ OpeningBrace # Nul
    /\ EndOf["object"] = ClosingBrace
    /\ ClosingBrace # Quote /\ ClosingBrace # Comma
    /\ Quote \notin Words /\ Quote \notin DOMAIN StartOf
    /\ {Quote, ColonSign, Comma, OpeningBrace, ClosingBrace} \cap Blank = {}
    /\ Quote # Backslash /\ Quote # Nul
<1>1. OpeningBrace \in DOMAIN StartOf /\ StartOf[OpeningBrace] = "object" BY Zenon DEF StartOf, OpeningBrace
<1>2. OpeningBrace \notin Words /\ OpeningBrace # Quote /\ OpeningBrace # Nul BY Zenon DEF OpeningBrace, Words, Quote, Nul
<1>3. EndOf["object"] = ClosingBrace BY DEF EndOf, ClosingBrace
<1>4. ClosingBrace # Quote /\ ClosingBrace # Comma BY Zenon DEF ClosingBrace, Quote, Comma
<1>5. Quote \notin Words /\ Quote \notin DOMAIN StartOf BY Zenon DEF Words, StartOf, Quote
<1>6. {Quote, ColonSign, Comma, OpeningBrace, ClosingBrace} \cap Blank = {}
  BY Zenon DEF Quote, ColonSign, Comma, OpeningBrace, ClosingBrace, Blank
<1>7. Quote # Backslash /\ Quote # Nul BY Zenon DEF Quote, Backslash, Nul
<1>8. QED BY <1>1, <1>2, <1>3, <1>4, <1>5, <1>6, <1>7

\* What is read next decides which call reads.
LEMMA Calls ==
    ASSUME JNext
    PROVE  /\ text' = text /\ Reading
           /\ expect = "value" => Literal \/ Start \/ StringStart \/ NumberStart
           /\ expect = "first" => First
           /\ expect = "name" => MemberName
           /\ expect \in {"key", "string"} => StringEnd \/ StringChar \/ StringEscape
           /\ expect = "colon" => Colon
           /\ expect = "separator" => Separator
           /\ expect = "root" => Root
           /\ expect # "end"
<1>1. text' = text BY DEF JNext
<1>2. CASE Literal BY <1>1, <1>2 DEF Literal, Reading
<1>3. CASE Start BY <1>1, <1>3 DEF Start, Reading
<1>4. CASE First BY <1>1, <1>4 DEF First, Reading
<1>5. CASE MemberName BY <1>1, <1>5 DEF MemberName, Reading
<1>6. CASE Colon
  <2>1. Reading /\ expect = "colon" BY <1>6, Zenon DEF Colon
  <2>2. QED BY <1>1, <1>6, <2>1 DEF Reading
<1>7. CASE Separator
  <2>1. Reading /\ expect = "separator" BY <1>7, Zenon DEF Separator
  <2>2. QED BY <1>1, <1>7, <2>1 DEF Reading
<1>8. CASE Root BY <1>1, <1>8 DEF Root, Reading
<1>9. CASE StringStart BY <1>1, <1>9 DEF StringStart, Reading
<1>10. CASE StringEnd BY <1>1, <1>10 DEF StringEnd, InString, Reading
<1>11. CASE StringChar BY <1>1, <1>11 DEF StringChar, InString, Reading
<1>12. CASE StringEscape BY <1>1, <1>12 DEF StringEscape, InString, Reading
<1>13. CASE NumberStart BY <1>1, <1>13 DEF NumberStart, Reading
<1>14. CASE Number BY <1>1, <1>14 DEF Number, Reading
<1>15. QED BY <1>2, <1>3, <1>4, <1>5, <1>6, <1>7, <1>8, <1>9, <1>10, <1>11, <1>12, <1>13, <1>14 DEF JNext

-----------------------------------------------------------------------------
(* The reader in such a text. *)

\* The values of the document when n strings have been read, and the whole object.
Text1(chars) == Value("string", chars, <<>>)
Doc(strings, n) == [p \in 1..(n + 1) |-> IF p = 1 THEN Scalar("object") ELSE Text1(strings[p - 1])]
Whole(strings) == Value("object", <<>>, [p \in 1..Len(strings) |-> Text1(strings[p])])

\* text is an object of n members as the writer writes it, none of its strings with a NUL.
Wrote(strings, n, begin, place) ==
    /\ n \in Nat /\ n # 0 /\ Len(strings) = 2 * n
    /\ strings \in Seq(Seq(Char)) /\ \A i \in 1..(2 * n) : \A j \in 1..Len(strings[i]) : strings[i][j] # Nul
    /\ text \in Seq(Char) /\ LaidOut(strings, text, begin, place)

\* Where the reader can be in it: in front of a name, in the i-th string, ...
AtBrace == expect = "value" /\ at = 1 /\ frames = <<>> /\ stack = <<>>
AtFirst(strings) == expect = "first" /\ at = 2 /\ frames = << <<"object", 0>> >> /\ stack = Doc(strings, 0)
Within(m) == frames = << <<"object", m>> >>
AtName(strings, begin, m) ==
    expect = "name" /\ at = begin[2 * m + 1] + Signs(2 * m + 1) /\ Within(m) /\ stack = Doc(strings, 2 * m)
AtString(strings, place, m, i) ==
    /\ Within(m) /\ stack = Doc(strings, i - 1)
    /\ \E j \in 1..(Len(strings[i]) + 1) : at = place[i][j] /\ token = SubSeq(strings[i], 1, j - 1)
AtColon(strings, begin, m) ==
    expect = "colon" /\ at = begin[2 * m + 2] /\ Within(m) /\ stack = Doc(strings, 2 * m + 1)
AtMember(strings, begin, m) ==
    expect = "value" /\ at = begin[2 * m + 2] + 1 /\ Within(m) /\ stack = Doc(strings, 2 * m + 1)
AtSeparator(strings, begin, m) ==
    expect = "separator" /\ at = begin[2 * m + 3] /\ Within(m) /\ stack = Doc(strings, 2 * m + 2)
AtTail(strings) == expect \in {"root", "end"} /\ at = Len(text) + 1 /\ frames = <<>> /\ stack = <<Whole(strings)>>

\* What stands where the i-th string begins and behind its end.
LEMMA WroteFacts ==
    ASSUME NEW strings, NEW n, NEW begin, NEW place, Wrote(strings, n, begin, place), NEW i \in 1..(2 * n)
    PROVE  /\ strings[i] \in Seq(Char) /\ Len(strings[i]) \in Nat /\ i \in 1..Len(strings) /\ i \in Nat
           /\ begin[i] \in Nat /\ begin[i] \in 1..Len(text) /\ begin[i + 1] \in 1..Len(text)
           /\ i # 1 => text[begin[i]] = Sign(i)
           /\ QuotedAt(strings[i], text, begin[i] + Signs(i), place[i])
           /\ begin[i + 1] = place[i][Len(strings[i]) + 1] + 1
           /\ Len(text) \in Nat
<1>1. strings \in Seq(Seq(Char)) /\ i \in 1..Len(strings) /\ Len(strings) \in Nat BY LenProperties DEF Wrote
<1>2. strings[i] \in Seq(Char) BY <1>1, ElementOfSeq
<1>3. Len(strings[i]) \in Nat BY <1>2, LenProperties
<1>4. LaidOut(strings, text, begin, place) BY DEF Wrote
<1>5. i \in 1..(Len(strings) + 1) /\ i + 1 \in 1..(Len(strings) + 1) BY <1>1
<1>6. begin[i] \in 1..Len(text) /\ begin[i + 1] \in 1..Len(text) /\ Len(text) \in Nat
  BY <1>4, <1>5 DEF LaidOut
<1>7. begin[i] \in Nat /\ i \in Nat
  <2>1. i \in Nat BY <1>1
  <2> DEFINE b == begin[i]
             l == Len(text)
  <2>2. b \in 1..l /\ l \in Nat BY <1>6
  <2> HIDE DEF b, l
  <2>3. b \in Nat BY <2>2
  <2>4. QED BY <2>1, <2>3 DEF b
<1>8. /\ i # 1 => text[begin[i]] = Sign(i)
      /\ QuotedAt(strings[i], text, begin[i] + Signs(i), place[i])
      /\ begin[i + 1] = place[i][Len(strings[i]) + 1] + 1
  BY <1>1, <1>4, Zenon DEF LaidOut
<1>9. QED BY <1>1, <1>2, <1>3, <1>6, <1>7, <1>8

\* A colon stands behind a name, a comma behind a value.
LEMMA SignFacts ==
    ASSUME NEW m \in Nat
    PROVE  Sign(2 * m + 2) = ColonSign /\ Sign(2 * m + 3) = Comma
<1>1. (2 * m + 2 - 1) % 2 = 1 /\ (2 * m + 3 - 1) % 2 = 0 OBVIOUS
<1>2. \A i : (i - 1) % 2 = 0 => Sign(i) = Comma BY Zenon DEF Sign, Comma
<1>3. \A i : (i - 1) % 2 # 0 => Sign(i) = ColonSign BY Zenon DEF Sign, ColonSign
<1>4. QED BY <1>1, <1>2, <1>3

\* white space follows no sign of the writer's
LEMMA NoBlank ==
    ASSUME NEW strings, NEW n, NEW begin, NEW place, Wrote(strings, n, begin, place), NEW i \in 1..(2 * n + 1)
    PROVE  /\ Skip(text, begin[i]) = begin[i]
           /\ i # 2 * n + 1 => Skip(text, begin[i] + Signs(i)) = begin[i] + Signs(i)
           /\ Skip(text, Len(text) + 1) = Len(text) + 1
<1>0. text \in Seq(Char) /\ Len(text) \in Nat /\ n \in Nat BY LenProperties DEF Wrote
<1>1. LaidOut(strings, text, begin, place) /\ Len(strings) = 2 * n BY DEF Wrote
<1>2. Skip(text, Len(text) + 1) = Len(text) + 1
  <2>1. Len(text) + 1 \in 1..(Len(text) + 1) /\ ~ (Len(text) + 1 <= Len(text)) BY <1>0
  <2>2. QED BY <1>0, <2>1, SkipNone
<1>3. CASE i = 2 * n + 1
  <2>1. begin[i] = Len(text) /\ text[begin[i]] = ClosingBrace /\ begin[i] \in 1..Len(text) BY <1>1, <1>3 DEF LaidOut
  <2>2. text[begin[i]] \notin Blank BY <2>1, Marks, Zenon
  <2>3. begin[i] \in 1..(Len(text) + 1) BY <2>1, <1>0
  <2>4. QED BY <2>2, <2>3, <1>0, <1>2, <1>3, SkipNone
<1>4. CASE i # 2 * n + 1
  <2>1. i \in 1..(2 * n) BY <1>4, <1>0
  <2>2. QuotedAt(strings[i], text, begin[i] + Signs(i), place[i]) /\ (i # 1 => text[begin[i]] = Sign(i)) /\ begin[i] \in 1..Len(text)
    BY <2>1, WroteFacts
  <2>3. begin[i] + Signs(i) \in 1..Len(text) /\ text[begin[i] + Signs(i)] = Quote BY <2>2 DEF QuotedAt
  <2>4. text[begin[i] + Signs(i)] \notin Blank BY <2>3, Marks, Zenon
  <2>5. begin[i] + Signs(i) \in 1..(Len(text) + 1) /\ begin[i] \in 1..(Len(text) + 1)
    <3> DEFINE q == begin[i] + Signs(i)
    <3>1. q \in 1..Len(text) BY <2>3
    <3> HIDE DEF q
    <3>2. q \in 1..(Len(text) + 1) BY <3>1, <1>0
    <3>3. begin[i] \in 1..(Len(text) + 1) BY <2>2, <1>0
    <3>4. QED BY <3>2, <3>3 DEF q
  <2>6. Skip(text, begin[i] + Signs(i)) = begin[i] + Signs(i) BY <2>4, <2>5, <1>0, SkipNone
  <2>7. text[begin[i]] \notin Blank
    <3>1. CASE i = 1
      <4>1. begin[i] + Signs(i) = begin[i] BY <3>1, <2>2, <1>0 DEF Signs
      <4>2. QED BY <4>1, <2>4
    <3>2. CASE i # 1
      <4>1. Sign(i) \in {ColonSign, Comma} BY Zenon DEF Sign, ColonSign, Comma
      <4>2. QED BY <4>1, <3>2, <2>2, Marks, Zenon
    <3>3. QED BY <3>1, <3>2
  <2>8. Skip(text, begin[i]) = begin[i] BY <2>5, <2>7, <1>0, SkipNone
  <2>9. QED BY <2>6, <2>8, <1>2
<1>5. QED BY <1>3, <1>4

\* One more string on the stack of values.
LEMMA DocFacts ==
    ASSUME NEW strings, NEW n \in Nat
    PROVE  /\ Doc(strings, n) \in Seq(Range(Doc(strings, n)))
           /\ Len(Doc(strings, n)) = n + 1 /\ Doc(strings, n)[1] = Scalar("object")
           /\ \A p \in 2..(n + 1) : Doc(strings, n)[p] = Text1(strings[p - 1])
           /\ Append(Doc(strings, n), Text1(strings[n + 1])) = Doc(strings, n + 1)
<1>1. Doc(strings, n) = [p \in 1..(n + 1) |-> IF p = 1 THEN Scalar("object") ELSE Text1(strings[p - 1])] BY DEF Doc
<1>2. DOMAIN Doc(strings, n) = 1..(n + 1) BY <1>1
<1>3. Doc(strings, n) \in Seq(Range(Doc(strings, n)))
  <2> DEFINE d == Doc(strings, n)
             all == Range(d)
  <2>1. \A p \in 1..(n + 1) : d[p] \in all BY <1>2 DEF Range
  <2>2. d = [p \in 1..(n + 1) |-> d[p]] BY <1>1
  <2> HIDE DEF d, all
  <2>3. d \in Seq(all) BY <2>1, <2>2
  <2>4. QED BY <2>3 DEF d, all
<1>4. Len(Doc(strings, n)) = n + 1 BY <1>2, <1>3, LenProperties
<1>5. Doc(strings, n)[1] = Scalar("object") BY <1>1
<1>6. \A p \in 2..(n + 1) : Doc(strings, n)[p] = Text1(strings[p - 1]) BY <1>1
<1>7. Append(Doc(strings, n), Text1(strings[n + 1])) = Doc(strings, n + 1)
  <2> DEFINE new == Text1(strings[n + 1])
             d == Doc(strings, n)
             e == Doc(strings, n + 1)
             all == Range(d) \cup {new} \cup Range(e)
  <2>1. e = [p \in 1..(n + 2) |-> IF p = 1 THEN Scalar("object") ELSE Text1(strings[p - 1])] BY DEF Doc
  <2>2. e \in Seq(all) /\ Len(e) = n + 2
    <3>1. DOMAIN e = 1..(n + 2) BY <2>1
    <3>2. \A p \in 1..(n + 2) : e[p] \in all BY <3>1 DEF Range
    <3>3. e = [p \in 1..(n + 2) |-> e[p]] BY <2>1
    <3> HIDE DEF e, all
    <3>4. QED BY <3>2, <3>3
  <2>3. d \in Seq(all) /\ Len(d) = n + 1
    <3>1. \A p \in 1..(n + 1) : d[p] \in all BY <1>2 DEF Range
    <3>2. d = [p \in 1..(n + 1) |-> d[p]] BY <1>1
    <3> HIDE DEF d, all
    <3>3. QED BY <3>1, <3>2
  <2>4. new \in all OBVIOUS
  <2>5. \A p \in 1..(n + 1) : e[p] = d[p] BY <1>1, <2>1
  <2>6. e[n + 2] = new
    <3>1. n + 2 \in 1..(n + 2) /\ n + 2 # 1 /\ n + 2 - 1 = n + 1 OBVIOUS
    <3>2. QED BY <2>1, <3>1
  <2> HIDE DEF new, d, e, all
  <2>7. Append(d, new) \in Seq(all) /\ Len(Append(d, new)) = n + 2
        /\ (\A p \in 1..(n + 1) : Append(d, new)[p] = d[p]) /\ Append(d, new)[n + 2] = new
    BY <2>3, <2>4, AppendProperties
  <2>8. \A p \in 1..(n + 2) : p \in 1..(n + 1) \/ p = n + 2 OBVIOUS
  <2>9. \A p \in 1..(n + 2) : Append(d, new)[p] = e[p] BY <2>5, <2>6, <2>7, <2>8
  <2>10. Append(d, new) = e BY <2>2, <2>7, <2>9, SeqEqual
  <2>11. QED BY <2>10 DEF new, d, e
<1>8. QED BY <1>3, <1>4, <1>5, <1>6, <1>7

\* What EndObject makes of the stack.
LEMMA WholeFacts ==
    ASSUME NEW strings \in Seq(Seq(Char))
    PROVE  Whole(strings) = [Doc(strings, Len(strings))[1] EXCEPT !.parts =
               SubSeq(Doc(strings, Len(strings)), 2, Len(strings) + 1)]
<1> DEFINE n == Len(strings)
           d == Doc(strings, n)
<1>0. n \in Nat BY LenProperties
<1>1. d[1] = Value("object", <<>>, <<>>) BY <1>0, DocFacts DEF Scalar
<1>2. SubSeq(d, 2, n + 1) = [p \in 1..n |-> Text1(strings[p])]
  <2>1. SubSeq(d, 2, n + 1) = [p \in 1..n |-> d[p + 1]] 
    <3>0. d \in Seq(Range(d)) /\ Len(d) = n + 1 BY <1>0, DocFacts
    <3> HIDE DEF d, n
    <3>1. SubSeq(d, 2, n + 1) = [p \in 1..(1 + (n + 1) - 2) |-> d[p + 2 - 1]] BY <3>0, <1>0
    <3>2. 1 + (n + 1) - 2 = n /\ \A p \in 1..n : p + 2 - 1 = p + 1 BY <1>0
    <3>3. QED BY <3>1, <3>2
  <2>2. \A p \in 1..n : d[p + 1] = Text1(strings[p])
    <3>1. \A p \in 1..n : p + 1 \in 2..(n + 1) /\ p + 1 - 1 = p BY <1>0
    <3>2. \A p \in 2..(n + 1) : d[p] = Text1(strings[p - 1]) BY <1>0, DocFacts
    <3> HIDE DEF d, n
    <3>3. TAKE p \in 1..n
    <3>4. PICK q \in 2..(n + 1) : q = p + 1 /\ q - 1 = p BY <3>1
    <3>5. QED BY <3>2, <3>4
  <2> HIDE DEF d, n
  <2>3. QED BY <2>1, <2>2
<1>3. \A q : [Value("object", <<>>, <<>>) EXCEPT !.parts = q] = Value("object", <<>>, q)
  BY DEF Value
<1>4. QED BY <1>1, <1>2, <1>3 DEF Whole

-----------------------------------------------------------------------------
(* Its steps. *)

\* The character at the position, or the NUL behind the last one.
LEMMA PeekAt ==
    ASSUME Len(text) \in Nat
    PROVE  /\ at \in 1..Len(text) => Peek = text[at]
           /\ at = Len(text) + 1 => Peek = Nul
BY DEF Peek, CharAt

\* The opening bracket.
LEMMA ReadBrace ==
    ASSUME NEW strings, NEW n, NEW begin, NEW place, Wrote(strings, n, begin, place),
           AtBrace, JNext
    PROVE  AtFirst(strings)' /\ error' = error
<1>1. text[1] = OpeningBrace /\ begin[1] = 2 /\ Len(text) \in Nat /\ n \in Nat /\ n # 0 BY DEF Wrote, LaidOut
<1>2. 1 \in 1..(2 * n) /\ 1 \in 1..(2 * n + 1) BY <1>1
<1>3. Len(text) # 0 /\ Skip(text, 2) = 2
  <2>1. begin[1] \in 1..Len(text) BY <1>2, WroteFacts
  <2>2. Skip(text, begin[1]) = begin[1] BY <1>2, NoBlank
  <2>3. QED BY <2>1, <2>2, <1>1
<1>4. Peek = OpeningBrace BY <1>1, <1>3, PeekAt DEF AtBrace
<1>5. Literal \/ Start \/ StringStart \/ NumberStart BY Calls DEF AtBrace
<1>6. Start
  <2>1. ~ Literal BY <1>4, Marks, Zenon DEF Literal
  <2>2. ~ StringStart BY <1>4, Marks, Zenon DEF StringStart
  <2>3. ~ NumberStart BY <1>4, Marks, Zenon DEF NumberStart
  <2>4. QED BY <1>5, <2>1, <2>2, <2>3
<1>7. /\ stack' = Append(stack, Scalar(StartOf[Peek])) /\ frames' = Append(frames, <<StartOf[Peek], 0>>)
      /\ at' = Skip(text, at + 1) /\ expect' = "first" /\ error' = error
  BY <1>6, Zenon DEF Start, Push, Consume
<1>8. StartOf[Peek] = "object" BY <1>4, Marks
<1>9. stack' = <<Scalar("object")>> /\ frames' = << <<"object", 0>> >> /\ at' = 2
  BY <1>3, <1>7, <1>8 DEF AtBrace
<1>10. <<Scalar("object")>> = Doc(strings, 0)
  <2>1. Doc(strings, 0) = [p \in 1..1 |-> IF p = 1 THEN Scalar("object") ELSE Text1(strings[p - 1])] BY DEF Doc
  <2>2. Doc(strings, 0) = [p \in 1..1 |-> Scalar("object")] BY <2>1
  <2>3. \A v : <<v>> = [p \in 1..1 |-> v] OBVIOUS
  <2>4. QED BY <2>2, <2>3, Zenon
<1>11. QED BY <1>7, <1>9, <1>10 DEF AtFirst

\* The object is not empty.
LEMMA ReadFirst ==
    ASSUME NEW strings, NEW n, NEW begin, NEW place, Wrote(strings, n, begin, place),
           AtFirst(strings), JNext
    PROVE  AtName(strings, begin, 0)' /\ error' = error
<1>1. begin[1] = 2 /\ Len(text) \in Nat /\ n \in Nat /\ n # 0 BY DEF Wrote, LaidOut
<1>2. 1 \in 1..(2 * n) /\ Signs(1) = 0 BY <1>1 DEF Signs
<1>3. QuotedAt(strings[1], text, begin[1] + Signs(1), place[1]) BY <1>2, WroteFacts
<1>4. begin[1] + Signs(1) = 2 BY <1>1, <1>2
<1>5. 2 \in 1..Len(text) /\ text[2] = Quote BY <1>3, <1>4 DEF QuotedAt
<1>6. Peek = Quote BY <1>1, <1>5, PeekAt DEF AtFirst
<1>7. Container = "object" BY DEF AtFirst, Container
<1>8. Peek # EndOf[Container] BY <1>6, <1>7, Marks
<1>9. expect' = Inside /\ UNCHANGED <<at, frames, token, stack, error>>
  <2>1. First BY Calls DEF AtFirst
  <2>2. QED BY <2>1, <1>8 DEF First
<1>10. Inside = "name" BY <1>7 DEF Inside
<1>11. UNCHANGED <<at, frames, stack, error>> BY <1>9
<1>12. 2 * 0 + 1 = 1 /\ 2 * 0 = 0 OBVIOUS
<1>13. QED BY <1>4, <1>9, <1>10, <1>11, <1>12 DEF AtName, AtFirst, Within

\* The opening quote of a name.
LEMMA ReadName ==
    ASSUME NEW strings, NEW n, NEW begin, NEW place, Wrote(strings, n, begin, place),
           NEW m \in 0..(n - 1), AtName(strings, begin, m), JNext
    PROVE  expect' = "key" /\ AtString(strings, place, m, 2 * m + 1)' /\ error' = error
<1> DEFINE i == 2 * m + 1
<1>0. n \in Nat /\ Len(text) \in Nat BY LenProperties DEF Wrote
<1>1. i \in 1..(2 * n) /\ i - 1 = 2 * m /\ i \in Nat BY <1>0
<1> HIDE DEF i
<1>2. QuotedAt(strings[i], text, begin[i] + Signs(i), place[i]) /\ Len(strings[i]) \in Nat BY <1>1, WroteFacts
<1>3. at = begin[i] + Signs(i) BY DEF AtName, i
<1>4. at \in 1..Len(text) /\ text[at] = Quote /\ place[i][1] = at + 1 BY <1>2, <1>3 DEF QuotedAt
<1>5. Peek = Quote BY <1>0, <1>4, PeekAt
<1>6. MemberName BY Calls DEF AtName
<1>7. token' = <<>> /\ expect' = "key" /\ at' = at + 1 /\ UNCHANGED <<frames, stack, error>>
  BY <1>5, <1>6, Zenon DEF MemberName, Advance
<1>8. frames' = frames /\ stack' = stack /\ error' = error BY <1>7
<1>9. 1 \in 1..(Len(strings[i]) + 1) /\ at' = place[i][1] /\ token' = SubSeq(strings[i], 1, 1 - 1)
  <2>1. SubSeq(strings[i], 1, 1 - 1) = <<>> 
    <3>1. strings[i] \in Seq(Char) BY <1>1, WroteFacts
    <3>2. QED BY <3>1, SubSeqEmpty
  <2>2. QED BY <2>1, <1>2, <1>4, <1>7
<1>10. Within(m)' /\ stack' = Doc(strings, i - 1) BY <1>1, <1>8 DEF AtName, Within
<1>11. AtString(strings, place, m, i)' BY <1>9, <1>10 DEF AtString
<1>12. QED BY <1>7, <1>8, <1>11 DEF i

\* The opening quote of a value.
LEMMA ReadMember ==
    ASSUME NEW strings, NEW n, NEW begin, NEW place, Wrote(strings, n, begin, place),
           NEW m \in 0..(n - 1), AtMember(strings, begin, m), JNext
    PROVE  expect' = "string" /\ AtString(strings, place, m, 2 * m + 2)' /\ error' = error
<1> DEFINE i == 2 * m + 2
<1>0. n \in Nat /\ Len(text) \in Nat BY LenProperties DEF Wrote
<1>1. i \in 1..(2 * n) /\ i - 1 = 2 * m + 1 /\ i \in Nat /\ Signs(i) = 1 BY <1>0 DEF Signs
<1> HIDE DEF i
<1>2. QuotedAt(strings[i], text, begin[i] + Signs(i), place[i]) /\ Len(strings[i]) \in Nat BY <1>1, WroteFacts
<1>3. at = begin[i] + Signs(i) BY <1>1 DEF AtMember, i
<1>4. at \in 1..Len(text) /\ text[at] = Quote /\ place[i][1] = at + 1 BY <1>2, <1>3 DEF QuotedAt
<1>5. Peek = Quote BY <1>0, <1>4, PeekAt
<1>6. StringStart
  <2>1. Literal \/ Start \/ StringStart \/ NumberStart BY Calls DEF AtMember
  <2>2. ~ Literal BY <1>5, Marks, Zenon DEF Literal
  <2>3. ~ Start BY <1>5, Marks, Zenon DEF Start
  <2>4. ~ NumberStart BY <1>5, Marks, Zenon DEF NumberStart
  <2>5. QED BY <2>1, <2>2, <2>3, <2>4
<1>7. token' = <<>> /\ expect' = "string" /\ at' = at + 1 /\ frames' = frames /\ stack' = stack /\ error' = error
  BY <1>6 DEF StringStart, Advance
<1>9. 1 \in 1..(Len(strings[i]) + 1) /\ at' = place[i][1] /\ token' = SubSeq(strings[i], 1, 1 - 1)
  <2>1. SubSeq(strings[i], 1, 1 - 1) = <<>> 
    <3>1. strings[i] \in Seq(Char) BY <1>1, WroteFacts
    <3>2. QED BY <3>1, SubSeqEmpty
  <2>2. QED BY <2>1, <1>2, <1>4, <1>7
<1>10. Within(m)' /\ stack' = Doc(strings, i - 1) BY <1>1, <1>7 DEF AtMember, Within
<1>11. AtString(strings, place, m, i)' BY <1>9, <1>10 DEF AtString
<1>12. QED BY <1>7, <1>11 DEF i

\* A prefix and the next character are the next prefix.
LEMMA PrefixGrows ==
    ASSUME NEW C, NEW w \in Seq(C), NEW j \in 1..Len(w)
    PROVE  Append(SubSeq(w, 1, j - 1), w[j]) = SubSeq(w, 1, j)
<1>0. Len(w) \in Nat BY LenProperties
<1>1. SubSeq(w, 1, j - 1) \in Seq(C) /\ Len(SubSeq(w, 1, j - 1)) = j - 1
      /\ \A x \in 1..(j - 1) : SubSeq(w, 1, j - 1)[x] = w[x]
  <2>1. SubSeq(w, 1, j - 1) = [x \in 1..(j - 1) |-> w[x]] BY <1>0
  <2>2. \A x \in 1..(j - 1) : w[x] \in C BY <1>0, ElementOfSeq
  <2>3. j - 1 \in Nat BY <1>0
  <2>4. QED BY <2>1, <2>2, <2>3
<1>2. SubSeq(w, 1, j) \in Seq(C) /\ Len(SubSeq(w, 1, j)) = j
      /\ \A x \in 1..j : SubSeq(w, 1, j)[x] = w[x]
  <2>1. SubSeq(w, 1, j) = [x \in 1..j |-> w[x]] BY <1>0
  <2>2. \A x \in 1..j : w[x] \in C BY <1>0, ElementOfSeq
  <2>3. QED BY <2>1, <2>2, <1>0
<1>3. w[j] \in C BY <1>0, ElementOfSeq
<1> DEFINE a == SubSeq(w, 1, j - 1)
           b == SubSeq(w, 1, j)
           c == w[j]
<1> HIDE DEF a, b, c
<1>4. a \in Seq(C) /\ Len(a) = j - 1 /\ c \in C BY <1>1, <1>3 DEF a, c
<1>5. Append(a, c) \in Seq(C) /\ Len(Append(a, c)) = j /\ Append(a, c)[j] = c
      /\ \A x \in 1..(j - 1) : Append(a, c)[x] = a[x]
  BY <1>4, <1>0, AppendProperties
<1>6. \A x \in 1..j : x = j \/ x \in 1..(j - 1) BY <1>0
<1>7. j \in 1..j BY <1>0
<1>8. \A x \in 1..j : Append(a, c)[x] = b[x] BY <1>1, <1>2, <1>5, <1>6, <1>7 DEF a, b, c
<1>9. Append(a, c) = b BY <1>2, <1>5, <1>8, SeqEqual DEF b
<1>10. QED BY <1>9 DEF a, b, c

\* A string is read character by character, and its closing quote puts it on the stack.
LEMMA ReadString ==
    ASSUME NEW strings, NEW n, NEW begin, NEW place, Wrote(strings, n, begin, place),
           NEW m \in Nat, NEW i \in 1..(2 * n), AtString(strings, place, m, i), JNext,
           expect \in {"key", "string"}
    PROVE  /\ error' = error
           /\ \/ expect' = expect /\ AtString(strings, place, m, i)'
              \/ /\ expect' = IF expect = "key" THEN "colon" ELSE "separator"
                 /\ Within(m)' /\ stack' = Doc(strings, i) /\ at' = begin[i + 1]
<1> DEFINE w == strings[i]
<1>0. Len(text) \in Nat /\ text \in Seq(Char) BY LenProperties DEF Wrote
<1>1. /\ w \in Seq(Char) /\ Len(w) \in Nat /\ QuotedAt(w, text, begin[i] + Signs(i), place[i])
      /\ begin[i + 1] = place[i][Len(w) + 1] + 1 /\ i \in Nat
  BY WroteFacts
<1>2. StringEnd \/ StringChar \/ StringEscape BY Calls
<1>3. InString BY Calls DEF InString
<1>4. PICK j \in 1..(Len(w) + 1) : at = place[i][j] /\ token = SubSeq(w, 1, j - 1) BY DEF AtString
<1>5. at \in 1..Len(text) BY <1>1, <1>4 DEF QuotedAt
<1>6. Within(m) /\ stack = Doc(strings, i - 1) BY DEF AtString
<1>7. CASE j \in 1..Len(w)
  <2> DEFINE c == w[j]
  <2>1. c # Nul /\ c \in Char
    <3>1. \A k \in 1..Len(strings[i]) : strings[i][k] # Nul BY DEF Wrote
    <3>2. QED BY <3>1, <1>1, <1>7, ElementOfSeq
  <2>2. /\ place[i][j + 1] = place[i][j] + Len(Escaped(c))
        /\ \A x \in 1..Len(Escaped(c)) : at + x - 1 \in 1..Len(text) /\ text[at + x - 1] = Escaped(c)[x]
    BY <1>1, <1>4, <1>7 DEF QuotedAt
  <2>3. \A x \in 1..Len(Escaped(c)) : CharAt(at + x - 1) = Escaped(c)[x]
    <3>1. TAKE x \in 1..Len(Escaped(c))
    <3> DEFINE y == at + x - 1
    <3>2. y \in 1..Len(text) /\ text[y] = Escaped(c)[x] BY <2>2
    <3> HIDE DEF y
    <3>3. y <= Len(text) BY <3>2, <1>0
    <3>4. CharAt(y) = Escaped(c)[x] BY <3>2, <3>3 DEF CharAt
    <3>5. QED BY <3>4 DEF y
  <2>4. at \in Nat BY <1>0, <1>5
  <2> HIDE DEF c
  <2>5. Put(c, Len(Escaped(c))) BY <1>2, <1>3, <2>1, <2>3, <2>4, EscapedRead
  <2>6. token' = Append(token, c) /\ at' = at + Len(Escaped(c)) /\ UNCHANGED <<frames, expect, stack, error>>
    BY <2>5 DEF Put
  <2>7. frames' = frames /\ expect' = expect /\ stack' = stack /\ error' = error BY <2>6
  <2>8. at' = place[i][j + 1] BY <2>2, <2>6, <1>4
  <2>9. token' = SubSeq(w, 1, j + 1 - 1)
    <3>1. token' = SubSeq(w, 1, j) BY <2>6, <1>1, <1>4, <1>7, PrefixGrows DEF c
    <3>2. j + 1 - 1 = j BY <1>1
    <3>3. QED BY <3>1, <3>2
  <2>10. j + 1 \in 1..(Len(w) + 1) BY <1>1, <1>7
  <2>11. AtString(strings, place, m, i)'
    <3>1. Within(m)' /\ stack' = Doc(strings, i - 1) BY <2>7, <1>6 DEF Within
    <3>2. \E k \in 1..(Len(strings[i]) + 1) : at' = place[i][k] /\ token' = SubSeq(strings[i], 1, k - 1)
      <4> DEFINE k == j + 1
      <4>1. k \in 1..(Len(strings[i]) + 1) /\ at' = place[i][k] /\ token' = SubSeq(strings[i], 1, k - 1)
        BY <2>8, <2>9, <2>10
      <4> HIDE DEF k
      <4>2. QED BY <4>1
    <3>3. QED BY <3>1, <3>2 DEF AtString
  <2>12. QED BY <2>7, <2>11
<1>8. CASE j = Len(w) + 1
  <2>1. text[at] = Quote BY <1>1, <1>4, <1>8 DEF QuotedAt
  <2>2. Peek = Quote BY <2>1, <1>0, <1>5, PeekAt
  <2>3. StringEnd
    <3>1. ~ StringChar BY <2>2, Zenon DEF StringChar
    <3>2. ~ StringEscape BY <2>2, Marks, Zenon DEF StringEscape
    <3>3. QED BY <1>2, <3>1, <3>2
  <2>4. /\ stack' = Append(stack, Value("string", token, <<>>)) /\ at' = Skip(text, at + 1)
        /\ expect' = (IF expect = "key" THEN "colon" ELSE Behind) /\ frames' = frames /\ error' = error
    BY <2>3 DEF StringEnd, Push, Consume, Behind
  <2>5. Behind = "separator" BY <1>6 DEF Behind, Within
  <2>6. token = w
    <3>1. token = SubSeq(w, 1, Len(w)) BY <1>1, <1>4, <1>8
    <3>2. QED BY <3>1, <1>1, SubSeqFull
  <2>7. stack' = Doc(strings, i)
    <3>1. i - 1 \in Nat /\ i - 1 + 1 = i BY <1>1
    <3>2. Append(Doc(strings, i - 1), Text1(strings[i - 1 + 1])) = Doc(strings, i - 1 + 1) BY <3>1, DocFacts
    <3>3. stack' = Append(Doc(strings, i - 1), Text1(w)) BY <2>4, <2>6, <1>6 DEF Text1
    <3>4. QED BY <3>1, <3>2, <3>3
  <2>8. at' = begin[i + 1]
    <3>1. at + 1 = begin[i + 1] BY <1>1, <1>4, <1>8
    <3>2. i + 1 \in 1..(2 * n + 1)
      <4>1. n \in Nat BY DEF Wrote
      <4>2. i \in Nat /\ i \in 1..(2 * n) BY <1>1
      <4>3. QED BY <4>1, <4>2
    <3>3. Skip(text, begin[i + 1]) = begin[i + 1] BY <3>2, NoBlank
    <3>4. QED BY <2>4, <3>1, <3>3
  <2>9. Within(m)' BY <2>4, <1>6 DEF Within
  <2>10. QED BY <2>4, <2>5, <2>7, <2>8, <2>9
<1>9. QED
  <2>1. j \in 1..Len(w) \/ j = Len(w) + 1 BY <1>1
  <2>2. QED BY <1>7, <1>8, <2>1

\* The colon between a name and its value.
LEMMA ReadColon ==
    ASSUME NEW strings, NEW n, NEW begin, NEW place, Wrote(strings, n, begin, place),
           NEW m \in 0..(n - 1), AtColon(strings, begin, m), JNext
    PROVE  AtMember(strings, begin, m)' /\ error' = error
<1> DEFINE i == 2 * m + 2
<1>0. n \in Nat /\ Len(text) \in Nat BY LenProperties DEF Wrote
<1>1. i \in 1..(2 * n) /\ i \in 1..(2 * n + 1) /\ i # 2 * n + 1 /\ i # 1 /\ Signs(i) = 1 /\ m \in Nat BY <1>0 DEF Signs
<1>2. Sign(i) = ColonSign BY <1>1, SignFacts
<1> HIDE DEF i
<1>3. at = begin[i] BY DEF AtColon, i
<1>4. begin[i] \in 1..Len(text) /\ text[begin[i]] = Sign(i) BY <1>1, WroteFacts
<1>5. Peek = ColonSign BY <1>0, <1>2, <1>3, <1>4, PeekAt
<1>6. Skip(text, begin[i] + 1) = begin[i] + 1 BY <1>1, NoBlank
<1>7. Colon BY Calls DEF AtColon
<1>8. at' = Skip(text, at + 1) /\ expect' = "value" /\ UNCHANGED <<frames, token, stack, error>>
  BY <1>5, <1>7, Zenon DEF Colon, Consume, ColonSign
<1>9. frames' = frames /\ stack' = stack /\ error' = error BY <1>8
<1>10. at' = begin[i] + 1 BY <1>3, <1>6, <1>8
<1>11. QED BY <1>8, <1>9, <1>10 DEF AtMember, AtColon, Within, i

\* The comma between two members.
LEMMA ReadComma ==
    ASSUME NEW strings, NEW n, NEW begin, NEW place, Wrote(strings, n, begin, place),
           NEW m \in 0..(n - 1), m # n - 1, AtSeparator(strings, begin, m), JNext
    PROVE  AtName(strings, begin, m + 1)' /\ error' = error
<1> DEFINE i == 2 * m + 3
<1>0. n \in Nat /\ Len(text) \in Nat BY LenProperties DEF Wrote
<1>1. i \in 1..(2 * n) /\ i \in 1..(2 * n + 1) /\ i # 2 * n + 1 /\ i # 1 /\ Signs(i) = 1 /\ m \in Nat BY <1>0 DEF Signs
<1>2. Sign(i) = Comma BY <1>1, SignFacts
<1> HIDE DEF i
<1>3. at = begin[i] BY DEF AtSeparator, i
<1>4. begin[i] \in 1..Len(text) /\ text[begin[i]] = Sign(i) BY <1>1, WroteFacts
<1>5. Peek = Comma BY <1>0, <1>2, <1>3, <1>4, PeekAt
<1>6. Skip(text, begin[i] + 1) = begin[i] + 1 BY <1>1, NoBlank
<1>7. Separator BY Calls DEF AtSeparator
<1>8. /\ frames' = [frames EXCEPT ![Len(frames)][2] = @ + 1]
      /\ at' = Skip(text, at + 1) /\ expect' = Inside /\ UNCHANGED <<token, stack, error>>
  BY <1>5, <1>7, Zenon DEF Separator, Consume, Comma
<1>9. stack' = stack /\ error' = error BY <1>8
<1>10. at' = begin[i] + 1 BY <1>3, <1>6, <1>8
<1>11. frames = << <<"object", m>> >> BY DEF AtSeparator, Within
<1>12. expect' = "name" BY <1>8, <1>11 DEF Inside, Container
<1>13. frames' = << <<"object", m + 1>> >> BY <1>8, <1>11
<1>14. 2 * (m + 1) + 1 = i /\ 2 * (m + 1) = 2 * m + 2 BY <1>1 DEF i
<1>15. QED BY <1>1, <1>9, <1>10, <1>12, <1>13, <1>14 DEF AtName, AtSeparator, Within

\* The closing bracket: the document is one object with everything that was read.
LEMMA ReadClosing ==
    ASSUME NEW strings, NEW n, NEW begin, NEW place, Wrote(strings, n, begin, place),
           NEW m \in 0..(n - 1), m = n - 1, AtSeparator(strings, begin, m), JNext
    PROVE  AtTail(strings)' /\ error' = error
<1>0. n \in Nat /\ Len(text) \in Nat /\ Len(strings) = 2 * n BY LenProperties DEF Wrote
<1>1. 2 * m + 3 = 2 * n + 1 /\ 2 * m + 2 = 2 * n /\ m + 1 = n BY <1>0
<1>2. begin[2 * n + 1] = Len(text) /\ text[Len(text)] = ClosingBrace /\ Len(text) \in 1..Len(text)
  <2>1. LaidOut(strings, text, begin, place) BY DEF Wrote
  <2>2. begin[2 * n + 1] = Len(text) /\ text[Len(text)] = ClosingBrace BY <2>1, <1>0 DEF LaidOut
  <2>3. 2 * n \in 1..(2 * n) BY <1>0
  <2>4. begin[2 * n + 1] \in 1..Len(text) BY <2>3, WroteFacts
  <2>5. QED BY <2>2, <2>4
<1>3. at = Len(text) /\ stack = Doc(strings, 2 * n) /\ frames = << <<"object", m>> >>
  BY <1>1, <1>2 DEF AtSeparator, Within
<1>4. Peek = ClosingBrace BY <1>0, <1>2, <1>3, PeekAt
<1>5. Skip(text, Len(text) + 1) = Len(text) + 1
  <2>1. 1 \in 1..(2 * n + 1) BY <1>0
  <2>2. QED BY <2>1, NoBlank
<1>6. Separator BY Calls DEF AtSeparator
<1>7. Container = "object" /\ Seen = m /\ Len(frames) = 1 BY <1>3 DEF Container, Seen
<1>8. Peek = EndOf[Container] /\ Peek # Comma BY <1>4, <1>7, Marks
<1>9. Close(Seen + 1)
  BY <1>6, <1>8, Zenon DEF Separator, Comma
<1>10. Held(Seen + 1) = 2 * n BY <1>1, <1>7 DEF Held
<1>11. PICK below : below = Len(stack) - Held(Seen + 1) /\
          stack' = Append(SubSeq(stack, 1, below - 1),
                       [stack[below] EXCEPT !.parts = SubSeq(stack, below + 1, Len(stack))])
  BY <1>9 DEF Close
<1>12. frames' = Front(frames) /\ at' = Skip(text, at + 1) /\ expect' = "root" /\ error' = error
  BY <1>7, <1>9 DEF Close, Consume
<1>13. stack' = <<Whole(strings)>>
  <2> DEFINE d == Doc(strings, 2 * n)
             all == Range(d)
  <2>1. d \in Seq(all) /\ Len(d) = 2 * n + 1
    <3>1. 2 * n \in Nat BY <1>0
    <3>2. QED BY <3>1, DocFacts
  <2>2. strings \in Seq(Seq(Char)) BY DEF Wrote
  <2>3. Whole(strings) = [d[1] EXCEPT !.parts = SubSeq(d, 2, 2 * n + 1)] BY <2>2, <1>0, WholeFacts
  <2> HIDE DEF d, all
  <2>4. stack = d BY <1>3 DEF d
  <2>5. below = 1 BY <1>0, <1>10, <1>11, <2>1, <2>4
  <2>6. SubSeq(d, 1, 1 - 1) = <<>> BY <2>1, SubSeqEmpty
  <2>7. stack' = Append(<<>>, [d[1] EXCEPT !.parts = SubSeq(d, 1 + 1, 2 * n + 1)])
    BY <1>11, <2>1, <2>4, <2>5, <2>6
  <2>8. stack' = Append(<<>>, Whole(strings)) BY <2>3, <2>7
  <2>9. QED BY <2>8
<1>14. frames' = <<>> BY <1>3, <1>12 DEF Front
<1>15. text' = text BY Calls
<1>16. QED BY <1>3, <1>5, <1>12, <1>13, <1>14, <1>15 DEF AtTail

\* Nothing follows the object.
LEMMA ReadTail ==
    ASSUME NEW strings, NEW n, NEW begin, NEW place, Wrote(strings, n, begin, place), AtTail(strings), JNext
    PROVE  AtTail(strings)' /\ error' = error
<1>0. Len(text) \in Nat BY LenProperties DEF Wrote
<1>1. Peek = Nul BY <1>0, PeekAt DEF AtTail
<1>2. Root /\ text' = text BY Calls DEF AtTail
<1>3. expect' = "end" /\ UNCHANGED <<at, frames, token, stack, error>> BY <1>1, <1>2 DEF Root
<1>4. QED BY <1>2, <1>3 DEF AtTail

ReaderAt(strings, n, begin, place) ==
    /\ error = kParseErrorNone
    /\ \/ AtBrace \/ AtFirst(strings) \/ AtTail(strings)
       \/ \E m \in 0..(n - 1) :
             \/ AtName(strings, begin, m) \/ AtColon(strings, begin, m)
             \/ AtMember(strings, begin, m) \/ AtSeparator(strings, begin, m)
             \/ expect = "key" /\ AtString(strings, place, m, 2 * m + 1)
             \/ expect = "string" /\ AtString(strings, place, m, 2 * m + 2)

\* Whatever the reader does in a text the writer wrote, it stays in step with it.
LEMMA ReaderStep ==
    ASSUME NEW strings, NEW n, NEW begin, NEW place, Wrote(strings, n, begin, place),
           ReaderAt(strings, n, begin, place), JNext
    PROVE  Wrote(strings, n, begin, place)' /\ ReaderAt(strings, n, begin, place)'
<1>0. text' = text /\ n \in Nat /\ n # 0 BY Calls DEF Wrote
<1>1. Wrote(strings, n, begin, place)' BY <1>0 DEF Wrote
<1>2. error = kParseErrorNone BY DEF ReaderAt
<1>3. CASE AtBrace
  <2>1. AtFirst(strings)' /\ error' = error BY <1>3, ReadBrace
  <2>2. QED BY <1>1, <1>2, <2>1 DEF ReaderAt
<1>4. CASE AtFirst(strings)
  <2>1. AtName(strings, begin, 0)' /\ error' = error BY <1>4, ReadFirst
  <2>2. 0 \in 0..(n - 1) BY <1>0
  <2>3. QED BY <1>1, <1>2, <2>1, <2>2 DEF ReaderAt
<1>5. CASE AtTail(strings)
  <2>1. AtTail(strings)' /\ error' = error BY <1>5, ReadTail
  <2>2. QED BY <1>1, <1>2, <2>1 DEF ReaderAt
<1>6. ASSUME NEW m \in 0..(n - 1), AtName(strings, begin, m) PROVE ReaderAt(strings, n, begin, place)'
  <2>1. expect' = "key" /\ AtString(strings, place, m, 2 * m + 1)' /\ error' = error BY <1>6, ReadName
  <2>2. QED BY <1>2, <2>1 DEF ReaderAt
<1>7. ASSUME NEW m \in 0..(n - 1), AtColon(strings, begin, m) PROVE ReaderAt(strings, n, begin, place)'
  <2>1. AtMember(strings, begin, m)' /\ error' = error BY <1>7, ReadColon
  <2>2. QED BY <1>2, <2>1 DEF ReaderAt
<1>8. ASSUME NEW m \in 0..(n - 1), AtMember(strings, begin, m) PROVE ReaderAt(strings, n, begin, place)'
  <2>1. expect' = "string" /\ AtString(strings, place, m, 2 * m + 2)' /\ error' = error BY <1>8, ReadMember
  <2>2. QED BY <1>2, <2>1 DEF ReaderAt
<1>9. ASSUME NEW m \in 0..(n - 1), AtSeparator(strings, begin, m) PROVE ReaderAt(strings, n, begin, place)'
  <2>1. CASE m # n - 1
    <3>1. AtName(strings, begin, m + 1)' /\ error' = error BY <1>9, <2>1, ReadComma
    <3>2. m + 1 \in 0..(n - 1) BY <1>0, <2>1
    <3>3. QED BY <1>2, <3>1, <3>2 DEF ReaderAt
  <2>2. CASE m = n - 1
    <3>1. AtTail(strings)' /\ error' = error BY <1>9, <2>2, ReadClosing
    <3>2. QED BY <1>2, <3>1 DEF ReaderAt
  <2>3. QED BY <2>1, <2>2
<1>10. ASSUME NEW m \in 0..(n - 1), expect = "key", AtString(strings, place, m, 2 * m + 1)
       PROVE  ReaderAt(strings, n, begin, place)'
  <2> DEFINE i == 2 * m + 1
  <2>1. i \in 1..(2 * n) /\ m \in Nat /\ i + 1 = 2 * m + 2 BY <1>0
  <2>2. AtString(strings, place, m, i) /\ expect \in {"key", "string"} BY <1>10
  <2> HIDE DEF i
  <2>3. /\ error' = error
        /\ \/ expect' = expect /\ AtString(strings, place, m, i)'
           \/ /\ expect' = IF expect = "key" THEN "colon" ELSE "separator"
              /\ Within(m)' /\ stack' = Doc(strings, i) /\ at' = begin[i + 1]
    BY <2>1, <2>2, ReadString
  <2>4. CASE expect' = expect /\ AtString(strings, place, m, i)'
    <3>1. expect' = "key" /\ AtString(strings, place, m, 2 * m + 1)' BY <1>10, <2>4 DEF i
    <3>2. QED BY <1>2, <2>3, <3>1 DEF ReaderAt
  <2>5. CASE expect' = "colon" /\ Within(m)' /\ stack' = Doc(strings, i) /\ at' = begin[i + 1]
    <3>1. AtColon(strings, begin, m)' BY <2>1, <2>5 DEF AtColon, Within, i
    <3>2. QED BY <1>2, <2>3, <3>1 DEF ReaderAt
  <2>6. QED BY <1>10, <2>3, <2>4, <2>5
<1>11. ASSUME NEW m \in 0..(n - 1), expect = "string", AtString(strings, place, m, 2 * m + 2)
       PROVE  ReaderAt(strings, n, begin, place)'
  <2> DEFINE i == 2 * m + 2
  <2>1. i \in 1..(2 * n) /\ m \in Nat /\ i + 1 = 2 * m + 3 BY <1>0
  <2>2. AtString(strings, place, m, i) /\ expect \in {"key", "string"} BY <1>11
  <2> HIDE DEF i
  <2>3. /\ error' = error
        /\ \/ expect' = expect /\ AtString(strings, place, m, i)'
           \/ /\ expect' = IF expect = "key" THEN "colon" ELSE "separator"
              /\ Within(m)' /\ stack' = Doc(strings, i) /\ at' = begin[i + 1]
    BY <2>1, <2>2, ReadString
  <2>4. CASE expect' = expect /\ AtString(strings, place, m, i)'
    <3>1. expect' = "string" /\ AtString(strings, place, m, 2 * m + 2)' BY <1>11, <2>4 DEF i
    <3>2. QED BY <1>2, <2>3, <3>1 DEF ReaderAt
  <2>5. CASE expect' = "separator" /\ Within(m)' /\ stack' = Doc(strings, i) /\ at' = begin[i + 1]
    <3>1. AtSeparator(strings, begin, m)' BY <2>1, <2>5 DEF AtSeparator, Within, i
    <3>2. QED BY <1>2, <2>3, <3>1 DEF ReaderAt
  <2>6. QED BY <1>11, <2>3, <2>4, <2>5
<1>12. QED BY <1>1, <1>3, <1>4, <1>5, <1>6, <1>7, <1>8, <1>9, <1>10, <1>11 DEF ReaderAt

-----------------------------------------------------------------------------
(* What ThInit writes and ThInfo shows. *)

\* What main's strings are once init was told.
Answered == answers \in [Range(Field) -> Seq(Char)]

\* The members of the project file are told apart by their names.
LEMMA Members ==
    /\ DOMAIN Member = 1..8 /\ DOMAIN Field = 1..8 /\ Len(Member) = 8
    /\ \A k \in 1..8 : /\ Field[k] \in Range(Field) /\ Member[k] \in Range(Member)
                       /\ Member[k] \in Char /\ Member[k] # Nul
    /\ \A f \in Range(Field) : \E k \in 1..8 : f = Field[k]
    /\ \A k, l \in 1..8 : Member[k] = Member[l] => k = l
    /\ \A m \in Range(Member) : \E k \in 1..8 : m = Member[k]
<1>1. DOMAIN Member = 1..8 /\ DOMAIN Field = 1..8 /\ Len(Member) = 8 BY DEF Member, Field
<1>2. \A k \in 1..8 : Field[k] \in Range(Field) /\ Member[k] \in Range(Member) BY <1>1 DEF Range
<1>3. \A k \in 1..8 : Member[k] # Nul BY DEF Member, Nul
<1>4. \A k \in 1..8 : Member[k] \in Char
  <2>1. Range(Member) \subseteq Char BY Piece, Zenon
  <2>2. \A m \in Range(Member) : m \in Char BY <2>1
  <2>3. QED BY <1>2, <2>2, Zenon
<1>5. \A f \in Range(Field) : \E k \in 1..8 : f = Field[k] BY <1>1 DEF Range
<1>6. \A m \in Range(Member) : \E k \in 1..8 : m = Member[k] BY <1>1 DEF Range
<1>7. \A k, l \in 1..8 : Member[k] = Member[l] => k = l BY DEF Member
<1>8. QED BY <1>1, <1>2, <1>3, <1>4, <1>5, <1>6, <1>7

\* The strings ThInit writes are text without a NUL.
LEMMA ToldFacts ==
    ASSUME Answered
    PROVE  /\ Told \in Seq(Seq(Char)) /\ Len(Told) = 16
           /\ \A i \in 1..16 : \A j \in 1..Len(Told[i]) : Told[i][j] # Nul
           /\ \A k \in 1..8 : /\ Told[2 * k - 1] = <<Member[k]>>
                              /\ Told[2 * k] = CStr(answers[Field[k]])
                              /\ answers[Field[k]] \in Seq(Char)
<1>1. Told = [i \in 1..16 |->
            IF i % 2 = 1 THEN <<Member[(i + 1) \div 2]>> ELSE CStr(answers[Field[i \div 2]])]
  BY Members DEF Told
<1>2. \A k \in 1..8 : /\ Told[2 * k - 1] = <<Member[k]>> /\ Told[2 * k] = CStr(answers[Field[k]])
  <2>1. TAKE k \in 1..8
  <2>2. 2 * k - 1 \in 1..16 /\ (2 * k - 1) % 2 = 1 /\ (2 * k - 1 + 1) \div 2 = k OBVIOUS
  <2>3. 2 * k \in 1..16 /\ (2 * k) % 2 # 1 /\ (2 * k) \div 2 = k OBVIOUS
  <2> DEFINE a == 2 * k - 1
             b == 2 * k
  <2> HIDE DEF a, b
  <2>4. Told[a] = <<Member[k]>> BY <1>1, <2>2 DEF a
  <2>5. Told[b] = CStr(answers[Field[k]]) BY <1>1, <2>3 DEF b
  <2>6. QED BY <2>4, <2>5 DEF a, b
<1>3. \A k \in 1..8 : answers[Field[k]] \in Seq(Char) BY Members DEF Answered
<1>4. \A i \in 1..16 : \E k \in 1..8 : i = 2 * k - 1 \/ i = 2 * k
  <2>1. TAKE i \in 1..16
  <2>2. (i + 1) \div 2 \in 1..8 /\ (i = 2 * ((i + 1) \div 2) - 1 \/ i = 2 * ((i + 1) \div 2)) OBVIOUS
  <2>3. QED BY <2>2
<1>5. \A i \in 1..16 : Told[i] \in Seq(Char) /\ \A j \in 1..Len(Told[i]) : Told[i][j] # Nul
  <2>1. TAKE i \in 1..16
  <2>2. PICK k \in 1..8 : i = 2 * k - 1 \/ i = 2 * k BY <1>4
  <2>3. CASE i = 2 * k - 1
    <3>1. Told[i] = <<Member[k]>> BY <1>2, <2>3
    <3>2. Member[k] \in Char /\ Member[k] # Nul BY Members
    <3> DEFINE m == Member[k]
    <3> HIDE DEF m
    <3>3. <<m>> \in Seq(Char) /\ Len(<<m>>) = 1 /\ <<m>>[1] = m BY <3>2 DEF m
    <3>4. QED BY <3>1, <3>2, <3>3 DEF m
  <2>4. CASE i = 2 * k
    <3>1. Told[i] = CStr(answers[Field[k]]) BY <1>2, <2>4
    <3>2. QED BY <3>1, <1>3, CStrFacts
  <2>5. QED BY <2>2, <2>3, <2>4
<1>6. Told \in Seq(Seq(Char)) /\ Len(Told) = 16
  <2>1. Told = [i \in 1..16 |-> Told[i]] BY <1>1
  <2> DEFINE t == Told
  <2> HIDE DEF t
  <2>2. t \in Seq(Seq(Char)) /\ Len(t) = 16 BY <2>1, <1>5 DEF t
  <2>3. QED BY <2>2 DEF t
<1>7. QED BY <1>2, <1>3, <1>5, <1>6

\* What info opens is what init wrote: an object of eight members.
LEMMA OpensWritten ==
    ASSUME NEW strings \in Seq(Seq(Char)), Len(strings) # 0, NEW t, t = Written(strings)
    PROVE  /\ \E begin, place : LaidOut(strings, t, begin, place)
           /\ t \in Seq(Char) /\ t # NoProject /\ Skip(t, 1) = 1
           /\ ~ (1 > Len(t) \/ t[1] = Nul)
<1>1. t \in Seq(Char) /\ \E begin, place : LaidOut(strings, t, begin, place)
  <2>1. Written(strings) \in Seq(Char) /\ \E begin, place : LaidOut(strings, Written(strings), begin, place)
    BY WrittenLaidOut
  <2>2. QED BY <2>1
<1>2. PICK begin, place : LaidOut(strings, t, begin, place) BY <1>1
<1>3. t[1] = OpeningBrace BY <1>2 DEF LaidOut
<1>4. Len(t) \in Nat /\ Len(t) >= 1
  <2>1. Len(t) \in Nat /\ Len(strings) \in Nat BY <1>1, LenProperties
  <2>2. 1 \in 1..(Len(strings) + 1) BY <2>1
  <2>3. begin[1] \in 1..Len(t) BY <1>2, <2>2 DEF LaidOut
  <2>4. QED BY <2>1, <2>3
<1>5. t # NoProject
  <2>1. OpeningBrace # "no project" BY Zenon DEF OpeningBrace
  <2>2. NoProject[1] # OpeningBrace
    <3>1. \A v : <<v>>[1] = v OBVIOUS
    <3>2. NoProject[1] = "no project" BY <3>1, Zenon DEF NoProject
    <3>3. QED BY <2>1, <3>2, Zenon
  <2>3. QED BY <2>2, <1>3
<1>6. Skip(t, 1) = 1
  <2>1. t[1] \notin Blank BY <1>3, Marks, Zenon
  <2>2. 1 \in 1..(Len(t) + 1) BY <1>4
  <2>3. QED BY <1>1, <2>1, <2>2, SkipNone
<1>7. t[1] # Nul BY <1>3, Marks, Zenon
<1>8. ~ (1 > Len(t)) BY <1>4
<1>9. QED BY <1>1, <1>5, <1>6, <1>7, <1>8

\* What info then shows.
LEMMA ShowsTold ==
    ASSUME Answered
    PROVE  /\ Showable(Whole(Told))
           /\ \A k \in 1..8 : CStr(Found(Whole(Told), Member[k]).chars) = CStr(answers[Field[k]])
<1> DEFINE root == Whole(Told)
<1>1. root.kind = "object" /\ root.parts = [p \in 1..16 |-> Text1(Told[p])]
  BY ToldFacts DEF Whole, Value
<1>2. Len(root.parts) \div 2 = 8
  <2>1. Len(root.parts) = 16 BY <1>1
  <2>2. QED BY <2>1
<1>3. \A p \in 1..16 : root.parts[p].chars = Told[p] /\ root.parts[p].kind = "string"
  BY <1>1 DEF Text1, Value
<1> HIDE DEF root
<1>4. \A k \in 1..8 : root.parts[2 * k - 1].chars = <<Member[k]>>
  <2>1. TAKE k \in 1..8
  <2>2. 2 * k - 1 \in 1..16 OBVIOUS
  <2>3. Told[2 * k - 1] = <<Member[k]>> BY ToldFacts
  <2>4. QED BY <1>3, <2>2, <2>3
<1>5. \A k \in 1..8 : root.parts[2 * k].chars = CStr(answers[Field[k]]) /\ root.parts[2 * k].kind = "string"
  <2>1. TAKE k \in 1..8
  <2>2. 2 * k \in 1..16 OBVIOUS
  <2>3. Told[2 * k] = CStr(answers[Field[k]]) BY ToldFacts
  <2>4. QED BY <1>3, <2>2, <2>3
<1>6. ASSUME NEW k \in 1..8 PROVE Named(root, Member[k]) = {k}
  <2>1. Named(root, Member[k]) = {i \in 1..8 : root.parts[2 * i - 1].chars = <<Member[k]>>} BY <1>2 DEF Named
  <2>2. \A i \in 1..8 : root.parts[2 * i - 1].chars = <<Member[k]>> <=> i = k
    <3>1. TAKE i \in 1..8
    <3>2. root.parts[2 * i - 1].chars = <<Member[i]>> BY <1>4
    <3>3. <<Member[i]>> = <<Member[k]>> <=> Member[i] = Member[k]
      <4>1. \A a, b : <<a>> = <<b>> <=> a = b OBVIOUS
      <4>2. QED BY <4>1
    <3>4. QED BY <3>2, <3>3, Members
  <2>3. QED BY <2>1, <2>2
<1>7. \A k \in 1..8 : Found(root, Member[k]) = root.parts[2 * k]
  <2>1. TAKE k \in 1..8
  <2>2. Named(root, Member[k]) = {k} BY <1>6
  <2>3. (CHOOSE i \in Named(root, Member[k]) : \A j \in Named(root, Member[k]) : i <= j) = k BY <2>2
  <2>4. QED BY <2>3 DEF Found
<1>8. Showable(root)
  <2>1. ASSUME NEW m \in Range(Member) PROVE Named(root, m) # {} /\ Found(root, m).kind = "string"
    <3>1. PICK k \in 1..8 : m = Member[k] BY Members
    <3>2. QED BY <3>1, <1>5, <1>6, <1>7
  <2>2. root.kind = "object" BY <1>1
  <2>3. QED BY <2>1, <2>2 DEF Showable
<1>9. ASSUME NEW k \in 1..8 PROVE CStr(Found(root, Member[k]).chars) = CStr(answers[Field[k]])
  <2>1. Found(root, Member[k]).chars = CStr(answers[Field[k]]) BY <1>5, <1>7
  <2>2. answers[Field[k]] \in Seq(Char) BY ToldFacts
  <2> DEFINE v == CStr(answers[Field[k]])
  <2>3. v \in Seq(Char) /\ \A j \in 1..Len(v) : v[j] # Nul BY <2>2, CStrFacts
  <2> HIDE DEF v
  <2>4. CStr(v) = v BY <2>3, CStrSame
  <2>5. QED BY <2>1, <2>4 DEF v
<1>10. QED BY <1>8, <1>9 DEF root

-----------------------------------------------------------------------------
(* The command line: what init is told is text. *)

WordList == Seq(Seq(Char))
ResultsTyped ==
    /\ "init" \in DOMAIN results
    /\ \A f \in Range(Field) : f \in DOMAIN results["init"] /\ results["init"][f] \in WordList
LineTyped == args \in WordList /\ ResultsTyped

\* A part of a text is a text.
LEMMA CutTyped ==
    ASSUME NEW C, NEW w \in Seq(C), NEW i \in Nat, i # 0, NEW n \in 0..Len(w)
    PROVE  SubSeq(w, i, n) \in Seq(C)
<1>0. Len(w) \in Nat BY LenProperties
<1>1. SubSeq(w, i, n) = [x \in 1..(1 + n - i) |-> w[x + i - 1]] BY <1>0
<1>2. \A x \in 1..(1 + n - i) : x + i - 1 \in 1..Len(w) BY <1>0
<1>3. \A x \in 1..(1 + n - i) : w[x + i - 1] \in C
  <2>1. \A y \in 1..Len(w) : w[y] \in C BY ElementOfSeq
  <2>2. QED BY <1>2, <2>1
<1>4. \E m \in Nat : 1..(1 + n - i) = 1..m
  <2>1. CASE i <= n
    <3>1. 1 + n - i \in Nat BY <2>1, <1>0
    <3> DEFINE m == 1 + n - i
    <3>2. m \in Nat /\ 1..(1 + n - i) = 1..m BY <3>1
    <3> HIDE DEF m
    <3>3. QED BY <3>2
  <2>2. CASE ~ (i <= n)
    <3>1. 1..(1 + n - i) = {} /\ 1..0 = {} BY <2>2, <1>0
    <3>2. QED BY <3>1
  <2>3. QED BY <2>1, <2>2
<1>5. PICK m \in Nat : 1..(1 + n - i) = 1..m BY <1>4
<1> DEFINE v(x) == w[x + i - 1]
<1>6. SubSeq(w, i, n) = [x \in 1..m |-> v(x)] /\ \A x \in 1..m : v(x) \in C BY <1>1, <1>3, <1>5
<1> HIDE DEF v
<1>7. QED BY <1>6

\* So is its end.
LEMMA FromTyped ==
    ASSUME NEW C, NEW w \in Seq(C), NEW i \in Nat, i # 0
    PROVE  From(w, i) \in Seq(C)
<1>1. Len(w) \in Nat /\ Len(w) \in 0..Len(w) BY LenProperties
<1>2. QED BY <1>1, CutTyped DEF From

\* Two texts in a row are a text.
LEMMA JoinTyped ==
    ASSUME NEW S, NEW a \in Seq(S), NEW b \in Seq(S)
    PROVE  a \o b \in Seq(S)
BY ConcatProperties

\* One character is a text.
LEMMA OneTyped ==
    ASSUME NEW S, NEW c \in S
    PROVE  <<c>> \in Seq(S)
OBVIOUS

\* What is attached to an option is a text.
LEMMA AttachedTyped ==
    ASSUME NEW w \in Seq(Char)
    PROVE  Attached(w) \in Seq(Char)
<1> DEFINE e == FirstOf(w, "=")
<1>1. e \in Nat /\ e + 1 \in Nat /\ e + 1 # 0
  <2>1. e \in 0..Len(w) /\ Len(w) \in Nat BY FirstFacts
  <2>2. QED BY <2>1
<1>2. From(w, 3) \in Seq(Char) /\ From(w, e + 1) \in Seq(Char)
  <2>1. From(w, 3) \in Seq(Char) BY FromTyped
  <2> HIDE DEF e
  <2>2. From(w, e + 1) \in Seq(Char) BY <1>1, FromTyped
  <2>3. QED BY <2>1, <2>2
<1>3. <<>> \in Seq(Char) OBVIOUS
<1>4. QED BY <1>2, <1>3, Zenon DEF Attached

\* An option that takes one value adds texts to its results.
LEMMA ResultTyped ==
    ASSUME NEW o, ~ (o.max > 1), NEW w \in Seq(Char)
    PROVE  Result(o, w) \in WordList
<1>1. CASE Doubled(w)
  <2> DEFINE k == (Len(w) - 2) \div 2 + 1
  <2>1. Len(w) \in Nat /\ Len(w) >= 4 BY <1>1, LenProperties DEF Doubled
  <2>2. k \in Nat /\ \A i \in 1..k : i # k => 2 * i - 1 \in 1..Len(w) BY <2>1
  <2>3. Halved(w) = [i \in 1..k |-> IF i = 1 THEN "[" ELSE IF i = k THEN "]" ELSE w[2 * i - 1]] BY DEF Halved
  <2>4. "[" \in Char /\ "]" \in Char BY Piece, Zenon
  <2> HIDE DEF k
  <2>5. \A i \in 1..k : (IF i = 1 THEN "[" ELSE IF i = k THEN "]" ELSE w[2 * i - 1]) \in Char
    <3>1. \A i \in 1..k : i # k => w[2 * i - 1] \in Char BY <2>2, ElementOfSeq
    <3>2. QED BY <3>1, <2>4
  <2> DEFINE v(i) == IF i = 1 THEN "[" ELSE IF i = k THEN "]" ELSE w[2 * i - 1]
  <2>6. Halved(w) = [i \in 1..k |-> v(i)] /\ \A i \in 1..k : v(i) \in Char BY <2>3, <2>5
  <2> HIDE DEF v
  <2>7. Halved(w) \in Seq(Char) BY <2>2, <2>6
  <2>8. QED BY <1>1, <2>7, OneTyped DEF Result, WordList
<1>2. CASE ~ Doubled(w)
  <2>1. Result(o, w) = <<w>> BY <1>2 DEF Result
  <2>2. QED BY <2>1, OneTyped DEF WordList
<1>3. QED BY <1>1, <1>2

Seven(t, b, c, d, e, f, g, h) ==
    /\ DOMAIN t = 1..7 /\ t = [x \in 1..7 |-> t[x]]
    /\ t[1] = b /\ t[2] = c /\ t[3] = d /\ t[4] = e /\ t[5] = f /\ t[6] = g /\ t[7] = h
    /\ \A i \in 1..7 : t[i] \in {b, c, d, e, f, g, h}

\* The elements of a sequence written out.
LEMMA SevenFacts ==
    ASSUME NEW b, NEW c, NEW d, NEW e, NEW f, NEW g, NEW h
    PROVE  Seven(<<b, c, d, e, f, g, h>>, b, c, d, e, f, g, h)
BY DEF Seven

\* The options of init, one behind the other.
LEMMA InitLayout ==
    /\ DOMAIN Options["init"] = 1..9
    /\ Options["init"][1] = Help /\ Options["init"][2] = package_name
    /\ \A i \in 1..7 : Options["init"][i + 2] = InitOptions[i] /\ InitOptions[i].max = 1
    /\ Help.max = 0 /\ package_name.max = 1
<1> DEFINE a == <<Help, package_name>>
           S == Range(a) \cup Range(InitOptions)
<1>1. Options["init"] = a \o InitOptions BY DEF Options
<1>2. Help.max = 0 /\ package_name.max = 1 BY DEF Help, package_name, Option
<1>3. DOMAIN InitOptions = 1..7 /\ InitOptions = [x \in 1..7 |-> InitOptions[x]] /\ \A i \in 1..7 : InitOptions[i].max = 1
  <2>1. \A s, l : Text(s, l).max = 1 BY DEF Text, Option
  <2>2. Seven(InitOptions, Text("v", "version"), Text("d", "description"), Text("e", "entry-point"),
              Text("a", "author"), Text("", "git-repository"), Text("", "url"), Text("", "license"))
    BY SevenFacts, Zenon DEF InitOptions
  <2>3. DOMAIN InitOptions = 1..7 /\ InitOptions = [x \in 1..7 |-> InitOptions[x]] BY <2>2, Zenon DEF Seven
  <2>4. ASSUME NEW i \in 1..7 PROVE \E s, l : InitOptions[i] = Text(s, l)
    <3>1. InitOptions[i] \in {Text("v", "version"), Text("d", "description"), Text("e", "entry-point"),
              Text("a", "author"), Text("", "git-repository"), Text("", "url"), Text("", "license")}
      BY <2>2, Zenon DEF Seven
    <3>2. QED BY <3>1, Zenon
  <2>5. ASSUME NEW i \in 1..7 PROVE InitOptions[i].max = 1
    <3>1. PICK s, l : InitOptions[i] = Text(s, l) BY <2>4
    <3>2. QED BY <2>1, <3>1
  <2>6. QED BY <2>3, <2>5
<1>4. a[1] = Help /\ a[2] = package_name /\ Len(a) = 2 /\ DOMAIN a = 1..2 OBVIOUS
<1>5. a \in Seq(S) /\ InitOptions \in Seq(S)
  <2>1. a \in Seq(Range(a))
    <3>1. Help \in Range(a) /\ package_name \in Range(a)
      <4>1. 1 \in DOMAIN a /\ 2 \in DOMAIN a BY <1>4
      <4>2. QED BY <1>4, <4>1 DEF Range
    <3>2. QED BY <3>1
  <2>2. InitOptions \in Seq(Range(InitOptions))
    <3> DEFINE b == InitOptions
    <3>1. b = [x \in 1..7 |-> b[x]] /\ DOMAIN b = 1..7 BY <1>3
    <3> HIDE DEF b
    <3>2. \A x \in 1..7 : b[x] \in Range(b) BY <3>1 DEF Range
    <3>3. b \in Seq(Range(b)) BY <3>1, <3>2
    <3>4. QED BY <3>3 DEF b
  <2> HIDE DEF a
  <2>3. QED BY <2>1, <2>2
<1> HIDE DEF a, S
<1>6. Len(InitOptions) = 7 BY <1>3, <1>5, LenProperties
<1>7. /\ a \o InitOptions \in Seq(S) /\ Len(a \o InitOptions) = Len(a) + Len(InitOptions)
      /\ \A x \in 1..(Len(a) + Len(InitOptions)) :
            (a \o InitOptions)[x] = IF x <= Len(a) THEN a[x] ELSE InitOptions[x - Len(a)]
  BY <1>5, ConcatProperties
<1>8. /\ DOMAIN (a \o InitOptions) = 1..9
      /\ \A x \in 1..9 : (a \o InitOptions)[x] = IF x <= 2 THEN a[x] ELSE InitOptions[x - 2]
  <2>1. Len(a) + Len(InitOptions) = 9 BY <1>4, <1>6
  <2>2. DOMAIN (a \o InitOptions) = 1..9 BY <1>7, <2>1, LenProperties
  <2>3. QED BY <1>4, <1>7, <2>1, <2>2
<1>9. \A i \in 1..7 : (a \o InitOptions)[i + 2] = InitOptions[i]
  <2>1. TAKE i \in 1..7
  <2>2. PICK x \in 1..9 : x = i + 2 /\ ~ (x <= 2) /\ x - 2 = i
    <3> DEFINE x == i + 2
    <3>1. x \in 1..9 /\ x = i + 2 /\ ~ (x <= 2) /\ x - 2 = i OBVIOUS
    <3> HIDE DEF x
    <3>2. QED BY <3>1
  <2>3. QED BY <1>8, <2>2
<1>10. (a \o InitOptions)[1] = Help /\ (a \o InitOptions)[2] = package_name BY <1>4, <1>8
<1>11. QED BY <1>1, <1>2, <1>3, <1>8, <1>9, <1>10

\* No option of init takes more than one value, so that none is split.
LEMMA InitOption ==
    ASSUME NEW o \in Range(Options["init"])
    PROVE  o.max \in Nat /\ ~ (o.max > 1)
<1>1. PICK i \in 1..9 : o = Options["init"][i] BY InitLayout DEF Range
<1>2. CASE i <= 2
  <2>1. i = 1 \/ i = 2 BY <1>1, <1>2
  <2>2. o = Help \/ o = package_name BY <2>1, <1>1, InitLayout
  <2>3. QED BY <2>2, InitLayout
<1>3. CASE ~ (i <= 2)
  <2>1. PICK j \in 1..7 : j + 2 = i
    <3>1. i - 2 \in 1..7 /\ i - 2 + 2 = i BY <1>1, <1>3
    <3>2. QED BY <3>1
  <2>2. o = InitOptions[j] BY <1>1, <2>1, InitLayout
  <2>3. QED BY <2>2, InitLayout
<1>4. QED BY <1>2, <1>3

\* The options of init are the members of the project file,
LEMMA InitNames ==
    \A j \in 1..7 : InitOptions[j].name = Field[j + 1]
<1>1. \A s, l : Text(s, l).name = l BY DEF Text, Option
<1>2. Seven(InitOptions, Text("v", "version"), Text("d", "description"), Text("e", "entry-point"),
            Text("a", "author"), Text("", "git-repository"), Text("", "url"), Text("", "license"))
  BY SevenFacts, Zenon DEF InitOptions
<1>3. /\ InitOptions[1] = Text("v", "version") /\ InitOptions[2] = Text("d", "description")
      /\ InitOptions[3] = Text("e", "entry-point") /\ InitOptions[4] = Text("a", "author")
      /\ InitOptions[5] = Text("", "git-repository") /\ InitOptions[6] = Text("", "url")
      /\ InitOptions[7] = Text("", "license")
  BY <1>2, Zenon DEF Seven
<1>4. /\ InitOptions[1].name = "version" /\ InitOptions[2].name = "description"
      /\ InitOptions[3].name = "entry-point" /\ InitOptions[4].name = "author"
      /\ InitOptions[5].name = "git-repository" /\ InitOptions[6].name = "url" /\ InitOptions[7].name = "license"
  <2>1. InitOptions[1].name = "version"
    <3>1. Text("v", "version").name = "version" BY <1>1, Zenon
    <3>2. QED BY <1>3, <3>1, Zenon
  <2>2. InitOptions[2].name = "description"
    <3>1. Text("d", "description").name = "description" BY <1>1, Zenon
    <3>2. QED BY <1>3, <3>1, Zenon
  <2>3. InitOptions[3].name = "entry-point"
    <3>1. Text("e", "entry-point").name = "entry-point" BY <1>1, Zenon
    <3>2. QED BY <1>3, <3>1, Zenon
  <2>4. InitOptions[4].name = "author"
    <3>1. Text("a", "author").name = "author" BY <1>1, Zenon
    <3>2. QED BY <1>3, <3>1, Zenon
  <2>5. InitOptions[5].name = "git-repository"
    <3>1. Text("", "git-repository").name = "git-repository" BY <1>1, Zenon
    <3>2. QED BY <1>3, <3>1, Zenon
  <2>6. InitOptions[6].name = "url"
    <3>1. Text("", "url").name = "url" BY <1>1, Zenon
    <3>2. QED BY <1>3, <3>1, Zenon
  <2>7. InitOptions[7].name = "license"
    <3>1. Text("", "license").name = "license" BY <1>1, Zenon
    <3>2. QED BY <1>3, <3>1, Zenon
  <2>8. QED BY <2>1, <2>2, <2>3, <2>4, <2>5, <2>6, <2>7
<1>5. QED BY <1>4 DEF Field

\* and each string main asks for belongs to one.
LEMMA FieldNames ==
    ASSUME NEW f \in Range(Field)
    PROVE  f \in {Options["init"][i].name : i \in DOMAIN Options["init"]}
<1>1. PICK k \in 1..8 : f = Field[k] BY Members
<1>2. \E i \in 1..9 : Options["init"][i].name = Field[k]
  <2>1. CASE k = 1
    <3>1. package_name.name = "package_name" BY DEF package_name, Option
    <3>2. Field[1] = "package_name" BY DEF Field
    <3>3. 2 \in 1..9 OBVIOUS
    <3>4. QED BY <2>1, <3>1, <3>2, <3>3, InitLayout
  <2>2. CASE k # 1
    <3>1. PICK j \in 1..7 : j + 1 = k
      <4>1. k - 1 \in 1..7 /\ k - 1 + 1 = k BY <2>2
      <4>2. QED BY <4>1
    <3>2. InitOptions[j].name = Field[k] BY <3>1, InitNames
    <3>3. PICK i \in 1..9 : i = j + 2
      <4>1. j + 2 \in 1..9 OBVIOUS
      <4>2. QED BY <4>1
    <3>4. QED BY <3>2, <3>3, InitLayout
  <2>3. QED BY <2>1, <2>2
<1>3. QED BY <1>1, <1>2, InitLayout

\* _add_result keeps the strings of init texts,
LEMMA AddTyped ==
    ASSUME ResultsTyped, NEW a, NEW o \in Range(Options[a]), NEW w \in Seq(Char), Add(a, o, w)
    PROVE  ResultsTyped'
<1>1. results' = [results EXCEPT ![a][o.name] = @ \o Result(o, w)] BY DEF Add
<1>2. CASE a # "init"
  <2>1. "init" \in DOMAIN results' /\ results'["init"] = results["init"] BY <1>1, <1>2 DEF ResultsTyped
  <2>2. QED BY <2>1 DEF ResultsTyped
<1>3. CASE a = "init"
  <2> DEFINE r == results["init"]
             extra == Result(o, w)
  <2>1. "init" \in DOMAIN results' /\ results'["init"] = [r EXCEPT ![o.name] = @ \o extra]
    BY <1>1, <1>3 DEF ResultsTyped
  <2>2. extra \in WordList BY <1>3, InitOption, ResultTyped
  <2>3. \A f \in Range(Field) : f \in DOMAIN r /\ r[f] \in WordList BY DEF ResultsTyped
  <2> HIDE DEF r, extra
  <2>4. ASSUME NEW f \in Range(Field) PROVE f \in DOMAIN results'["init"] /\ results'["init"][f] \in WordList
    <3>1. f \in DOMAIN r /\ r[f] \in WordList BY <2>3
    <3>2. r[f] \o extra \in WordList BY <3>1, <2>2, JoinTyped DEF WordList
    <3>3. QED BY <2>1, <3>1, <3>2
  <2>5. QED BY <2>1, <2>4 DEF ResultsTyped
<1>4. QED BY <1>2, <1>3

\* and so does the second half of _parse_arg,
LEMMA TakeTyped ==
    ASSUME ResultsTyped, NEW a, NEW o \in Range(Options[a]), NEW w \in Seq(Char), NEW rest \in WordList,
           Take(a, o, w, rest)
    PROVE  LineTyped'
<1>1. Attached(w) \in Seq(Char) BY AttachedTyped
<1>2. <<"true">> \in Seq(Char) /\ <<"-">> \in Seq(Char)
  <2>1. "true" \in Char /\ "-" \in Char BY Piece, Zenon
  <2>2. QED BY <2>1, OneTyped
<1>3. << <<"-">> \o Attached(w) >> \o rest \in WordList
  <2>1. <<"-">> \o Attached(w) \in Seq(Char) BY <1>1, <1>2, JoinTyped
  <2>2. << <<"-">> \o Attached(w) >> \in Seq(Seq(Char)) BY <2>1, OneTyped
  <2>3. QED BY <2>2, JoinTyped DEF WordList
<1>4. CASE o.max = 0
  <2> DEFINE v == IF IsLong(w) /\ Attached(w) # <<>> THEN Attached(w) ELSE <<"true">>
  <2>1. v \in Seq(Char) BY <1>1, <1>2
  <2>2. Add(a, o, v) /\ args' = IF IsLong(w) \/ Attached(w) = <<>> THEN rest ELSE << <<"-">> \o Attached(w) >> \o rest
    BY <1>4 DEF Take
  <2> HIDE DEF v
  <2>3. ResultsTyped' BY <2>1, <2>2, AddTyped
  <2>4. args' \in WordList BY <2>2, <1>3
  <2>5. QED BY <2>3, <2>4 DEF LineTyped, WordList
<1>5. CASE o.max # 0 /\ Attached(w) # <<>>
  <2>1. Add(a, o, Attached(w)) /\ args' = rest BY <1>5 DEF Take
  <2>2. ResultsTyped' BY <2>1, <1>1, AddTyped
  <2>3. QED BY <2>1, <2>2 DEF LineTyped, WordList
<1>6. CASE o.max # 0 /\ Attached(w) = <<>> /\ rest # <<>>
  <2>1. Add(a, o, Head(rest)) /\ args' = Tail(rest) BY <1>6 DEF Take
  <2>2. Head(rest) \in Seq(Char) /\ Tail(rest) \in WordList BY <1>6, HeadTailProperties DEF WordList
  <2>3. ResultsTyped' BY <2>1, <2>2, AddTyped
  <2>4. QED BY <2>1, <2>2, <2>3 DEF LineTyped, WordList
<1>7. CASE o.max # 0 /\ Attached(w) = <<>> /\ rest = <<>>
  <2>1. results' = results /\ args' = rest BY <1>7 DEF Take
  <2>2. QED BY <2>1 DEF LineTyped, ResultsTyped, WordList
<1>8. QED BY <1>4, <1>5, <1>6, <1>7

\* The next word is a text.
LEMMA WordTyped ==
    ASSUME args \in WordList, args # <<>>
    PROVE  Word \in Seq(Char) /\ Tail(args) \in WordList
BY HeadTailProperties DEF Word, WordList

\* and so does _parse_positional,
LEMMA PositionalTyped ==
    ASSUME LineTyped, args # <<>>, ParsePositional
    PROVE  LineTyped'
<1>1. Word \in Seq(Char) /\ Tail(args) \in WordList /\ args \in WordList /\ ResultsTyped
  BY WordTyped DEF LineTyped
<1>2. CASE Open(app) # {}
  <2>1. PICK o \in Open(app) : Add(app, o, Word) BY <1>2 DEF ParsePositional
  <2>2. o \in Range(Options[app]) BY <2>1 DEF Open
  <2>3. args' = Tail(args) BY <1>2 DEF ParsePositional
  <2>4. ResultsTyped' BY <1>1, <2>1, <2>2, AddTyped
  <2>5. QED BY <1>1, <2>3, <2>4 DEF LineTyped
<1>3. CASE Open(app) = {}
  <2>1. results' = results /\ (args' = Tail(args) \/ args' = args) BY <1>3, Zenon DEF ParsePositional
  <2>2. QED BY <1>1, <2>1 DEF LineTyped, ResultsTyped
<1>4. QED BY <1>2, <1>3

\* and an option with a dot in it,
LEMMA DottedTyped ==
    ASSUME LineTyped, DottedOption
    PROVE  LineTyped'
<1>0. args # <<>> BY DEF DottedOption, Running
<1>1. Word \in Seq(Char) /\ Tail(args) \in WordList /\ args \in WordList /\ ResultsTyped
  BY <1>0, WordTyped DEF LineTyped
<1> DEFINE w == Undotted(Word)
           rest == Beyond(Word) \o Tail(args)
<1>2. PICK s \in Owner(Word) :
          IF w = <<"-">> THEN Throw("HorribleError")
          ELSE IF Known(s, w) # {} THEN
              /\ \E o \in Known(s, w) : Take(s, o, w, rest)
              /\ parsed_subcommands' = Append(parsed_subcommands, s)
              /\ parsed' = [parsed EXCEPT !["root"] = @ + 1]
              /\ UNCHANGED <<calls, missing>>
          ELSE
              /\ Miss(Word) /\ args' = rest
              /\ UNCHANGED <<calls, results, parsed, parsed_subcommands, outcome>>
  BY Zenon DEF DottedOption
<1> DEFINE d == DotOf(Word)
<1>3. d \in Nat
  <2>1. CASE IsLong(Word)
    <3>1. Name(Word) \in Seq(Char)
      <4> DEFINE e == FirstOf(Word, "=")
      <4>1. e \in 0..Len(Word) /\ Len(Word) \in Nat BY <1>1, FirstFacts
      <4>2. Name(Word) = IF e = 0 THEN From(Word, 3) ELSE SubSeq(Word, 3, e - 1) BY <2>1 DEF Name
      <4> HIDE DEF e
      <4>3. CASE e = 0 BY <4>2, <4>3, <1>1, FromTyped
      <4>4. CASE e # 0
        <5>1. e - 1 \in 0..Len(Word) BY <4>1, <4>4
        <5>2. SubSeq(Word, 3, e - 1) \in Seq(Char) BY <5>1, <1>1, CutTyped
        <5>3. QED BY <4>2, <4>4, <5>2
      <4>5. QED BY <4>3, <4>4
    <3>2. From(Name(Word), 2) \in Seq(Char) BY <3>1, FromTyped
    <3>3. FirstOf(From(Name(Word), 2), ".") \in 0..Len(From(Name(Word), 2))
          /\ Len(From(Name(Word), 2)) \in Nat
      BY <3>2, FirstFacts
    <3>4. FirstOf(From(Name(Word), 2), ".") \in Nat BY <3>3
    <3>5. QED BY <3>4 DEF DotOf
  <2>2. CASE ~ IsLong(Word) BY <2>2 DEF DotOf
  <2>3. QED BY <2>1, <2>2
<1>4. Inner(Word) \in Seq(Char)
  <2> HIDE DEF d
  <2>1. 4 + d \in Nat /\ 4 + d # 0 BY <1>3
  <2>2. From(Word, 4 + d) \in Seq(Char) BY <2>1, <1>1, FromTyped
  <2>3. QED BY <2>2 DEF Inner, d
<1>5. "-" \in Char BY Piece, Zenon
<1>6. w \in Seq(Char)
  <2> DEFINE in == Inner(Word)
             dash == "-"
  <2>0. in \in Seq(Char) /\ dash \in Char BY <1>4, <1>5
  <2>1. w = <<dash, dash>> \o in \/ w = <<dash>> \/ (in # <<>> /\ w = <<dash, in[1]>>)
    BY Zenon DEF Undotted
  <2> HIDE DEF in, dash, w
  <2>2. <<dash, dash>> \in Seq(Char) /\ <<dash>> \in Seq(Char) BY <2>0
  <2>3. <<dash, dash>> \o in \in Seq(Char) BY <2>0, <2>2, JoinTyped
  <2>4. ASSUME in # <<>> PROVE <<dash, in[1]>> \in Seq(Char)
    <3>1. in[1] \in Char BY <2>0, <2>4
    <3> DEFINE c == in[1]
    <3> HIDE DEF c
    <3>2. <<dash, c>> \in Seq(Char) BY <2>0, <3>1 DEF c
    <3>3. QED BY <3>2 DEF c
  <2>5. QED BY <2>1, <2>2, <2>3, <2>4
<1>7. rest \in WordList
  <2>1. From(Inner(Word), 3) \in Seq(Char) BY <1>4, FromTyped
  <2>2. << From(Inner(Word), 3) >> \in WordList BY <2>1, OneTyped DEF WordList
  <2>3. <<>> \in WordList BY DEF WordList
  <2>4. Beyond(Word) \in WordList BY <2>2, <2>3 DEF Beyond
  <2>5. QED BY <2>4, <1>1, JoinTyped DEF WordList
<1> HIDE DEF w, rest
<1>8. CASE w = <<"-">>
  <2>1. args' = args /\ results' = results BY <1>2, <1>8 DEF Throw
  <2>2. QED BY <2>1, <1>1 DEF LineTyped, ResultsTyped
<1>9. CASE w # <<"-">> /\ Known(s, w) # {}
  <2>1. PICK o \in Known(s, w) : Take(s, o, w, rest) BY <1>2, <1>9
  <2>2. o \in Range(Options[s]) BY <2>1 DEF Known
  <2>3. QED BY <2>1, <2>2, <1>1, <1>6, <1>7, TakeTyped
<1>10. CASE w # <<"-">> /\ Known(s, w) = {}
  <2>1. args' = rest /\ results' = results BY <1>2, <1>10
  <2>2. QED BY <2>1, <1>1, <1>7 DEF LineTyped, ResultsTyped
<1>11. QED BY <1>8, <1>9, <1>10

\* and so every step of the parser of the command line.
LEMMA LineStep ==
    ASSUME LineTyped, CNext
    PROVE  LineTyped'
<1>1. args \in WordList /\ ResultsTyped BY DEF LineTyped
<1>2. ASSUME results' = results, args' = args \/ (args # <<>> /\ args' = Tail(args))
      PROVE  LineTyped'
  <2>1. args' \in WordList BY <1>1, <1>2, WordTyped
  <2>2. QED BY <1>1, <1>2, <2>1 DEF LineTyped, ResultsTyped
<1>3. CASE PositionalMark BY <1>2, <1>3 DEF PositionalMark, Running
<1>4. CASE SubcommandTerminator BY <1>2, <1>4 DEF SubcommandTerminator, Running
<1>5. CASE PositionalWord BY <1>5, PositionalTyped DEF PositionalWord, Running
<1>6. CASE ParseSubcommand
  <2>1. args # <<>> BY <1>6 DEF ParseSubcommand, Running
  <2>2. CASE Needs(app)
    <3>1. ParsePositional BY <1>6, <2>2 DEF ParseSubcommand
    <3>2. QED BY <2>1, <3>1, PositionalTyped
  <2>3. CASE ~ Needs(app) /\ app # "root"
    <3>1. args' = args /\ results' = results BY <1>6, <2>3 DEF ParseSubcommand
    <3>2. QED BY <3>1, <1>2
  <2>4. CASE ~ Needs(app) /\ app = "root"
    <3>1. results' = results BY <1>6, <2>4 DEF ParseSubcommand
    <3>2. \/ args' = Tail(args)
          \/ args' = << From(Word, FirstOf(Word, ".") + 1) >> \o Tail(args)
      BY <1>6, <2>4, Zenon DEF ParseSubcommand
    <3>3. << From(Word, FirstOf(Word, ".") + 1) >> \o Tail(args) \in WordList
      <4> DEFINE e == FirstOf(Word, ".")
      <4>1. Word \in Seq(Char) /\ Tail(args) \in WordList BY <1>1, <2>1, WordTyped
      <4>2. e \in 0..Len(Word) /\ Len(Word) \in Nat BY <4>1, FirstFacts
      <4> HIDE DEF e
      <4>3. e + 1 \in Nat /\ e + 1 # 0 BY <4>2
      <4>4. From(Word, e + 1) \in Seq(Char) BY <4>1, <4>3, FromTyped
      <4>5. << From(Word, e + 1) >> \in WordList BY <4>4, OneTyped DEF WordList
      <4>6. QED BY <4>1, <4>5, JoinTyped DEF WordList, e
    <3>4. Tail(args) \in WordList BY <1>1, <2>1, WordTyped
    <3>5. args' \in WordList BY <3>2, <3>3, <3>4
    <3>6. QED BY <3>1, <3>5, <1>1 DEF LineTyped, ResultsTyped
  <2>5. QED BY <2>2, <2>3, <2>4
<1>7. CASE OwnOption
  <2>1. args # <<>> BY <1>7 DEF OwnOption, Running
  <2>2. PICK o \in Known(app, Word) : Take(app, o, Word, Tail(args)) BY <1>7 DEF OwnOption
  <2>3. o \in Range(Options[app]) BY <2>2 DEF Known
  <2>4. Word \in Seq(Char) /\ Tail(args) \in WordList BY <1>1, <2>1, WordTyped
  <2>5. QED BY <1>1, <2>2, <2>3, <2>4, TakeTyped
<1>8. CASE DottedOption BY <1>8, DottedTyped
<1>9. CASE UnknownOption BY <1>2, <1>9 DEF UnknownOption, Running
<1>10. CASE Return BY <1>2, <1>10 DEF Return
<1>11. CASE Process BY <1>2, <1>11 DEF Process
<1>12. QED BY <1>3, <1>4, <1>5, <1>6, <1>7, <1>8, <1>9, <1>10, <1>11 DEF CNext, ParseSingle

-----------------------------------------------------------------------------
(* The second run, with the one word info. *)

\* The line the second run is given, read word by word.
Info == <<"info">>
InfoParsed == [OnlyRoot EXCEPT !["info"] = 1]
RootCall == <<"root", FALSE>>
InfoCall == <<"info", FALSE>>
InfoBefore == /\ outcome = "parsing" /\ args = <<Info>> /\ calls = <<RootCall>>
              /\ parsed = OnlyRoot /\ parsed_subcommands = <<>>
InfoBehind == /\ outcome \in {"parsing", "parsed"} /\ args = <<>>
              /\ calls \in {<<RootCall>>, <<RootCall, InfoCall>>}
              /\ parsed = InfoParsed /\ parsed_subcommands = <<"info">>
InfoLine == results = NoResults /\ missing = NoneMissing /\ (InfoBefore \/ InfoBehind)

\* A call is made behind the one that makes it, and left again.
LEMMA Pairs ==
    ASSUME NEW b, NEW c
    PROVE  Append(<<b>>, c) = <<b, c>> /\ Front(<<b, c>>) = <<b>>
<1> DEFINE S == {b, c}
<1>1. <<b>> \in Seq(S) /\ <<b, c>> \in Seq(S) /\ c \in S /\ Len(<<b>>) = 1 /\ Len(<<b, c>>) = 2
      /\ <<b>>[1] = b /\ <<b, c>>[1] = b /\ <<b, c>>[2] = c
  OBVIOUS
<1> DEFINE one == <<b>>
           two == <<b, c>>
<1> HIDE DEF S, one, two
<1>2. Append(one, c) \in Seq(S) /\ Len(Append(one, c)) = 2 /\ Append(one, c)[1] = b /\ Append(one, c)[2] = c
  BY <1>1, AppendProperties DEF one
<1>3. \A i \in 1..2 : i = 1 \/ i = 2 OBVIOUS
<1>4. \A i \in 1..2 : Append(one, c)[i] = two[i] BY <1>1, <1>2, <1>3 DEF two
<1>5. Append(one, c) = two BY <1>1, <1>2, <1>4, SeqEqual DEF two
<1>6. Front(two) = one
  <2>1. two # <<>> /\ two \in Seq(S) /\ Len(two) = 2 BY <1>1 DEF two
  <2>2. SubSeq(two, 1, 2 - 1) \in Seq(S) /\ Len(SubSeq(two, 1, 2 - 1)) = 1 /\ SubSeq(two, 1, 2 - 1)[1] = two[1]
    <3>1. SubSeq(two, 1, 2 - 1) = [i \in 1..1 |-> two[i]] BY <2>1
    <3>2. two[1] \in S BY <2>1
    <3>3. QED BY <3>1, <3>2
  <2>3. \A i \in 1..1 : i = 1 OBVIOUS
  <2>4. \A i \in 1..1 : SubSeq(two, 1, 2 - 1)[i] = one[i] BY <1>1, <2>2, <2>3 DEF one, two
  <2>5. SubSeq(two, 1, 2 - 1) = one BY <1>1, <2>2, <2>4, SeqEqual DEF one
  <2>6. QED BY <2>1, <2>5 DEF Front
<1>7. QED BY <1>5, <1>6 DEF one, two

\* main's programs, and how often each was entered.
LEMMA Apps ==
    /\ App = {"root", "init", "build", "info"} /\ Subcommand = {"init", "build", "info"}
    /\ Options["root"] = <<Help>> /\ Options["info"] = <<Help>>
    /\ \A s \in Subcommand : OnlyRoot[s] = 0
    /\ InfoParsed = [a \in App |-> IF a = "root" \/ a = "info" THEN 1 ELSE 0]
<1>1. App = {"root", "init", "build", "info"} BY DEF App, Options
<1>2. Subcommand = {"init", "build", "info"} BY <1>1 DEF Subcommand
<1>3. Options["root"] = <<Help>> /\ Options["info"] = <<Help>> BY DEF Options
<1>4. \A s \in Subcommand : OnlyRoot[s] = 0 BY <1>1, <1>2 DEF OnlyRoot
<1>5. InfoParsed = [a \in App |-> IF a = "root" \/ a = "info" THEN 1 ELSE 0]
  BY <1>1 DEF InfoParsed, OnlyRoot
<1>6. QED BY <1>1, <1>2, <1>3, <1>4, <1>5

\* Neither the root nor info requires a positional.
LEMMA NoNeeds ==
    ~ Needs("root") /\ ~ Needs("info")
<1>1. ~ Positional(Help) BY DEF Positional, Help, Option
<1>2. Range(<<Help>>) = {Help}
  <2>1. \A h : Range(<<h>>) = {h} BY DEF Range
  <2>2. QED BY <2>1
<1>3. Unfilled("root") = {} /\ Unfilled("info") = {} BY <1>1, <1>2, Apps DEF Unfilled
<1>4. QED BY <1>3 DEF Needs

\* The word info is a subcommand of the root, and nothing else.
LEMMA InfoKind ==
    ASSUME InfoBefore
    PROVE  /\ Kind = "subcommand" /\ app = "root" /\ Word = Info /\ Running
           /\ Find("root", Info, TRUE) = {"info"} /\ Dotted("root", Info) = {}
<1>1. app = "root" /\ ~ calls[Len(calls)][2] BY DEF InfoBefore, RootCall, app
<1>2. Word = Info /\ Running BY DEF InfoBefore, Word, Running
<1>3. Find("root", Info, TRUE) = {"info"}
  <2>1. \A s : Info = <<s>> <=> s = "info" BY DEF Info
  <2>2. \A s \in Subcommand : parsed[s] = 0 BY Apps DEF InfoBefore
  <2>3. QED BY <2>1, <2>2, Apps DEF Find
<1>4. Dotted("root", Info) = {}
  <2> DEFINE S == {"info"}
             e == FirstOf(Info, ".")
  <2>1. Info \in Seq(S) /\ Len(Info) = 1 /\ Info[1] # "." BY DEF Info
  <2>2. e \in 0..Len(Info) /\ (e # 0 => Info[e] = ".") BY <2>1, FirstFacts
  <2> HIDE DEF e
  <2>3. e = 0 BY <2>1, <2>2
  <2>4. ~ (FirstOf(Info, ".") > 0) BY <2>3 DEF e
  <2>5. QED BY <2>4 DEF Dotted
<1>5. Len(Info) = 1 BY DEF Info
<1>6. ~ IsLong(Info) /\ ~ IsShort(Info) BY <1>5 DEF IsLong, IsShort
<1>7. Info # <<"-", "-">> /\ Info # <<"+", "+">>
  <2>1. \A c, d : Len(<<c, d>>) = 2 OBVIOUS
  <2>2. QED BY <2>1, <1>5
<1>8. Classifier("root", Info) = "subcommand"
  <2>1. Find("root", Info, TRUE) # {} BY <1>3
  <2>2. QED BY <2>1, <1>4, <1>6, <1>7, Zenon DEF Classifier
<1>9. Kind = "subcommand" BY <1>1, <1>2, <1>8, Zenon DEF Kind
<1>10. QED BY <1>1, <1>2, <1>3, <1>4, <1>9

\* The root enters info,
LEMMA InfoRead ==
    ASSUME InfoLine, InfoBefore, CNext
    PROVE  InfoLine' /\ InfoBehind' /\ outcome' = "parsing"
<1>1. /\ Kind = "subcommand" /\ app = "root" /\ Word = Info /\ Running
      /\ Find("root", Info, TRUE) = {"info"} /\ Dotted("root", Info) = {}
  BY InfoKind
<1>2. ParseSubcommand
  <2>1. ~ PositionalMark BY <1>1, Zenon DEF PositionalMark
  <2>2. ~ SubcommandTerminator BY <1>1, Zenon DEF SubcommandTerminator
  <2>3. ~ PositionalWord BY <1>1, Zenon DEF PositionalWord
  <2>4. ~ OwnOption BY <1>1, Zenon DEF OwnOption
  <2>5. ~ DottedOption BY <1>1, Zenon DEF DottedOption
  <2>6. ~ UnknownOption BY <1>1, Zenon DEF UnknownOption
  <2>7. ~ Return BY <1>1, Zenon DEF Return, Running
  <2>8. ~ Process BY <1>1, Zenon DEF Process, Running
  <2>9. QED BY <2>1, <2>2, <2>3, <2>4, <2>5, <2>6, <2>7, <2>8 DEF CNext, ParseSingle
<1>3. ~ Needs(app) BY <1>1, NoNeeds
<1>4. /\ \E s \in Find("root", Word, TRUE) \cup Dotted("root", Word) :
                /\ Enter(s)
                /\ parsed_subcommands' = Append(parsed_subcommands, s)
                /\ args' = IF Word = <<s>> THEN Tail(args)
                           ELSE << From(Word, FirstOf(Word, ".") + 1) >> \o Tail(args)
      /\ UNCHANGED <<results, missing, outcome>>
  BY <1>1, <1>2, <1>3, Zenon DEF ParseSubcommand
<1>5. PICK s : /\ s = "info" /\ Enter(s) /\ parsed_subcommands' = Append(parsed_subcommands, s)
               /\ args' = IF Word = <<s>> THEN Tail(args)
                           ELSE << From(Word, FirstOf(Word, ".") + 1) >> \o Tail(args)
  BY <1>1, <1>4
<1>6. args' = Tail(args) BY <1>1, <1>5, Zenon DEF Info
<1>7. args' = <<>> /\ parsed_subcommands' = <<"info">> /\ outcome' = "parsing"
  BY <1>4, <1>5, <1>6 DEF InfoBefore
<1>8. calls' = <<RootCall, InfoCall>>
  <2>1. Append(<<RootCall>>, InfoCall) = <<RootCall, InfoCall>> BY Pairs
  <2>2. calls' = Append(calls, InfoCall) BY <1>5, Zenon DEF Enter, InfoCall
  <2>3. calls = <<RootCall>> BY DEF InfoBefore
  <2>4. QED BY <2>1, <2>2, <2>3
<1>9. parsed' = InfoParsed
  <2>1. parsed' = [OnlyRoot EXCEPT !["info"] = OnlyRoot["info"] + 1] BY <1>5 DEF Enter, InfoBefore
  <2>2. OnlyRoot["info"] = 0 BY Apps
  <2>3. QED BY <2>1, <2>2 DEF InfoParsed
<1>10. results' = NoResults /\ missing' = NoneMissing BY <1>4 DEF InfoLine
<1>11. InfoBehind' BY <1>7, <1>8, <1>9 DEF InfoBehind
<1>12. QED BY <1>7, <1>10, <1>11 DEF InfoLine

\* Every option has a number of values it may take.
LEMMA OptionMax ==
    ASSUME NEW a \in App, NEW o \in Range(Options[a])
    PROVE  o.max \in Nat
<1>1. Help.max = 0 /\ package_name.max = 1 /\ file.max = Unlimited /\ output.max = 1
  BY DEF Help, package_name, file, output, Text, Option
<1>2. Unlimited \in Nat BY DEF Unlimited
<1>3. CASE a = "root" \/ a = "info"
  <2>1. \A h : Range(<<h>>) = {h} BY DEF Range
  <2>2. o = Help BY <1>3, <2>1, Apps
  <2>3. QED BY <2>2, <1>1
<1>4. CASE a = "build"
  <2>1. \A h, k, l : Range(<<h, k, l>>) = {h, k, l} BY DEF Range
  <2>2. Options["build"] = <<Help, file, output>> BY DEF Options
  <2>3. o \in {Help, file, output} BY <1>4, <2>1, <2>2
  <2>4. QED BY <2>3, <1>1, <1>2
<1>5. CASE a = "init" BY <1>5, InitOption
<1>6. QED BY <1>3, <1>4, <1>5, Apps

\* No option was given anything.
LEMMA OptionFacts ==
    ASSUME NEW a \in App, NEW o \in Range(Options[a]), results = NoResults
    PROVE  Count(a, o) = 0
<1>1. PICK i \in DOMAIN Options[a] : o = Options[a][i] BY DEF Range
<1>2. results[a] = [n \in {Options[a][j].name : j \in DOMAIN Options[a]} |-> <<>>] BY DEF NoResults
<1>3. o.name \in {Options[a][j].name : j \in DOMAIN Options[a]} BY <1>1
<1>4. results[a][o.name] = <<>> BY <1>2, <1>3
<1>5. QED BY <1>4 DEF Count

\* _process finds nothing wrong with the line, and info acts.
LEMMA InfoVerdict ==
    ASSUME InfoLine, InfoBehind
    PROVE  Verdict = "parsed" /\ Acting = "info"
<1>1. results = NoResults /\ missing = NoneMissing /\ parsed = InfoParsed /\ parsed_subcommands = <<"info">>
  BY DEF InfoLine, InfoBehind
<1>2. Count("root", Help) = 0 /\ Count("info", Help) = 0
  <2>1. \A h : Range(<<h>>) = {h} BY DEF Range
  <2>2. Help \in Range(Options["root"]) /\ Help \in Range(Options["info"]) BY <2>1, Apps
  <2>3. QED BY <2>2, <1>1, Apps, OptionFacts
<1>3. ~ CallsForHelp
  <2>1. Range(parsed_subcommands) = {"info"}
    <3>1. \A h : Range(<<h>>) = {h} BY DEF Range
    <3>2. QED BY <1>1, <3>1
  <2>2. parsed_subcommands # <<>> BY <1>1
  <2>3. ~ (Count("root", Help) > 0) /\ ~ (Count("info", Help) > 0) BY <1>2
  <2>4. QED BY <2>1, <2>2, <2>3 DEF CallsForHelp
<1>4. ~ TooMany
  <2>1. SUFFICES ASSUME NEW a \in App, NEW o \in Range(Options[a]), o.max > 0, Count(a, o) > o.max PROVE FALSE
    BY DEF TooMany
  <2>2. Count(a, o) = 0 BY <1>1, OptionFacts
  <2>3. o.max \in Nat BY OptionMax
  <2>4. QED BY <2>1, <2>2, <2>3
<1>5. ~ Lacking
  <2>1. SUFFICES ASSUME NEW a \in App, parsed[a] > 0, Needs(a) PROVE FALSE BY DEF Lacking
  <2>2. a = "root" \/ a = "info" BY <2>1, <1>1, Apps
  <2>3. QED BY <2>1, <2>2, NoNeeds
<1>6. ~ LeftOver BY <1>1 DEF LeftOver, NoneMissing
<1>7. Acting = "info"
  <2>1. parsed["init"] = 0 /\ parsed["info"] = 1 BY <1>1, Apps
  <2>2. QED BY <2>1 DEF Acting
<1>8. QED BY <1>3, <1>4, <1>5, <1>6, <1>7 DEF Verdict

\* then goes back, and the line is parsed.
LEMMA InfoStep ==
    ASSUME InfoLine, CNext
    PROVE  InfoLine'
<1>1. CASE InfoBefore BY <1>1, InfoRead
<1>2. CASE InfoBehind
  <2>1. args = <<>> /\ ~ Running BY <1>2 DEF InfoBehind, Running
  <2>2. Return \/ Process
    <3>1. ~ ParseSingle
      BY <2>1, Zenon DEF ParseSingle, PositionalMark, SubcommandTerminator, PositionalWord, ParseSubcommand,
            OwnOption, DottedOption, UnknownOption
    <3>2. QED BY <3>1 DEF CNext
  <2>3. CASE Return
    <3>1. calls' = Front(calls) /\ Len(calls) > 1 BY <2>3 DEF Return, Leave
    <3>2. calls = <<RootCall, InfoCall>>
      <4>1. \A b : ~ (Len(<<b>>) > 1) OBVIOUS
      <4>2. calls = <<RootCall>> \/ calls = <<RootCall, InfoCall>> BY <1>2 DEF InfoBehind
      <4>3. QED BY <3>1, <4>1, <4>2
    <3>3. calls' = <<RootCall>>
      <4>1. Front(<<RootCall, InfoCall>>) = <<RootCall>> BY Pairs
      <4>2. QED BY <3>1, <3>2, <4>1
    <3>4. /\ args' = args /\ results' = results /\ missing' = missing /\ parsed' = parsed
          /\ parsed_subcommands' = parsed_subcommands /\ outcome' = outcome
      BY <2>3 DEF Return
    <3>5. QED BY <1>2, <3>3, <3>4 DEF InfoLine, InfoBehind
  <2>4. CASE Process
    <3>1. outcome' = "parsed" BY <1>2, <2>4, InfoVerdict DEF Process
    <3>2. /\ args' = args /\ results' = results /\ missing' = missing /\ parsed' = parsed
          /\ parsed_subcommands' = parsed_subcommands /\ calls' = calls
      BY <2>4 DEF Process
    <3>3. QED BY <1>2, <3>1, <3>2 DEF InfoLine, InfoBehind
  <2>5. QED BY <2>2, <2>3, <2>4
<1>3. QED BY <1>1, <1>2 DEF InfoLine

-----------------------------------------------------------------------------
(* From the first run to the second. *)

Untold == \A f \in Range(Field) : answers[f] = <<>>
Shown == seen = "shown" /\ shown = [i \in DOMAIN Field |-> CStr(answers[Field[i]])]

\* The entry point is not the name of the project file, or it may lead there.
Kept == EntryPoint # ProjectFile
Lost == LastPart(EntryPoint) = ProjectFile
Stored == (Kept /\ project = Written(Told)) \/ (Lost /\ project = Program)

ReadsTold ==
    \E strings, begin, place :
        strings = Told /\ Wrote(strings, 8, begin, place) /\ ReaderAt(strings, 8, begin, place)

\* Reading the program: it begins like no value, but for a number.
ReadsProgram ==
    /\ text = Program /\ at = 1
    /\ \/ error = kParseErrorNone /\ expect = "value"
       \/ error = kParseErrorNone /\ expect = "number" /\ token = <<"start">>
       \/ error = "ValueInvalid"

RoundInv ==
    \/ Untold /\ phase = "line" /\ LineTyped /\ typed \in WordList
    \/ Untold /\ phase \in {"info", "reading", "ended"}
    \/ Answered /\ phase = "init" /\ typed \in WordList
    \/ Answered /\ phase = "write"
    \/ Answered /\ phase \in {"written", "info"} /\ Stored
    \/ Answered /\ phase = "line" /\ Stored /\ InfoLine
    \/ Answered /\ phase = "reading" /\ ((Kept /\ ReadsTold) \/ (Lost /\ ReadsProgram))
    \/ Answered /\ phase = "ended" /\ ((Kept /\ Shown) \/ (Lost /\ seen = "error"))

\* What main's strings decide stays as long as they do.
LEMMA SameAnswers ==
    ASSUME answers' = answers
    PROVE  Answered' = Answered /\ Told' = Told /\ Kept' = Kept /\ Lost' = Lost
           /\ (project' = project => Stored' = Stored)
<1>1. Answered' = Answered BY DEF Answered
<1>2. Told' = Told BY DEF Told
<1>3. Kept' = Kept BY DEF Kept, EntryPoint
<1>4. Lost' = Lost BY DEF Lost, EntryPoint
<1>5. QED BY <1>1, <1>2, <1>3, <1>4, Zenon DEF Stored

\* What the program of a new package begins with.
LEMMA ProgramFacts ==
    /\ Program[1] = "int" /\ Len(Program) = 9 /\ Program # NoProject
    /\ Program[1] \notin Blank /\ Program[1] # Nul
    /\ Program[1] \notin Words \cup DOMAIN StartOf \cup {Quote}
    /\ Reached("start", Program[1]) = "over"
    /\ Program \in Seq(Range(Program))
    /\ kParseErrorNone # "ValueInvalid"
<1>1. Program[1] = "int" /\ Len(Program) = 9 BY DEF Program
<1>2. Program # NoProject
  <2>1. Len(NoProject) = 1 BY DEF NoProject
  <2>2. QED BY <1>1, <2>1
<1>3. "int" \notin Blank BY DEF Blank
<1>4. "int" # Nul BY DEF Nul
<1>5. "int" \notin Words \cup DOMAIN StartOf \cup {Quote} BY DEF Words, StartOf, Quote
<1>6. Reached("start", "int") = "over" BY DEF Reached, Digit
<1>7. Program \in Seq(Range(Program))
  <2>1. DOMAIN Program = 1..9 BY DEF Program
  <2> DEFINE S == Range(Program)
  <2>2. \A i \in 1..9 : Program[i] \in S BY <2>1 DEF Range
  <2>3. Program = [i \in 1..9 |-> Program[i]] BY DEF Program
  <2> HIDE DEF S
  <2>4. [i \in 1..9 |-> Program[i]] \in Seq(S)
    <3>1. 9 \in Nat OBVIOUS
    <3>2. \A i \in 1..9 : Program[i] \in S BY <2>2
    <3>3. QED BY <3>1, <3>2
  <2>5. QED BY <2>3, <2>4 DEF S
<1>8. kParseErrorNone # "ValueInvalid" BY Zenon DEF kParseErrorNone
<1>9. QED BY <1>1, <1>2, <1>3, <1>4, <1>5, <1>6, <1>7, <1>8

\* The tool starts with nothing told.
LEMMA RoundInit ==
    ASSUME Init
    PROVE  RoundInv
<1>1. PICK s \in Starts :
        /\ CInit(s.line) /\ phase = "line" /\ typed = s.typed
        /\ answers = [f \in Range(Field) |-> <<>>]
  BY DEF Init
<1>2. s.line \in Seq(Seq(STRING)) /\ s.typed \in Seq(Seq(STRING)) BY StartsAssumption
<1>3. \A w : w \in Seq(Seq(STRING)) => w \in WordList
  <2>1. STRING \subseteq Char BY Piece, Zenon
  <2>2. \A v : v \in Seq(STRING) => v \in Seq(Char)
    <3> DEFINE S == STRING
    <3> HIDE DEF S
    <3>1. SUFFICES ASSUME NEW v \in Seq(S) PROVE v \in Seq(Char) BY DEF S
    <3>2. S \subseteq Char BY <2>1 DEF S
    <3>3. QED BY <3>2
  <2> DEFINE A == Seq(STRING)
  <2> HIDE DEF A
  <2>3. A \subseteq Seq(Char) BY <2>2 DEF A
  <2>4. \A w : w \in Seq(A) => w \in Seq(Seq(Char)) BY <2>3
  <2>5. QED BY <2>4 DEF A, WordList
<1>4. args \in WordList /\ typed \in WordList /\ results = NoResults BY <1>1, <1>2, <1>3 DEF CInit
<1>5. ResultsTyped
  <2>1. "init" \in App BY Apps
  <2>2. results["init"] = [n \in {Options["init"][i].name : i \in DOMAIN Options["init"]} |-> <<>>]
        /\ "init" \in DOMAIN results
    BY <1>4, <2>1 DEF NoResults
  <2>3. \A f \in Range(Field) : f \in {Options["init"][i].name : i \in DOMAIN Options["init"]} BY FieldNames
  <2>4. <<>> \in WordList BY DEF WordList
  <2>5. QED BY <2>2, <2>3, <2>4 DEF ResultsTyped
<1>6. Untold BY <1>1 DEF Untold
<1>7. QED BY <1>1, <1>4, <1>5, <1>6 DEF RoundInv, LineTyped

\* What init was given on the line becomes main's strings.
LEMMA RoundDispatch ==
    ASSUME RoundInv, Dispatch
    PROVE  RoundInv'
<1>1. phase = "line" /\ outcome # "parsing" BY DEF Dispatch
<1>2. answers' = answers \/ (outcome = "parsed" /\ Acting = "init") BY DEF Dispatch
<1>3. phase' \in {"init", "info", "ended"} BY Zenon DEF Dispatch
<1>4. typed' = typed /\ project' = project BY DEF Dispatch
<1>5. CASE Untold /\ LineTyped /\ typed \in WordList
  <2>1. CASE outcome = "parsed" /\ Acting = "init"
    <3>1. /\ phase' = "init"
          /\ answers' = [f \in Range(Field) |-> IF results["init"][f] = <<>> THEN <<>> ELSE results["init"][f][1]]
      BY <2>1, Zenon DEF Dispatch
    <3>2. ASSUME NEW f \in Range(Field)
          PROVE  (IF results["init"][f] = <<>> THEN <<>> ELSE results["init"][f][1]) \in Seq(Char)
      <4> DEFINE r == results["init"][f]
      <4>1. r \in Seq(Seq(Char)) BY <1>5 DEF LineTyped, ResultsTyped, WordList
      <4> HIDE DEF r
      <4>2. r # <<>> => r[1] \in Seq(Char) BY <4>1
      <4>3. QED BY <4>2 DEF r
    <3>3. Answered' BY <3>1, <3>2 DEF Answered
    <3>4. QED BY <3>1, <3>3, <1>4, <1>5 DEF RoundInv
  <2>2. CASE ~ (outcome = "parsed" /\ Acting = "init")
    <3>1. answers' = answers /\ phase' # "init" BY <2>2, <1>2, Zenon DEF Dispatch
    <3>2. Untold' BY <3>1, <1>5 DEF Untold
    <3>3. QED BY <3>1, <3>2, <1>3 DEF RoundInv
  <2>3. QED BY <2>1, <2>2
<1>6. CASE Answered /\ Stored /\ InfoLine
  <2>1. InfoBehind BY <1>1, <1>6 DEF InfoLine, InfoBefore
  <2>2. outcome = "parsed" /\ Acting = "info" BY <1>1, <1>6, <2>1, InfoVerdict DEF InfoBehind
  <2>3. phase' = "info" /\ answers' = answers BY <2>2, Zenon DEF Dispatch
  <2>4. Answered' /\ Stored' BY <2>3, <1>4, <1>6, SameAnswers
  <2>5. QED BY <2>3, <2>4 DEF RoundInv
<1>7. QED BY <1>1, <1>5, <1>6 DEF RoundInv

\* What was not given is asked for or filled in.
LEMMA RoundAsk ==
    ASSUME RoundInv, Ask
    PROVE  RoundInv'
<1>1. phase = "init" /\ phase' = "write" BY DEF Ask
<1>2. Answered /\ typed \in WordList BY <1>1 DEF RoundInv
<1> DEFINE lacking(i) == Cardinality({j \in Unasked : j <= i})
           said(f) == LET i == CHOOSE k \in DOMAIN Field : Field[k] = f IN
                      IF i \in Unasked /\ lacking(i) <= Len(typed) THEN typed[lacking(i)] ELSE answers[f]
<1>3. answers' = [f \in Range(Field) |-> IF said(f) = <<>> THEN Default(f) ELSE said(f)] BY DEF Ask
<1>4. ASSUME NEW f \in Range(Field) PROVE said(f) \in Seq(Char)
  <2> DEFINE i == CHOOSE k \in DOMAIN Field : Field[k] = f
  <2>1. answers[f] \in Seq(Char) BY <1>2 DEF Answered
  <2>2. ASSUME i \in Unasked, lacking(i) <= Len(typed) PROVE typed[lacking(i)] \in Seq(Char)
    <3> DEFINE T == {j \in Unasked : j <= i}
    <3>1. Unasked \subseteq 1..8 BY Members DEF Unasked
    <3>2. PICK k \in 1..8 : k = i /\ k \in Unasked BY <2>2, <3>1
    <3>3. T = {j \in Unasked : j <= k} BY <3>2
    <3>4. k \in {j \in Unasked : j <= k} /\ {j \in Unasked : j <= k} \subseteq 1..8
      <4>1. k <= k OBVIOUS
      <4>2. k \in Unasked BY <3>2
      <4> HIDE DEF i, T
      <4>3. QED BY <4>1, <4>2, <3>1
    <3> HIDE DEF i, T
    <3>5. k \in T /\ T \subseteq 1..8 BY <3>3, <3>4
    <3>10. IsFiniteSet(T)
      <4>1. 1 \in Int /\ 8 \in Int OBVIOUS
      <4>2. IsFiniteSet(1..8) BY <4>1, FS_Interval
      <4>3. QED BY <4>2, <3>5, FS_Subset
    <3>11. Cardinality(T) \in Nat /\ Cardinality(T) # 0 BY <3>5, <3>10, FS_CardinalityType, FS_EmptySet
    <3> DEFINE c == Cardinality(T)
    <3>6. c \in Nat /\ c # 0 BY <3>11
    <3>7. lacking(i) = c BY DEF T
    <3> HIDE DEF c, lacking
    <3>8. c \in 1..Len(typed) /\ typed \in Seq(Seq(Char))
      <4>1. Len(typed) \in Nat BY <1>2, LenProperties DEF WordList
      <4>2. QED BY <4>1, <3>6, <3>7, <2>2, <1>2 DEF WordList
    <3>9. typed[c] \in Seq(Char) BY <3>8, ElementOfSeq
    <3>12. QED BY <3>7, <3>9
  <2> HIDE DEF i, lacking
  <2>3. said(f) = IF i \in Unasked /\ lacking(i) <= Len(typed) THEN typed[lacking(i)] ELSE answers[f] BY DEF i
  <2> HIDE DEF said
  <2>4. QED BY <2>1, <2>2, <2>3
<1>5. \A f : Default(f) \in Seq(Char)
  <2>1. {"1.0.0", "main.th", "MIT"} \subseteq Char BY Piece, Zenon
  <2>2. <<"1.0.0">> \in Seq(Char) /\ <<"main.th">> \in Seq(Char) /\ <<"MIT">> \in Seq(Char) BY <2>1, OneTyped
  <2>3. <<>> \in Seq(Char) OBVIOUS
  <2>4. QED BY <2>2, <2>3 DEF Default
<1> HIDE DEF said
<1>6. Answered' BY <1>3, <1>4, <1>5 DEF Answered
<1>7. QED BY <1>1, <1>6 DEF RoundInv

\* info opens what init wrote,
LEMMA RoundOpen ==
    ASSUME RoundInv, OpenProject
    PROVE  RoundInv'
<1>1. phase = "info" /\ answers' = answers /\ phase' \in {"ended", "reading"} BY DEF OpenProject
<1>2. CASE Untold
  <2>1. Untold' BY <1>1, <1>2 DEF Untold
  <2>2. QED BY <1>1, <2>1 DEF RoundInv
<1>3. CASE Answered /\ Kept /\ project = Written(Told)
  <2>1. PICK strings : strings = Told OBVIOUS
  <2>2. Told' = strings /\ Answered' /\ Kept' BY <1>1, <1>3, <2>1, SameAnswers
  <2>3. /\ strings \in Seq(Seq(Char)) /\ Len(strings) = 16
        /\ \A i \in 1..16 : \A j \in 1..Len(strings[i]) : strings[i][j] # Nul
    BY <1>3, <2>1, ToldFacts
  <2>4. /\ \E begin, place : LaidOut(strings, project, begin, place)
        /\ project \in Seq(Char) /\ project # NoProject /\ Skip(project, 1) = 1
        /\ ~ (1 > Len(project) \/ project[1] = Nul)
    <3>1. Len(strings) # 0 BY <2>3
    <3>2. project = Written(strings) BY <1>3, <2>1
    <3>3. QED BY <2>3, <3>1, <3>2, OpensWritten
  <2>5. PICK begin, place : LaidOut(strings, project, begin, place) BY <2>4
  <2>6. phase' = "reading" /\ Parse(project) BY <2>4, Zenon DEF OpenProject
  <2>7. /\ text' = project /\ at' = 1 /\ frames' = <<>> /\ stack' = <<>>
        /\ expect' = "value" /\ error' = kParseErrorNone
    BY <2>4, <2>6 DEF Parse
  <2>8. Wrote(strings, 8, begin, place)'
    <3>1. 8 \in Nat /\ 8 # 0 /\ Len(strings) = 2 * 8 BY <2>3
    <3>2. \A i \in 1..(2 * 8) : \A j \in 1..Len(strings[i]) : strings[i][j] # Nul
      <4>1. 2 * 8 = 16 OBVIOUS
      <4>2. QED BY <2>3, <4>1
    <3>3. text' \in Seq(Char) /\ LaidOut(strings, text', begin, place) BY <2>4, <2>5, <2>7
    <3> HIDE DEF LaidOut
    <3>4. LaidOut(strings, text, begin, place)' BY <3>3 DEF LaidOut
    <3>5. QED BY <3>1, <3>2, <3>3, <3>4, <2>3 DEF Wrote
  <2>9. ReaderAt(strings, 8, begin, place)' BY <2>7 DEF ReaderAt, AtBrace
  <2>10. ReadsTold' BY <2>2, <2>8, <2>9 DEF ReadsTold
  <2>11. QED BY <2>2, <2>6, <2>10 DEF RoundInv
<1>4. CASE Answered /\ Lost /\ project = Program
  <2>1. Skip(Program, 1) = 1
    <3>1. Program \in Seq(Range(Program)) BY ProgramFacts
    <3>2. 1 \in 1..(Len(Program) + 1) BY ProgramFacts
    <3>3. QED BY <3>1, <3>2, ProgramFacts, SkipNone
  <2>2. phase' = "reading" /\ Parse(project) BY <1>4, ProgramFacts, Zenon DEF OpenProject
  <2>3. ~ (1 > Len(Program)) BY ProgramFacts
  <2>4. text' = Program /\ at' = 1 /\ expect' = "value" /\ error' = kParseErrorNone
    BY <1>4, <2>1, <2>2, <2>3, ProgramFacts DEF Parse
  <2>5. ReadsProgram' BY <2>4 DEF ReadsProgram
  <2>6. Answered' /\ Lost' BY <1>1, <1>4, SameAnswers
  <2>7. QED BY <2>2, <2>5, <2>6 DEF RoundInv
<1>5. QED BY <1>1, <1>2, <1>3, <1>4 DEF RoundInv, Stored

\* The reader takes the program for a number and finds none.
LEMMA RejectsProgram ==
    ASSUME ReadsProgram, JNext
    PROVE  ReadsProgram'
<1>1. Reading /\ text' = text
  BY Zenon DEF JNext, Literal, Start, First, MemberName, Colon, Separator, Root, StringStart,
     StringEnd, StringChar, StringEscape, InString, NumberStart, Number
<1>2. error = kParseErrorNone BY <1>1 DEF Reading
<1>3. Peek = "int"
  <2>1. 1 <= Len(Program) BY ProgramFacts
  <2>2. QED BY <2>1, ProgramFacts DEF ReadsProgram, Peek, CharAt
<1>4. expect \in {"value", "number"} BY <1>2, ProgramFacts DEF ReadsProgram
<1>5. NumberStart \/ Number
  <2>1. /\ Peek \notin Words \cup DOMAIN StartOf \cup {Quote} BY <1>3, ProgramFacts
  <2>2. ~ Literal /\ ~ Start /\ ~ StringStart BY <2>1 DEF Literal, Start, StringStart
  <2>3. ~ First /\ ~ MemberName /\ ~ Colon /\ ~ Separator /\ ~ Root /\ ~ InString
    <3>1. expect \notin {"first", "name", "colon", "separator", "root", "key", "string"} BY <1>4
    <3>2. QED BY <3>1, Zenon DEF First, MemberName, Colon, Separator, Root, InString
  <2>4. ~ StringEnd /\ ~ StringChar /\ ~ StringEscape
    BY <2>3, Zenon DEF StringEnd, StringChar, StringEscape
  <2>5. QED BY <2>2, <2>3, <2>4, Zenon DEF JNext
<1>6. CASE NumberStart
  <2>1. at' = at /\ error' = error /\ expect' = "number" /\ token' = <<"start">>
    BY <1>6 DEF NumberStart
  <2>2. QED BY <1>1, <1>2, <2>1 DEF ReadsProgram
<1>7. CASE Number
  <2>1. expect = "number" BY <1>7 DEF Number
  <2>2. token = <<"start">> BY <1>2, <2>1, ProgramFacts DEF ReadsProgram
  <2>3. token[1] = "start" BY <2>2
  <2>4. Reached(token[1], Peek) = "over" BY <1>3, <2>3, ProgramFacts
  <2>5. token[1] \in {"start", "minus"} BY <2>3
  <2>6. Fail("ValueInvalid") BY <1>7, <2>4, <2>5, Zenon DEF Number
  <2>7. error' = "ValueInvalid" /\ at' = at BY <2>6 DEF Fail
  <2>8. QED BY <1>1, <2>7 DEF ReadsProgram
<1>8. QED BY <1>5, <1>6, <1>7

\* reads it to its end,
LEMMA RoundRead ==
    ASSUME RoundInv, Read
    PROVE  RoundInv'
<1>1. phase = "reading" /\ JNext /\ phase' = phase /\ answers' = answers BY DEF Read, mainvars
<1>2. CASE Untold
  <2>1. Untold' BY <1>1, <1>2 DEF Untold
  <2>2. QED BY <1>1, <2>1 DEF RoundInv
<1>3. CASE Answered /\ Kept /\ ReadsTold
  <2>1. PICK strings, begin, place :
            strings = Told /\ Wrote(strings, 8, begin, place) /\ ReaderAt(strings, 8, begin, place)
    BY <1>3 DEF ReadsTold
  <2>2. Told' = strings /\ Answered' /\ Kept' BY <1>1, <1>3, <2>1, SameAnswers
  <2>3. Wrote(strings, 8, begin, place)' /\ ReaderAt(strings, 8, begin, place)' BY <1>1, <2>1, ReaderStep
  <2>4. ReadsTold' BY <2>2, <2>3 DEF ReadsTold
  <2>5. QED BY <1>1, <2>2, <2>4 DEF RoundInv
<1>4. CASE Answered /\ Lost /\ ReadsProgram
  <2>1. ReadsProgram' BY <1>1, <1>4, RejectsProgram
  <2>2. Answered' /\ Lost' BY <1>1, <1>4, SameAnswers
  <2>3. QED BY <1>1, <2>1, <2>2 DEF RoundInv
<1>5. QED BY <1>1, <1>2, <1>3, <1>4 DEF RoundInv

\* and shows what init was told.
LEMMA RoundShow ==
    ASSUME RoundInv, Show
    PROVE  RoundInv'
<1>1. phase = "reading" /\ ~ Reading /\ phase' = "ended" /\ answers' = answers BY DEF Show
<1>2. CASE Untold
  <2>1. Untold' BY <1>1, <1>2 DEF Untold
  <2>2. QED BY <1>1, <2>1 DEF RoundInv
<1>3. CASE Answered /\ Kept /\ ReadsTold
  <2>1. PICK strings, begin, place :
            strings = Told /\ Wrote(strings, 8, begin, place) /\ ReaderAt(strings, 8, begin, place)
    BY <1>3 DEF ReadsTold
  <2>2. error = kParseErrorNone /\ expect = "end" BY <1>1, <2>1 DEF ReaderAt, Reading
  <2>3. stack = <<Whole(Told)>>
    <3>1. AtTail(strings)
      BY <2>1, <2>2 DEF ReaderAt, AtBrace, AtFirst, AtName, AtColon, AtMember, AtSeparator
    <3>2. QED BY <2>1, <3>1 DEF AtTail
  <2>4. stack[1] = Whole(Told) BY <2>3
  <2>5. /\ Showable(Whole(Told))
        /\ \A k \in 1..8 : CStr(Found(Whole(Told), Member[k]).chars) = CStr(answers[Field[k]])
    BY <1>3, ShowsTold
  <2>6. /\ seen' = "shown"
        /\ shown' = [i \in DOMAIN Member |-> CStr(Found(stack[1], Member[i]).chars)]
    BY <2>2, <2>4, <2>5, Zenon DEF Show
  <2>7. shown' = [i \in DOMAIN Field |-> CStr(answers[Field[i]])]
    <3>1. shown' = [i \in 1..8 |-> CStr(Found(Whole(Told), Member[i]).chars)] BY <2>4, <2>6, Members
    <3>2. DOMAIN Field = 1..8 BY Members
    <3>3. QED BY <2>5, <3>1, <3>2
  <2>8. Shown' BY <1>1, <2>6, <2>7 DEF Shown
  <2>9. Answered' /\ Kept' BY <1>1, <1>3, SameAnswers
  <2>10. QED BY <1>1, <2>8, <2>9 DEF RoundInv
<1>4. CASE Answered /\ Lost /\ ReadsProgram
  <2>1. error # kParseErrorNone BY <1>1, <1>4, ProgramFacts DEF ReadsProgram, Reading
  <2>2. seen' = "error" BY <2>1 DEF Show
  <2>3. Answered' /\ Lost' BY <1>1, <1>4, SameAnswers
  <2>4. QED BY <1>1, <2>2, <2>3 DEF RoundInv
<1>5. QED BY <1>1, <1>2, <1>3, <1>4 DEF RoundInv

\* Every step of the tool keeps the round trip on its way.
LEMMA RoundNext ==
    ASSUME RoundInv, [Next]_tvars
    PROVE  RoundInv'
<1>1. CASE ParseLine
  <2>1. phase = "line" /\ CNext /\ phase' = phase /\ typed' = typed /\ answers' = answers /\ project' = project
    BY <1>1 DEF ParseLine, mainvars
  <2>2. CASE Untold /\ LineTyped /\ typed \in WordList
    <3>1. LineTyped' BY <2>1, <2>2, LineStep
    <3>2. Untold' BY <2>1, <2>2 DEF Untold
    <3>3. QED BY <2>1, <2>2, <3>1, <3>2 DEF RoundInv
  <2>3. CASE Answered /\ Stored /\ InfoLine
    <3>1. InfoLine' BY <2>1, <2>3, InfoStep
    <3>2. Answered' /\ Stored' BY <2>1, <2>3, SameAnswers
    <3>3. QED BY <2>1, <3>1, <3>2 DEF RoundInv
  <2>4. QED BY <2>1, <2>2, <2>3 DEF RoundInv
<1>2. CASE Dispatch BY <1>2, RoundDispatch
<1>3. CASE Ask BY <1>3, RoundAsk
<1>4. CASE Write
  <2>1. /\ phase = "write" /\ phase' = "written" /\ answers' = answers
        /\ (Kept /\ project' = Written(Told)) \/ (Lost /\ project' = Program)
    BY <1>4 DEF Write, Kept, Lost
  <2>2. Answered BY <2>1 DEF RoundInv
  <2>3. Answered' /\ Told' = Told /\ Kept' = Kept /\ Lost' = Lost BY <2>1, <2>2, SameAnswers
  <2>4. Stored' BY <2>1, <2>3 DEF Stored
  <2>5. QED BY <2>1, <2>3, <2>4 DEF RoundInv
<1>5. CASE Again
  <2>1. phase = "written" /\ phase' = "line" /\ project' = project /\ answers' = answers /\ CAgain(<< <<"info">> >>)
    BY <1>5 DEF Again
  <2>2. Answered /\ Stored BY <2>1 DEF RoundInv
  <2>3. Answered' /\ Stored' BY <2>1, <2>2, SameAnswers
  <2>4. InfoLine' BY <2>1, Zenon DEF CAgain, InfoLine, InfoBefore, Info, RootCall
  <2>5. QED BY <2>1, <2>3, <2>4 DEF RoundInv
<1>6. CASE OpenProject BY <1>6, RoundOpen
<1>7. CASE Read BY <1>7, RoundRead
<1>8. CASE Show BY <1>8, RoundShow
<1>9. CASE UNCHANGED tvars
  <2>1. UNCHANGED <<cvars, jvars, phase, typed, answers, project, seen, shown>> BY <1>9 DEF tvars
  <2>2. UNCHANGED <<phase, typed, answers, project, seen, shown>> BY <2>1
  <2>3. UNCHANGED <<args, calls, results, missing, parsed, parsed_subcommands, outcome>> BY <2>1 DEF cvars
  <2>4. UNCHANGED <<text, at, frames, expect, token, stack, error>> BY <2>1 DEF jvars
  <2>5. answers' = answers /\ phase' = phase /\ typed' = typed /\ project' = project /\ seen' = seen /\ shown' = shown
    BY <2>2
  <2>6. Untold' = Untold /\ Shown' = Shown /\ ReadsProgram' = ReadsProgram
    BY <2>4, <2>5 DEF Untold, Shown, ReadsProgram
  <2>11. Answered' = Answered /\ Told' = Told /\ Kept' = Kept /\ Lost' = Lost /\ Stored' = Stored
    BY <2>5, SameAnswers
  <2>7. LineTyped' = LineTyped BY <2>3 DEF LineTyped, ResultsTyped
  <2>8. InfoLine' = InfoLine BY <2>3 DEF InfoLine, InfoBefore, InfoBehind
  <2>9. ReadsTold => ReadsTold'
    <3>1. SUFFICES ASSUME ReadsTold PROVE ReadsTold' OBVIOUS
    <3>2. PICK strings, begin, place :
              strings = Told /\ Wrote(strings, 8, begin, place) /\ ReaderAt(strings, 8, begin, place)
      BY <3>1 DEF ReadsTold
    <3>3. Wrote(strings, 8, begin, place)' BY <3>2, <2>4 DEF Wrote
    <3>4. ReaderAt(strings, 8, begin, place)'
      <4>1. UNCHANGED <<AtBrace, AtFirst(strings), AtTail(strings)>>
        BY <2>4 DEF AtBrace, AtFirst, AtTail
      <4>2. ASSUME NEW m PROVE UNCHANGED <<AtName(strings, begin, m), AtColon(strings, begin, m),
                AtMember(strings, begin, m), AtSeparator(strings, begin, m)>>
        BY <2>4 DEF AtName, AtColon, AtMember, AtSeparator, Within
      <4>3. ASSUME NEW m, NEW i PROVE AtString(strings, place, m, i)' = AtString(strings, place, m, i)
        BY <2>4 DEF AtString, Within
      <4>4. expect' = expect /\ error' = error BY <2>4
      <4>5. QED BY <3>2, <4>1, <4>2, <4>3, <4>4 DEF ReaderAt
    <3>5. QED BY <3>2, <3>3, <3>4, <2>11 DEF ReadsTold
  <2>10. QED BY <2>5, <2>6, <2>7, <2>8, <2>9, <2>11 DEF RoundInv
<1>10. QED BY <1>1, <1>2, <1>3, <1>4, <1>5, <1>6, <1>7, <1>8, <1>9 DEF Next

\* info shows what init was told, whatever it was, unless the entry point leads to
\* the project file: then the program is there, and info ends with a parse error
\* (acli.cpp:24-46, 78-85, 99-127).
THEOREM RoundTripHolds == Spec => []RoundTrip
<1>1. RoundInv => RoundTrip
  <2>1. "license" \in Range(Field)
    <3>1. 8 \in DOMAIN Field /\ Field[8] = "license" BY DEF Field
    <3>2. QED BY <3>1 DEF Range
  <2>2. QED BY <2>1 DEF RoundInv, RoundTrip, Untold, Shown, Kept, Lost
<1>2. Init => RoundInv BY RoundInit
<1>3. RoundInv /\ [Next]_tvars => RoundInv' BY RoundNext
<1>4. QED BY <1>1, <1>2, <1>3, PTL DEF Spec
=============================================================================
