----------------------------- MODULE ParserProofs -----------------------------
(***************************************************************************)
(* Theorems about yyparse, for every input and every depth of its stacks:   *)
(* driven by the tables of parser.cpp it derives what parser.y derives, and *)
(* the trees it builds lose nothing of what was written.                    *)
(* The first argument is that of the construction of LR parsers: the items  *)
(* of the states on the stack (ParserItems) tell what lies below them.  The *)
(* second says for each value on the stack which words it stands for, and   *)
(* follows them through the actions of the grammar.                         *)
(***************************************************************************)
EXTENDS Spelling, ParserItems, SequenceTheorems, FiniteSetTheorems,
        WellFoundedInduction, TLAPS

\* The items of the state at a position are seen below it: what they have seen
\* are the symbols the states were entered by, and where they begin, they are
\* items of the state that lies there.
SeenBelow(stack, j) ==
    \A i \in LRItems : i.state = stack[j] =>
        \A k \in 0..i.seen :
            /\ k < j
            /\ Item(stack[j - k], i.rule, i.seen - k) \in LRItems
            /\ k < i.seen => Rhs(i.rule)[i.seen - k] = EnteredBy(stack[j - k])

\* A stack of states as the construction of the tables intends it.
Viable(stack) ==
    /\ stack \in Seq(States) /\ Len(stack) >= 1 /\ stack[1] = 0
    /\ \A j \in 2..Len(stack) : stack[j] # 0
    /\ \A j \in 1..Len(stack) : SeenBelow(stack, j)

-----------------------------------------------------------------------------
(* The stacks. *)

LEMMA ItemFields ==
    ASSUME NEW s, NEW r, NEW n
    PROVE  /\ Item(s, r, n).state = s /\ Item(s, r, n).rule = r
           /\ Item(s, r, n).seen = n
BY DEF Item

LEMMA ItemTyped ==
    ASSUME NEW i \in LRItems
    PROVE  /\ i.state \in States /\ i.rule \in Rules /\ i.seen \in Nat
           /\ i.seen <= Len(Rhs(i.rule))
           /\ i = Item(i.state, i.rule, i.seen)
BY TablesFollowItems DEF Item

\* At first nothing has been seen.
LEMMA FirstStackViable == Viable(<<0>>)
<1>1. 0 \in States
  BY TablesFollowItems DEF States, YYFINAL
<1>2. SeenBelow(<<0>>, 1)
  <2> SUFFICES ASSUME NEW i \in LRItems, i.state = 0, NEW k \in 0..i.seen
               PROVE  /\ k < 1
                      /\ Item(0, i.rule, i.seen - k) \in LRItems
                      /\ k < i.seen => Rhs(i.rule)[i.seen - k] = EnteredBy(0)
    BY DEF SeenBelow
  <2>1. i.seen = 0 /\ k = 0
    BY TablesFollowItems
  <2> QED
    BY <2>1, ItemTyped
<1> QED
  BY <1>1, <1>2 DEF Viable

LEMMA StackOfStates ==
    ASSUME NEW stack, Viable(stack)
    PROVE  \A i \in DOMAIN stack : stack[i] \in States
BY DEF Viable

\* Taking states off the top leaves what lies below.
LEMMA LowerViable ==
    ASSUME NEW stack, Viable(stack), NEW n \in Nat, n < Len(stack)
    PROVE  /\ Viable(SubSeq(stack, 1, Len(stack) - n))
           /\ Last(SubSeq(stack, 1, Len(stack) - n)) = stack[Len(stack) - n]
<1> DEFINE m == Len(stack) - n
           lower == SubSeq(stack, 1, m)
<1>1. stack \in Seq(States) /\ m \in 1..Len(stack)
  BY DEF Viable
<1>2. lower \in Seq(States) /\ Len(lower) = m /\ \A j \in 1..m : lower[j] = stack[j]
  BY <1>1
<1>3. ASSUME NEW j \in 1..m
      PROVE  SeenBelow(lower, j)
  <2> SUFFICES ASSUME NEW i \in LRItems, i.state = lower[j], NEW k \in 0..i.seen
               PROVE  /\ k < j
                      /\ Item(lower[j - k], i.rule, i.seen - k) \in LRItems
                      /\ k < i.seen => Rhs(i.rule)[i.seen - k] = EnteredBy(lower[j - k])
    BY DEF SeenBelow
  <2>1. j \in 1..Len(stack) /\ i.state = stack[j]
    BY <1>1, <1>2, <1>3
  <2>2. /\ k < j
        /\ Item(stack[j - k], i.rule, i.seen - k) \in LRItems
        /\ k < i.seen => Rhs(i.rule)[i.seen - k] = EnteredBy(stack[j - k])
    BY <2>1 DEF Viable, SeenBelow
  <2>3. k \in Nat
    BY ItemTyped
  <2>4. j - k \in 1..m
    BY <1>1, <2>2, <2>3
  <2> QED
    BY <1>2, <2>2, <2>4
<1> QED
  BY <1>1, <1>2, <1>3 DEF Viable, Last

\* A state that may stand on top of the highest one may be pushed.
LEMMA PushedViable ==
    ASSUME NEW stack, Viable(stack), NEW state, NEW symbol,
           Enters(Last(stack), state, symbol)
    PROVE  Viable(Append(stack, state))
<1> DEFINE n == Len(stack)
           higher == Append(stack, state)
<1>1. stack \in Seq(States) /\ n \in Nat /\ n >= 1 /\ state \in States \ {0}
  BY DEF Viable, Enters
<1>2. /\ higher \in Seq(States) /\ Len(higher) = n + 1 /\ higher[n + 1] = state
      /\ \A j \in 1..n : higher[j] = stack[j]
  BY <1>1
<1>3. ASSUME NEW j \in 1..n
      PROVE  SeenBelow(higher, j)
  <2> SUFFICES ASSUME NEW i \in LRItems, i.state = higher[j], NEW k \in 0..i.seen
               PROVE  /\ k < j
                      /\ Item(higher[j - k], i.rule, i.seen - k) \in LRItems
                      /\ k < i.seen => Rhs(i.rule)[i.seen - k] = EnteredBy(higher[j - k])
    BY DEF SeenBelow
  <2>1. /\ k < j
        /\ Item(stack[j - k], i.rule, i.seen - k) \in LRItems
        /\ k < i.seen => Rhs(i.rule)[i.seen - k] = EnteredBy(stack[j - k])
    BY <1>2, <1>3 DEF Viable, SeenBelow
  <2>2. k \in Nat
    BY ItemTyped
  <2>3. j - k \in 1..n
    BY <1>1, <2>1, <2>2
  <2> QED
    BY <1>2, <2>1, <2>3
<1>4. SeenBelow(higher, n + 1)
  <2> SUFFICES ASSUME NEW i \in LRItems, i.state = state, NEW k \in 0..i.seen
               PROVE  /\ k < n + 1
                      /\ Item(higher[n + 1 - k], i.rule, i.seen - k) \in LRItems
                      /\ k < i.seen =>
                            Rhs(i.rule)[i.seen - k] = EnteredBy(higher[n + 1 - k])
    BY <1>2 DEF SeenBelow
  <2>1. k \in Nat /\ i.seen \in Nat
    BY ItemTyped
  <2>2. i.seen > 0 => /\ Item(stack[n], i.rule, i.seen - 1) \in LRItems
                      /\ Rhs(i.rule)[i.seen] = EnteredBy(state)
    BY DEF Enters, Carries, Last
  <2>3. CASE k = 0
    <3>1. i.seen - k = i.seen /\ n + 1 - k = n + 1
      BY <1>1, <2>1, <2>3
    <3>2. Item(state, i.rule, i.seen) \in LRItems
      BY ItemTyped
    <3> QED
      BY <1>1, <1>2, <2>1, <2>2, <2>3, <3>1, <3>2
  <2>4. CASE k > 0
    <3> DEFINE below == Item(stack[n], i.rule, i.seen - 1)
    <3>1. i.seen > 0 /\ below \in LRItems
      BY <2>1, <2>2, <2>4
    <3>2. below.state = stack[n] /\ below.rule = i.rule /\ below.seen = i.seen - 1
      BY ItemFields
    <3>3. k - 1 \in 0..below.seen /\ n \in 1..n
      BY <1>1, <2>1, <2>4, <3>2
    <3>4. SeenBelow(stack, n)
      BY <3>3 DEF Viable
    <3> HIDE DEF below
    <3>5. /\ k - 1 < n
          /\ Item(stack[n - (k - 1)], i.rule, below.seen - (k - 1)) \in LRItems
          /\ k - 1 < below.seen =>
                Rhs(i.rule)[below.seen - (k - 1)] = EnteredBy(stack[n - (k - 1)])
      BY <3>1, <3>2, <3>3, <3>4 DEF SeenBelow
    <3>6. below.seen - (k - 1) = i.seen - k /\ n - (k - 1) = n + 1 - k
      <4>1. \A a, b \in Nat : a - 1 - (b - 1) = a - b /\ a - (b - 1) = a + 1 - b
        OBVIOUS
      <4> QED
        BY <1>1, <2>1, <3>2, <4>1
    <3>7. n + 1 - k \in 1..n /\ k < n + 1
      BY <1>1, <2>1, <2>4, <3>5
    <3>8. higher[n + 1 - k] = stack[n + 1 - k]
      BY <1>2, <3>7
    <3>9. k < i.seen => k - 1 < below.seen
      BY <2>1, <3>2
    <3> QED
      BY <3>5, <3>6, <3>7, <3>8, <3>9
  <2> QED
    BY <2>1, <2>3, <2>4
<1> QED
  BY <1>1, <1>2, <1>3, <1>4 DEF Viable

-----------------------------------------------------------------------------
(* The symbols on the stacks. *)

FormOf(stack) == [i \in 1..(Len(stack) - 1) |-> EnteredBy(stack[i + 1])]
StackSymbols == {EnteredBy(s) : s \in States}

LEMMA FormTyped ==
    ASSUME NEW stack, Viable(stack)
    PROVE  /\ FormOf(stack) \in Seq(StackSymbols)
           /\ Len(FormOf(stack)) = Len(stack) - 1
           /\ Len(stack) \in Nat /\ Len(stack) >= 1
           /\ \A i \in 1..(Len(stack) - 1) : FormOf(stack)[i] = EnteredBy(stack[i + 1])
<1>1. stack \in Seq(States) /\ Len(stack) \in Nat /\ Len(stack) >= 1
  BY DEF Viable
<1>2. \A i \in 1..(Len(stack) - 1) : stack[i + 1] \in States
  BY <1>1
<1> QED
  BY <1>1, <1>2 DEF FormOf, StackSymbols

\* A state that is pushed is one more symbol.
LEMMA PushedForm ==
    ASSUME NEW stack, Viable(stack), NEW state \in States
    PROVE  FormOf(Append(stack, state)) = Append(FormOf(stack), EnteredBy(state))
<1> DEFINE n == Len(stack)
           higher == Append(stack, state)
           left == FormOf(higher)
           right == Append(FormOf(stack), EnteredBy(state))
<1>1. stack \in Seq(States) /\ n \in Nat /\ n >= 1
  BY DEF Viable
<1>2. /\ Len(higher) = n + 1 /\ higher[n + 1] = state
      /\ \A j \in 1..n : higher[j] = stack[j]
  BY <1>1
<1>3. left = [i \in 1..n |-> EnteredBy(higher[i + 1])]
  BY <1>1, <1>2 DEF FormOf
<1>4. /\ FormOf(stack) \in Seq(StackSymbols) /\ Len(FormOf(stack)) = n - 1
      /\ \A i \in 1..(n - 1) : FormOf(stack)[i] = EnteredBy(stack[i + 1])
  BY FormTyped
<1>5. EnteredBy(state) \in StackSymbols
  BY DEF StackSymbols
<1>6. /\ right \in Seq(StackSymbols) /\ Len(right) = n
      /\ right[n] = EnteredBy(state)
      /\ \A i \in 1..(n - 1) : right[i] = FormOf(stack)[i]
  BY <1>1, <1>4, <1>5
<1>7. \A i \in 1..n : right[i] = EnteredBy(higher[i + 1])
  <2> TAKE i \in 1..n
  <2>1. CASE i = n
    BY <1>2, <1>6, <2>1
  <2>2. CASE i # n
    <3>1. i \in 1..(n - 1) /\ i + 1 \in 1..n
      BY <1>1, <2>2
    <3> QED
      BY <1>2, <1>4, <1>6, <3>1
  <2> QED
    BY <2>1, <2>2
<1>8. left \in Seq(StackSymbols) /\ Len(left) = n /\ \A i \in 1..n : left[i] = EnteredBy(higher[i + 1])
  <2>1. \A i \in 1..n : EnteredBy(higher[i + 1]) \in StackSymbols
    <3>1. higher \in Seq(States)
      BY <1>1
    <3>2. \A i \in 1..n : higher[i + 1] \in States
      BY <1>1, <1>2, <3>1
    <3> QED
      BY <3>2 DEF StackSymbols
  <2> HIDE DEF left, higher
  <2> QED
    BY <1>1, <1>3, <2>1
<1> HIDE DEF left, right, higher, n
<1>9. left = right
  BY <1>6, <1>7, <1>8, SeqEqual
<1> QED
  BY <1>9 DEF left, right, higher

\* Taking states off takes their symbols off.
LEMMA LowerForm ==
    ASSUME NEW stack, Viable(stack), NEW n \in Nat, n < Len(stack)
    PROVE  FormOf(SubSeq(stack, 1, Len(stack) - n))
                = SubSeq(FormOf(stack), 1, Len(FormOf(stack)) - n)
<1> DEFINE m == Len(stack) - n
           lower == SubSeq(stack, 1, m)
           right == SubSeq(FormOf(stack), 1, m - 1)
<1>1. stack \in Seq(States) /\ m \in Nat /\ m >= 1 /\ m <= Len(stack) /\ Len(stack) \in Nat
  BY DEF Viable
<1>2. Len(lower) = m /\ \A j \in 1..m : lower[j] = stack[j]
  BY <1>1
<1>3. /\ FormOf(stack) \in Seq(StackSymbols) /\ Len(FormOf(stack)) = Len(stack) - 1
      /\ \A i \in 1..(Len(stack) - 1) : FormOf(stack)[i] = EnteredBy(stack[i + 1])
  BY FormTyped
<1>4. right = [i \in 1..(m - 1) |-> FormOf(stack)[i]]
  BY <1>1, <1>3
<1>5. FormOf(lower) = [i \in 1..(m - 1) |-> EnteredBy(lower[i + 1])]
  BY <1>1, <1>2 DEF FormOf
<1>6. \A i \in 1..(m - 1) : EnteredBy(lower[i + 1]) = FormOf(stack)[i]
  <2> TAKE i \in 1..(m - 1)
  <2>1. i + 1 \in 1..m /\ i \in 1..(Len(stack) - 1)
    BY <1>1
  <2> QED
    BY <1>2, <1>3, <2>1
<1>7. Len(FormOf(stack)) - n = m - 1
  BY <1>1, <1>3
<1> HIDE DEF right, m
<1>8. FormOf(lower) = right
  BY <1>4, <1>5, <1>6
<1> QED
  BY <1>7, <1>8 DEF right, m

\* A sequence whose symbols are the last of another, read from behind.
LEMMA SuffixFromBehind ==
    ASSUME NEW S, NEW T, NEW s \in Seq(S), NEW t \in Seq(T), Len(s) <= Len(t),
           \A k \in 0..(Len(s) - 1) : s[Len(s) - k] = t[Len(t) - k]
    PROVE  IsSuffix(s, t)
<1> DEFINE n == Len(s)
           rs == Reverse(s)
           rt == Reverse(t)
<1>1. n \in Nat /\ Len(t) \in Nat
  OBVIOUS
<1>2. /\ rs = [i \in 1..n |-> s[(n - i) + 1]]
      /\ rt = [i \in 1..Len(t) |-> t[(Len(t) - i) + 1]]
  BY DEF Reverse
<1>3. rs \in Seq(S) /\ Len(rs) = n
  <2>1. \A i \in 1..n : (n - i) + 1 \in 1..n
    BY <1>1
  <2> QED
    BY <1>1, <1>2, <2>1
<1>4. rt \in Seq(T) /\ Len(rt) = Len(t)
  <2>1. \A i \in 1..Len(t) : (Len(t) - i) + 1 \in 1..Len(t)
    BY <1>1
  <2> QED
    BY <1>1, <1>2, <2>1
<1>5. \A i \in 1..n : rs[i] = rt[i]
  <2> TAKE i \in 1..n
  <2>1. /\ i - 1 \in 0..(n - 1) /\ n - (i - 1) = (n - i) + 1
        /\ Len(t) - (i - 1) = (Len(t) - i) + 1 /\ i \in 1..Len(t)
    BY <1>1
  <2>2. s[n - (i - 1)] = t[Len(t) - (i - 1)]
    BY <2>1
  <2> QED
    BY <1>2, <2>1, <2>2
<1>6. SubSeq(rs, 1, n) = [i \in 1..n |-> rs[i]] /\ SubSeq(rt, 1, n) = [i \in 1..n |-> rt[i]]
  <2> HIDE DEF rs, rt
  <2> QED
    BY <1>1, <1>3, <1>4
<1>7. SubSeq(rs, 1, n) = SubSeq(rt, 1, n)
  <2> HIDE DEF rs, rt, n
  <2> QED
    BY <1>5, <1>6
<1> QED
  BY <1>3, <1>4, <1>7 DEF IsSuffix, IsPrefix

\* Who reduces by a rule has its right side on top of the stack, and below it a
\* state its left side leads on from.
LEMMA Folds ==
    ASSUME NEW stack, Viable(stack), NEW rule, Completes(Last(stack), rule)
    PROVE  LET n == Len(Rhs(rule))
               below == stack[Len(stack) - n]
           IN /\ n \in Nat /\ n < Len(stack)
              /\ IsSuffix(Rhs(rule), FormOf(stack))
              /\ \A k \in 0..(n - 1) : Rhs(rule)[n - k] = FormOf(stack)[Len(stack) - 1 - k]
              /\ Enters(below, Goto(below, rule), Lhs(rule))
<1> DEFINE n == Len(Rhs(rule))
           top == Len(stack)
           below == stack[top - n]
           item == Item(stack[top], rule, n)
<1>1. /\ rule \in Rules \ {1} /\ item \in LRItems
      /\ item.state = stack[top] /\ item.rule = rule /\ item.seen = n
  BY ItemFields DEF Completes, Last
<1>2. Rhs(rule) \in Seq(Symbols) /\ n \in Nat
  BY <1>1, TablesFollowItems
<1>3. top \in Nat /\ top >= 1 /\ SeenBelow(stack, top)
  BY DEF Viable
<1>4. \A k \in 0..n : /\ k < top
                      /\ Item(stack[top - k], rule, n - k) \in LRItems
                      /\ k < n => Rhs(rule)[n - k] = EnteredBy(stack[top - k])
  <2> HIDE DEF item
  <2> QED
    BY <1>1, <1>3 DEF SeenBelow
<1>5. n < top /\ Item(below, rule, 0) \in LRItems
  <2>1. n \in 0..n /\ n - n = 0
    BY <1>2
  <2> QED
    BY <1>4, <2>1
<1>6. Enters(below, Goto(below, rule), Lhs(rule))
  <2> DEFINE first == Item(below, rule, 0)
  <2>1. first.state = below /\ first.rule = rule /\ first.seen = 0
    BY ItemFields
  <2> HIDE DEF first
  <2>2. first \in LRItems
    BY <1>5 DEF first
  <2> QED
    BY <1>1, <2>1, <2>2, TablesFollowItems
<1>7. /\ IsSuffix(Rhs(rule), FormOf(stack))
      /\ \A k \in 0..(n - 1) : Rhs(rule)[n - k] = FormOf(stack)[top - 1 - k]
  <2>1. /\ FormOf(stack) \in Seq(StackSymbols) /\ Len(FormOf(stack)) = top - 1
        /\ \A i \in 1..(top - 1) : FormOf(stack)[i] = EnteredBy(stack[i + 1])
    BY FormTyped
  <2>2. n <= top - 1
    BY <1>2, <1>3, <1>5
  <2>3. \A k \in 0..(n - 1) : Rhs(rule)[n - k] = FormOf(stack)[top - 1 - k]
    <3> TAKE k \in 0..(n - 1)
    <3>1. k \in 0..n /\ k < n /\ top - 1 - k \in 1..(top - 1) /\ top - 1 - k + 1 = top - k
      BY <1>2, <1>3, <1>5
    <3>2. Rhs(rule)[n - k] = EnteredBy(stack[top - k])
      BY <1>4, <3>1
    <3> QED
      BY <2>1, <3>1, <3>2
  <2> QED
    BY <1>2, <2>1, <2>2, <2>3, SuffixFromBehind
<1> QED
  BY <1>2, <1>5, <1>6, <1>7

\* The final state stands on one program.
LEMMA FinalForm ==
    ASSUME NEW stack, Viable(stack), Last(stack) = YYFINAL
    PROVE  FormOf(stack) = <<"program", "$end">>
<1> DEFINE item == Item(YYFINAL, 1, 2)
           n == Len(stack)
<1>1. item \in LRItems /\ item.state = stack[n] /\ item.rule = 1 /\ item.seen = 2
  BY ItemFields, TablesFollowItems DEF Last
<1>2. n \in Nat /\ n >= 1 /\ SeenBelow(stack, n) /\ stack \in Seq(States)
  BY DEF Viable
<1>3. \A k \in 0..2 : /\ k < n
                      /\ Item(stack[n - k], 1, 2 - k) \in LRItems
                      /\ k < 2 => Rhs(1)[2 - k] = EnteredBy(stack[n - k])
  <2> HIDE DEF item
  <2> QED
    BY <1>1, <1>2 DEF SeenBelow
<1>4. n = 3
  <2>1. 2 < n /\ Item(stack[n - 2], 1, 0) \in LRItems
    BY <1>3
  <2>2. stack[n - 2] = 0
    BY <2>1, ItemFields, TablesFollowItems
  <2>3. n - 2 \in 1..n /\ (n - 2 # 1 => n - 2 \in 2..n)
    <3>1. \A m \in Nat : 2 < m => m - 2 \in 1..m /\ (m - 2 # 1 => m - 2 \in 2..m)
      OBVIOUS
    <3> HIDE DEF n
    <3> QED
      BY <1>2, <2>1, <3>1
  <2>4. n - 2 = 1
    BY <2>2, <2>3 DEF Viable
  <2> QED
    BY <1>2, <2>4
<1>5. EnteredBy(stack[2]) = "program" /\ EnteredBy(stack[3]) = "$end"
  <2>1. Rhs(1)[2] = EnteredBy(stack[3]) /\ Rhs(1)[1] = EnteredBy(stack[2])
    BY <1>3, <1>4
  <2>2. Rhs(1) = <<"program", "$end">>
    BY TablesFollowItems
  <2> QED
    BY <2>1, <2>2
<1> QED
  BY <1>4, <1>5 DEF FormOf

-----------------------------------------------------------------------------
(* The invariant: the stack of states is viable, and the two stacks go along *)
(* with each other.  While yyparse runs there is room for one more state,    *)
(* and it stops exactly in the final one.                                    *)

ParserInv ==
    /\ TypeOK
    /\ Viable(yyss)
    /\ yyvs \in Seq(Range(yyvs))
    /\ start \in Starts /\ tokens \in Seq(InputToken)
    /\ Waits => Len(tokens) > 0 /\ yychar = Last(tokens)
    /\ result = "running" => State # YYFINAL /\ Len(yyss) < yystacksize
    /\ result = "accept" => State = YYFINAL

LEMMA TokenFields ==
    ASSUME NEW sym, NEW text
    PROVE  Token(sym, text).sym = sym /\ Token(sym, text).text = text
BY DEF Token

\* The marks of no token and of the end of the input.
LEMMA TokenMarks ==
    /\ YYEMPTY.sym \notin Tokens
    /\ YYEOF.sym = "$end" /\ YYEOF.sym \in Tokens
<1>1. YYEMPTY.sym \notin Tokens
  BY Zenon, TokenFields, SymbolsNamed DEF YYEMPTY
<1>2. YYEOF.sym = "$end"
  BY Zenon, TokenFields DEF YYEOF
<1> QED
  BY <1>1, <1>2, TablesFollowItems

\* What the scanner answers has a symbol of the grammar.
LEMMA TokensKnown ==
    ASSUME ParserInv
    PROVE  /\ start \in Seq(InputToken)
           /\ yychar \in InputToken \cup {YYEMPTY, YYEOF}
           /\ yychar # YYEMPTY => yychar.sym \in Tokens
<1>1. \A s \in Starts : Range(s) \subseteq InputToken
  BY ParserAssumption DEF Range
<1>2. yychar \in InputToken \cup {YYEMPTY, YYEOF}
  BY <1>1, ParserAssumption DEF ParserInv, TypeOK
<1>3. YYEOF.sym \in Tokens
  BY TokenMarks
<1> QED
  BY <1>2, <1>3, ParserAssumption DEF ParserInv, InputToken

LEMMA ReadableTokens ==
    ASSUME ParserInv, NEW t \in Readable
    PROVE  t # YYEOF => t \in InputToken /\ t # YYEMPTY
<1> SUFFICES t # YYEOF => t \in InputToken
  BY TokenMarks DEF InputToken
<1>1. CASE Len(tokens) < Len(start)
  <2>1. start \in Seq(InputToken) /\ tokens \in Seq(InputToken) /\ start \in Starts
    BY TokensKnown DEF ParserInv
  <2>2. Len(tokens) + 1 \in 1..Len(start)
    BY <1>1, <2>1
  <2>3. t = start[Len(tokens) + 1] /\ t \in InputToken
    BY <1>1, <2>1, <2>2 DEF Readable
  <2> QED
    BY <2>3
<1>2. CASE ~ (Len(tokens) < Len(start))
  BY <1>2, ParserAssumption DEF Readable
<1> QED
  BY <1>1, <1>2

\* While yyparse runs, what it does next follows the items of its state.
LEMMA DecisionFollows ==
    ASSUME ParserInv, result = "running", Decided
    PROVE  /\ Decision \in Int
           /\ Decision > 0 => /\ Enters(State, Decision, yychar.sym)
                              /\ yychar.sym \in Tokens
           /\ Decision < 0 => Completes(State, - Decision)
<1>1. State \in States \ {YYFINAL}
  <2>1. yyss \in Seq(States) /\ Len(yyss) >= 1 /\ State # YYFINAL
    BY DEF ParserInv, Viable
  <2> QED
    BY <2>1 DEF State, Last
<1>2. CASE NeedsToken(State)
  <2>1. yychar.sym \in Tokens
    BY <1>2, TokensKnown DEF Decided
  <2>2. Decision = ActionOn(State, yychar.sym)
    BY <1>2 DEF Decision
  <2>3. /\ Follow(State, ActionOn(State, yychar.sym))
        /\ ActionOn(State, yychar.sym) > 0 =>
              Enters(State, ActionOn(State, yychar.sym), yychar.sym)
    BY <1>1, <1>2, <2>1, TablesFollowItems
  <2> QED
    BY <2>1, <2>2, <2>3 DEF Follow
<1>3. CASE ~ NeedsToken(State)
  <2>1. Decision = Default(State)
    BY <1>3 DEF Decision
  <2>2. Follow(State, Default(State)) /\ Default(State) <= 0
    BY <1>1, <1>3, TablesFollowItems
  <2>3. ~ (Decision > 0) /\ Decision \in Int
    BY <2>1, <2>2 DEF Follow
  <2> QED
    BY <2>1, <2>2, <2>3 DEF Follow
<1> QED
  BY <1>2, <1>3

\* The common entry to a state, for a stack one state higher at most.
LEMMA EnterEffect ==
    ASSUME ParserInv, result = "running", NEW stack, Viable(stack),
           Len(stack) <= Len(yyss) + 1, Enter(stack)
    PROVE  /\ yyss' = stack
           /\ Len(stack) <= yystacksize' /\ yystacksize' \in YYINITDEPTH..YYMAXDEPTH
           /\ result' \in {"running", "accept", "exhausted"}
           /\ result' = "running" => Last(stack) # YYFINAL /\ Len(stack) < yystacksize'
           /\ result' = "accept" => Last(stack) = YYFINAL
<1>1. /\ Len(stack) \in Nat /\ Len(yyss) \in Nat /\ Len(yyss) < yystacksize
      /\ yystacksize \in YYINITDEPTH..YYMAXDEPTH /\ yystacksize \in Nat
      /\ YYINITDEPTH \in Nat /\ YYMAXDEPTH \in Nat /\ YYINITDEPTH > 1
  BY ParserAssumption DEF ParserInv, TypeOK, Viable
<1>2. yyss' = stack
  BY DEF Enter
<1>3. CASE Len(stack) < yystacksize
  BY <1>1, <1>2, <1>3 DEF Enter
<1>4. CASE ~ (Len(stack) < yystacksize) /\ YYMAXDEPTH <= yystacksize
  BY <1>1, <1>2, <1>4 DEF Enter
<1>5. CASE ~ (Len(stack) < yystacksize) /\ ~ (YYMAXDEPTH <= yystacksize)
  <2>1. /\ yystacksize' = IF 2 * yystacksize > YYMAXDEPTH THEN YYMAXDEPTH
                          ELSE 2 * yystacksize
        /\ result' = IF Last(stack) = YYFINAL THEN "accept" ELSE "running"
    BY <1>5 DEF Enter
  <2>2. yystacksize' > yystacksize /\ yystacksize' \in YYINITDEPTH..YYMAXDEPTH
    BY <1>1, <1>5, <2>1
  <2>3. Len(stack) < yystacksize'
    BY <1>1, <1>5, <2>2
  <2> QED
    BY <1>1, <1>2, <2>1, <2>2, <2>3
<1> QED
  BY <1>3, <1>4, <1>5

-----------------------------------------------------------------------------
(* The steps. *)

LEMMA ParserInit ==
    ASSUME Init
    PROVE  ParserInv /\ Form = <<>>
<1>1. Viable(yyss) /\ Len(yyss) = 1 /\ yyvs = <<>> /\ Len(yyvs) = 0
  BY FirstStackViable DEF Init
<1>2. TypeOK
  <2>1. \A i \in DOMAIN yyss : yyss[i] \in 0..(Len(yypact) - 1)
    BY <1>1, StackOfStates DEF States
  <2>2. Len(yyss) <= yystacksize /\ yystacksize \in YYINITDEPTH..YYMAXDEPTH
    BY <1>1, ParserAssumption DEF Init
  <2> QED
    BY <1>1, <2>1, <2>2 DEF Init, TypeOK
<1>3. State # YYFINAL
  BY DEF Init, State, Last, YYFINAL
<1>4. Len(yyss) < yystacksize
  BY <1>1, ParserAssumption DEF Init
<1>5. Form = <<>>
  BY <1>1 DEF Form
<1>6. ~ Waits
  BY DEF Init, Waits
<1> QED
  BY <1>1, <1>2, <1>3, <1>4, <1>5, <1>6 DEF Init, ParserInv

LEMMA LexStep ==
    ASSUME ParserInv, Lex
    PROVE  ParserInv' /\ UNCHANGED <<yyss, result, reported, Consumed>>
<1> PICK t \in Readable : Read(t)
  BY DEF Lex
<1>1. UNCHANGED <<yyss, yyvs, yystacksize, result, reported, start>>
  BY DEF Read
<1>2. yychar' = t /\ tokens' = IF t = YYEOF THEN tokens ELSE Append(tokens, t)
  BY DEF Read
<1>3. tokens' \in Seq(InputToken)
  BY <1>2, ReadableTokens DEF ParserInv
<1>4. TypeOK'
  BY <1>1, <1>2, ReadableTokens DEF ParserInv, TypeOK
<1>5. State' = State
  BY <1>1 DEF State
<1>6. ~ Waits
  BY DEF Read, Decided, Waits
<1>7. tokens \in Seq(InputToken) /\ Len(tokens) \in Nat
  BY DEF ParserInv
<1>8. Consumed = [i \in 1..Len(tokens) |-> tokens[i].sym]
  BY <1>6, <1>7 DEF Consumed
<1>9. CASE t = YYEOF
  <2>1. ~ Waits' /\ tokens' = tokens
    BY <1>2, <1>9 DEF Waits
  <2>2. Consumed' = [i \in 1..Len(tokens) |-> tokens[i].sym]
    BY <1>7, <2>1 DEF Consumed
  <2> QED
    BY <1>1, <1>3, <1>4, <1>5, <1>8, <2>1, <2>2 DEF ParserInv
<1>10. CASE t # YYEOF
  <2>1. t \in InputToken /\ t # YYEMPTY
    BY <1>10, ReadableTokens
  <2>2. Waits' /\ tokens' = Append(tokens, t)
    BY <1>2, <1>10, <2>1 DEF Waits
  <2>3. /\ Len(tokens') = Len(tokens) + 1 /\ tokens'[Len(tokens')] = t
        /\ \A i \in 1..Len(tokens) : tokens'[i] = tokens[i]
    BY <1>7, <2>1, <2>2
  <2>4. Consumed' = [i \in 1..Len(tokens) |-> tokens'[i].sym]
    BY <1>7, <2>2, <2>3 DEF Consumed
  <2>5. Consumed' = Consumed
    BY <1>8, <2>3, <2>4
  <2>6. (Waits => Len(tokens) > 0 /\ yychar = Last(tokens))'
    BY <1>2, <1>7, <2>3 DEF Last
  <2> QED
    BY <1>1, <1>3, <1>4, <1>5, <2>5, <2>6 DEF ParserInv
<1> QED
  BY <1>9, <1>10

\* A sequence with one element more is a sequence.
LEMMA AppendedSequence ==
    ASSUME NEW s, s \in Seq(Range(s)), NEW x
    PROVE  /\ Append(s, x) \in Seq(Range(Append(s, x)))
           /\ Len(Append(s, x)) = Len(s) + 1 /\ Len(s) \in Nat
<1> DEFINE S == Range(s) \cup {x}
           t == Append(s, x)
<1>1. s \in Seq(S)
  BY SeqMonotonic, Range(s) \subseteq S
<1>2. t \in Seq(S) /\ Len(t) = Len(s) + 1 /\ Len(s) \in Nat
  BY <1>1
<1>3. DOMAIN t = 1..Len(t) /\ \A i \in 1..Len(t) : t[i] \in Range(t)
  BY <1>2 DEF Range
<1>4. t \in Seq(Range(t))
  <2> HIDE DEF t
  <2>1. t = [i \in 1..Len(t) |-> t[i]] /\ Len(t) \in Nat
    BY <1>2
  <2> QED
    BY <1>3, <2>1
<1> QED
  BY <1>2, <1>4

LEMMA ShortenedSequence ==
    ASSUME NEW s, s \in Seq(Range(s)), NEW m \in 0..Len(s)
    PROVE  /\ SubSeq(s, 1, m) \in Seq(Range(SubSeq(s, 1, m)))
           /\ Len(SubSeq(s, 1, m)) = m
<1> DEFINE t == SubSeq(s, 1, m)
<1>1. Len(s) \in Nat /\ m \in Nat
  OBVIOUS
<1>2. t \in Seq(Range(s)) /\ Len(t) = m
  BY <1>1
<1>3. DOMAIN t = 1..m /\ \A i \in 1..m : t[i] \in Range(t)
  <2> HIDE DEF t
  <2>1. DOMAIN t = 1..m
    BY <1>2
  <2> QED
    BY <2>1 DEF Range
<1>4. t \in Seq(Range(t))
  <2> HIDE DEF t
  <2>1. t = [i \in 1..m |-> t[i]]
    BY <1>1, <1>2
  <2> QED
    BY <1>1, <1>3, <2>1
<1> QED
  BY <1>2, <1>4

\* What a step leaves behind that enters a state.
LEMMA EnteredInv ==
    ASSUME ParserInv, result = "running", NEW stack, Viable(stack),
           Len(stack) <= Len(yyss) + 1, Enter(stack),
           yyvs' \in Seq(Range(yyvs')), Len(yyvs') = Len(stack) - 1,
           yychar' \in {yychar, YYEMPTY}, UNCHANGED <<start, tokens>>
    PROVE  ParserInv'
<1>1. /\ yyss' = stack
      /\ Len(stack) <= yystacksize' /\ yystacksize' \in YYINITDEPTH..YYMAXDEPTH
      /\ result' \in {"running", "accept", "exhausted"}
      /\ result' = "running" => Last(stack) # YYFINAL /\ Len(stack) < yystacksize'
      /\ result' = "accept" => Last(stack) = YYFINAL
  BY EnterEffect
<1>2. TypeOK'
  <2>1. \A i \in DOMAIN stack : stack[i] \in 0..(Len(yypact) - 1)
    BY StackOfStates DEF States
  <2>2. yychar' \in InputToken \cup {YYEMPTY, YYEOF}
    BY DEF ParserInv, TypeOK
  <2> QED
    BY <1>1, <2>1, <2>2 DEF TypeOK
<1>3. (Waits => Len(tokens) > 0 /\ yychar = Last(tokens))'
  BY DEF ParserInv, Waits
<1> QED
  BY <1>1, <1>2, <1>3 DEF ParserInv, State

LEMMA ShiftStep ==
    ASSUME ParserInv, Shift
    PROVE  /\ ParserInv' /\ result = "running"
           /\ yychar.sym \in Tokens
           /\ FormOf(yyss') = Append(FormOf(yyss), yychar.sym)
           /\ UNCHANGED reported
<1> DEFINE higher == Append(yyss, Decision)
<1>1. result = "running" /\ Decided /\ Decision > 0
  BY DEF Shift
<1>2. Enters(State, Decision, yychar.sym) /\ yychar.sym \in Tokens
  BY <1>1, DecisionFollows
<1>3. Viable(yyss)
  BY DEF ParserInv
<1>4. Viable(higher)
  BY <1>2, <1>3, PushedViable DEF State
<1>5. /\ Enter(higher) /\ yyvs' = Append(yyvs, Node("token", yychar.text, <<>>))
      /\ yychar' = YYEMPTY /\ UNCHANGED <<reported, start, tokens>>
  BY DEF Shift
<1>6. Len(higher) = Len(yyss) + 1 /\ Len(yyss) \in Nat
  BY <1>2, <1>3 DEF Viable, Enters
<1>7. yyvs' \in Seq(Range(yyvs')) /\ Len(yyvs') = Len(higher) - 1
  <2>1. yyvs \in Seq(Range(yyvs)) /\ Len(yyvs) = Len(yyss) - 1
    BY DEF ParserInv, TypeOK
  <2>2. yyvs' \in Seq(Range(yyvs')) /\ Len(yyvs') = Len(yyvs) + 1
    BY <1>5, <2>1, AppendedSequence
  <2> QED
    BY <1>6, <2>1, <2>2
<1>8. Len(higher) <= Len(yyss) + 1
  BY <1>6
<1>9. ParserInv'
  <2> HIDE DEF higher
  <2> QED
    BY <1>1, <1>4, <1>5, <1>7, <1>8, EnteredInv
<1>10. FormOf(higher) = Append(FormOf(yyss), yychar.sym)
  BY <1>2, <1>3, PushedForm DEF Enters
<1>11. yyss' = higher
  BY <1>5 DEF Enter
<1> QED
  BY <1>1, <1>2, <1>5, <1>9, <1>10, <1>11

LEMMA ReduceStep ==
    ASSUME ParserInv, Reduce
    PROVE  LET rule == - Decision
           IN /\ ParserInv' /\ result = "running"
              /\ rule \in Rules \ {1}
              /\ IsSuffix(Rhs(rule), FormOf(yyss))
              /\ FormOf(yyss')
                    = Append(SubSeq(FormOf(yyss), 1, Len(FormOf(yyss)) - Len(Rhs(rule))),
                             Lhs(rule))
<1> DEFINE rule == - Decision
           n == Len(Rhs(rule))
           lower == SubSeq(yyss, 1, Len(yyss) - n)
           target == Goto(Last(lower), rule)
           higher == Append(lower, target)
           values == SubSeq(yyvs, 1, Len(yyvs) - n)
<1>1. result = "running" /\ Decided /\ Decision < 0
  BY DEF Reduce
<1>2. Completes(Last(yyss), rule)
  BY <1>1, DecisionFollows DEF State
<1>3. At(yyr2, rule) = n /\ rule \in Rules \ {1}
  BY <1>2 DEF Completes
<1>4. Viable(yyss) /\ Len(yyss) \in Nat
  BY DEF ParserInv, Viable
<1>5. /\ n \in Nat /\ n < Len(yyss)
      /\ IsSuffix(Rhs(rule), FormOf(yyss))
      /\ Enters(yyss[Len(yyss) - n], Goto(yyss[Len(yyss) - n], rule), Lhs(rule))
  BY <1>2, <1>4, Folds
<1>6. Viable(lower) /\ Last(lower) = yyss[Len(yyss) - n]
  BY <1>4, <1>5, LowerViable
<1>7. Enters(Last(lower), target, Lhs(rule))
  BY <1>5, <1>6
<1>8. Viable(higher)
  <2> HIDE DEF lower, target
  <2> QED
    BY <1>6, <1>7, PushedViable
<1>9. /\ Enter(higher)
      /\ \E x : yyvs' = Append(values, x)
      /\ UNCHANGED <<yychar, start, tokens>>
  BY <1>3 DEF Reduce
<1>10. Len(lower) = Len(yyss) - n /\ Len(higher) = Len(yyss) - n + 1
  <2>1. lower \in Seq(States) /\ Len(lower) = Len(yyss) - n
    <3>1. yyss \in Seq(States)
      BY <1>4 DEF Viable
    <3>2. Len(yyss) - n \in 0..Len(yyss)
      BY <1>4, <1>5
    <3> HIDE DEF n
    <3> QED
      BY <3>1, <3>2
  <2>2. target \in States
    BY <1>7 DEF Enters
  <2> HIDE DEF lower, target
  <2> QED
    BY <1>4, <1>5, <2>1, <2>2
<1>11. yyvs' \in Seq(Range(yyvs')) /\ Len(yyvs') = Len(higher) - 1
  <2>1. yyvs \in Seq(Range(yyvs)) /\ Len(yyvs) = Len(yyss) - 1
    BY DEF ParserInv, TypeOK
  <2>2. Len(yyvs) - n \in 0..Len(yyvs)
    BY <1>4, <1>5, <2>1
  <2>3. values \in Seq(Range(values)) /\ Len(values) = Len(yyvs) - n
    BY <2>1, <2>2, ShortenedSequence
  <2> PICK x : yyvs' = Append(values, x)
    BY <1>9
  <2> HIDE DEF values
  <2>4. yyvs' \in Seq(Range(yyvs')) /\ Len(yyvs') = Len(values) + 1
    BY <2>3, AppendedSequence
  <2>5. Len(values) + 1 = Len(higher) - 1
    <3> HIDE DEF n, higher, values
    <3> QED
      BY <1>4, <1>5, <1>10, <2>1, <2>3
  <2> QED
    BY <2>4, <2>5
<1>12. Len(higher) <= Len(yyss) + 1
  BY <1>4, <1>5, <1>10
<1>13. ParserInv'
  <2> HIDE DEF higher, values
  <2> QED
    BY <1>1, <1>8, <1>9, <1>11, <1>12, EnteredInv
<1>14. FormOf(yyss')
         = Append(SubSeq(FormOf(yyss), 1, Len(FormOf(yyss)) - n), Lhs(rule))
  <2>1. FormOf(lower) = SubSeq(FormOf(yyss), 1, Len(FormOf(yyss)) - n)
    BY <1>4, <1>5, LowerForm
  <2>2. FormOf(higher) = Append(FormOf(lower), Lhs(rule))
    <3> HIDE DEF lower, target
    <3> QED
      BY <1>6, <1>7, PushedForm DEF Enters
  <2>3. yyss' = higher
    BY <1>9 DEF Enter
  <2> QED
    BY <2>1, <2>2, <2>3
<1> QED
  BY <1>1, <1>3, <1>5, <1>13, <1>14

LEMMA SyntaxErrorStep ==
    ASSUME ParserInv, SyntaxError
    PROVE  ParserInv' /\ UNCHANGED <<yyss, reported, Consumed>>
           /\ result = "running" /\ result' = "error"
BY DEF SyntaxError, ParserInv, TypeOK, State, Consumed, Waits

\* Shifting consumes the token that waits; reducing consumes none.
LEMMA ShiftConsumes ==
    ASSUME ParserInv, Shift
    PROVE  Consumed' = IF yychar.sym = "$end" THEN Consumed
                       ELSE Append(Consumed, yychar.sym)
<1>1. yychar' = YYEMPTY /\ tokens' = tokens
  BY DEF Shift
<1>2. tokens \in Seq(InputToken) /\ Len(tokens) \in Nat
  BY DEF ParserInv
<1>3. ~ Waits'
  BY <1>1 DEF Waits
<1>4. Consumed' = [i \in 1..Len(tokens) |-> tokens[i].sym]
  BY <1>1, <1>2, <1>3 DEF Consumed
<1>5. yychar # YYEMPTY
  BY ShiftStep, TokenMarks
<1>6. CASE Waits
  <2>1. Len(tokens) > 0 /\ yychar = tokens[Len(tokens)]
    BY <1>6 DEF ParserInv, Last
  <2>2. yychar \in InputToken
    BY <1>2, <2>1
  <2>3. yychar.sym # "$end"
    BY <2>2 DEF InputToken
  <2> DEFINE m == Len(tokens) - 1
  <2>4. m \in Nat /\ m + 1 = Len(tokens)
    BY <1>2, <2>1
  <2>5. Consumed = [i \in 1..m |-> tokens[i].sym]
    BY <1>6 DEF Consumed
  <2>6. \A i \in 1..(m + 1) : tokens[i].sym \in Tokens
    <3>1. \A i \in 1..Len(tokens) : tokens[i] \in InputToken
      BY <1>2
    <3>2. \A t \in InputToken : t.sym \in Tokens
      BY DEF InputToken
    <3> QED
      BY <2>4, <3>1, <3>2
  <2>7. Consumed \in Seq(Tokens) /\ Len(Consumed) = m
    BY <2>4, <2>5, <2>6
  <2> HIDE DEF m
  <2>8. Append(Consumed, yychar.sym)
          = [i \in 1..(m + 1) |-> IF i = m + 1 THEN yychar.sym ELSE Consumed[i]]
    BY <2>4, <2>7
  <2>9. \A i \in 1..(m + 1) :
          tokens[i].sym = IF i = m + 1 THEN yychar.sym ELSE Consumed[i]
    BY <2>1, <2>4, <2>5
  <2> QED
    BY <1>4, <2>3, <2>4, <2>8, <2>9
<1>7. CASE ~ Waits
  <2>1. yychar.sym = "$end"
    BY <1>5, <1>7, TokenMarks DEF Waits
  <2>2. Consumed = [i \in 1..Len(tokens) |-> tokens[i].sym]
    BY <1>2, <1>7 DEF Consumed
  <2> QED
    BY <1>4, <2>1, <2>2
<1> QED
  BY <1>6, <1>7

LEMMA ReduceConsumes ==
    ASSUME Reduce
    PROVE  Consumed' = Consumed
BY DEF Reduce, Consumed, Waits

LEMMA ParserStep ==
    ASSUME ParserInv, [Next]_vars
    PROVE  ParserInv'
<1>1. CASE Lex
  BY <1>1, LexStep
<1>2. CASE Shift
  BY <1>2, ShiftStep
<1>3. CASE Reduce
  BY <1>3, ReduceStep
<1>4. CASE SyntaxError
  BY <1>4, SyntaxErrorStep
<1>5. CASE UNCHANGED vars
  BY <1>5 DEF vars, ParserInv, TypeOK, State, Waits
<1> QED
  BY <1>1, <1>2, <1>3, <1>4, <1>5 DEF Next

\* The inductive invariant of yyparse holds whatever the scanner answers, for
\* inputs of any length and stacks of any depth (parser.cpp:1288-2237).
THEOREM ParserInvHolds == Spec => []ParserInv
<1>1. Init => ParserInv
  BY ParserInit
<1>2. ParserInv /\ [Next]_vars => ParserInv'
  BY ParserStep
<1> QED
  BY <1>1, <1>2, PTL DEF Spec

\* The stacks of states and values go along with each other and stay within
\* their size, states are states of the tables (parser.cpp:1347-1433).
THEOREM ParserTypeHolds == Spec => []TypeOK
<1>1. ParserInv => TypeOK
  BY DEF ParserInv
<1> QED
  BY <1>1, ParserInvHolds, PTL

-----------------------------------------------------------------------------
(* The refinement. *)

LEMMA FormIsFormOf == Form = FormOf(yyss)
BY DEF Form, FormOf

\* Accepting, the parser has turned all it read into one program.
LEMMA AcceptsGoal ==
    ASSUME ParserInv, result = "accept"
    PROVE  Form = <<"program", "$end">>
BY FinalForm, FormIsFormOf DEF ParserInv, State

LEMMA AcceptsGoalNext ==
    ASSUME ParserInv', result' = "accept"
    PROVE  Form' = <<"program", "$end">>
<1>1. Viable(yyss') /\ Last(yyss') = YYFINAL
  BY DEF ParserInv, State
<1>2. Form' = FormOf(yyss')
  BY DEF Form, FormOf
<1> QED
  BY <1>1, <1>2, FinalForm

\* Every step of the automaton is one of a derivation.
LEMMA DerivationStep ==
    ASSUME ParserInv, [Next]_vars
    PROVE  [D!Next]_<<Consumed, Form, result = "accept">>
<1>1. ParserInv' /\ Form' = FormOf(yyss') /\ Form = FormOf(yyss)
  BY ParserStep DEF Form, FormOf
<1>2. CASE Lex
  BY <1>1, <1>2, LexStep
<1>3. CASE SyntaxError
  BY <1>1, <1>3, SyntaxErrorStep
<1>4. CASE UNCHANGED vars
  BY <1>1, <1>4 DEF vars, Consumed, Waits
<1>5. (result' = "accept") \in {FALSE, Form' = <<"program", "$end">>}
  BY <1>1, AcceptsGoalNext
<1>6. CASE Shift
  <2>1. result = "running" /\ yychar.sym \in Tokens /\ Form' = Append(Form, yychar.sym)
    BY <1>1, <1>6, ShiftStep
  <2>2. D!Read
    BY <1>6, <2>1, ShiftConsumes DEF D!Read
  <2> QED
    BY <1>5, <2>1, <2>2 DEF D!Next
<1>7. CASE Reduce
  <2>1. result = "running"
    BY <1>7, ReduceStep
  <2>2. PICK rule \in Rules :
          /\ IsSuffix(Rhs(rule), Form)
          /\ Form' = Append(SubSeq(Form, 1, Len(Form) - Len(Rhs(rule))), Lhs(rule))
    BY <1>1, <1>7, ReduceStep
  <2>3. Productions[rule] \in Range(Productions)
    BY TablesFollowItems DEF Range
  <2>4. \A s, t : D!IsSuffix(s, t) = IsSuffix(s, t)
    BY DEF D!IsSuffix, D!IsPrefix, D!Reverse, IsSuffix, IsPrefix, Reverse
  <2>5. D!Fold
    BY <1>7, <2>2, <2>3, <2>4, ReduceConsumes DEF D!Fold, Rhs, Lhs
  <2> QED
    BY <1>5, <2>1, <2>5 DEF D!Next
<1> QED
  BY <1>2, <1>3, <1>4, <1>6, <1>7 DEF Next

\* The tables implement parser.y: whatever the input, the symbols on the stack
\* change as in a derivation, and what is accepted is one program
\* (parser.cpp:1288-2237; the tables at 590-832).
THEOREM DerivesHolds == Spec => Derives
<1>1. Init => D!Init
  <2> SUFFICES ASSUME Init PROVE Consumed = <<>>
    BY ParserInit DEF Init, D!Init
  <2>1. tokens = <<>> /\ Len(tokens) = 0 /\ ~ Waits
    BY DEF Init, Waits
  <2> QED
    BY <2>1 DEF Consumed
<1>2. ParserInv /\ [Next]_vars => [D!Next]_<<Consumed, Form, result = "accept">>
  BY DerivationStep
<1> QED
  BY <1>1, <1>2, ParserInvHolds, PTL DEF Spec, Derives, D!Spec

\* Whatever yyparse accepts, its stack then holds a program and the end of the
\* input, and nothing else.
AcceptsOneProgram == result = "accept" => Form = <<"program", "$end">>
THEOREM AcceptsOneProgramHolds == Spec => []AcceptsOneProgram
<1>1. ParserInv => AcceptsOneProgram
  BY AcceptsGoal DEF AcceptsOneProgram
<1> QED
  BY <1>1, ParserInvHolds, PTL

-----------------------------------------------------------------------------
(* Texts, joined from their parts. *)

\* A set of numbers that is not empty has a least one.
LEMMA Least ==
    ASSUME NEW T, T \subseteq Nat, T # {}
    PROVE  \E n \in T : \A m \in T : n <= m
<1> DEFINE R == {ss \in Nat \X Nat : ss[1] < ss[2]}
<1>1. IsWellFoundedOn(R, Nat) BY NatLessThanWellFounded DEF OpToRel
<1> HIDE DEF R
<1>2. PICK n \in T : \A m \in T : ~ (<<m, n>> \in R)
  BY <1>1, WFMin
<1>3. \A m \in T : n <= m
  <2>1. TAKE m \in T
  <2>2. m \in Nat /\ n \in Nat OBVIOUS
  <2>3. ~ (m < n) BY <2>2, <1>2 DEF R
  <2>4. QED BY <2>2, <2>3
<1>4. QED BY <1>3

\* So what holds for 0 and goes on from each number to the next holds for all up
\* to a bound.
Onwards(T, n) ==
    /\ 0 \in T
    /\ \A k, m \in Nat : k \in T /\ m = k + 1 /\ m <= n => m \in T

\* What is carried onwards from 0 holds up to the end.
LEMMA UpTo ==
    ASSUME NEW n \in Nat, NEW T, Onwards(T, n)
    PROVE  \A k \in 0..n : k \in T
<1> DEFINE Bad == {k \in 0..n : k \notin T}
<1> SUFFICES ASSUME Bad # {} PROVE FALSE
  OBVIOUS
<1>0. Bad \subseteq Nat OBVIOUS
<1>1. PICK k \in Bad : \A m \in Bad : k <= m BY <1>0, Least
<1>2. k \in 0..n /\ k \notin T /\ k # 0 BY DEF Onwards
<1>3. PICK j \in Nat : k = j + 1 /\ j \in 0..n
  <2>1. k - 1 \in Nat /\ k = (k - 1) + 1 /\ k - 1 \in 0..n BY <1>2
  <2>2. QED BY <2>1
<1>4. j \notin Bad BY <1>1, <1>2, <1>3
<1>5. j \in T /\ k \in Nat /\ k <= n BY <1>2, <1>3, <1>4
<1>6. QED BY <1>2, <1>3, <1>5 DEF Onwards

-----------------------------------------------------------------------------
(* FlattenSeq puts each sequence behind the ones before it. *)

Joined(s, f) ==
    \A i \in 1..Len(s) : f[i] = IF i = 1 THEN s[i] ELSE f[i - 1] \o s[i]

\* A sequence of sequences is joined step by step.
LEMMA JoinedExists ==
    ASSUME NEW S, NEW s \in Seq(Seq(S))
    PROVE  \E f \in [1..Len(s) -> Seq(S)] : Joined(s, f)
<1> DEFINE n == Len(s)
           Up(k) == \E f \in [1..k -> Seq(S)] : \A i \in 1..k : f[i] = IF i = 1 THEN s[i] ELSE f[i - 1] \o s[i]
           T == {k \in Nat : Up(k)}
<1>1. n \in Nat /\ \A i \in 1..n : s[i] \in Seq(S)
  BY LenProperties, ElementOfSeq
<1>2. Up(0)
  <2>1. [i \in 1..0 |-> <<>>] \in [1..0 -> Seq(S)] OBVIOUS
  <2>2. \A i \in 1..0 : FALSE OBVIOUS
  <2>3. QED BY <2>1, <2>2
<1>3. ASSUME NEW k \in Nat, NEW m \in Nat, m = k + 1, m <= n, Up(k) PROVE Up(m)
  <2>1. PICK f \in [1..k -> Seq(S)] : \A i \in 1..k : f[i] = IF i = 1 THEN s[i] ELSE f[i - 1] \o s[i]
    BY <1>3
  <2> DEFINE x == IF m = 1 THEN s[m] ELSE f[k] \o s[m]
             g == [i \in 1..m |-> IF i = m THEN x ELSE f[i]]
  <2>2. m \in 1..n /\ (m # 1 => k \in 1..k) BY <1>1, <1>3
  <2>3. x \in Seq(S) BY <1>1, <2>1, <2>2, ConcatProperties
  <2> HIDE DEF x
  <2>4. \A i \in 1..m : i = m \/ i \in 1..k BY <1>3
  <2>5. g \in [1..m -> Seq(S)] BY <2>3, <2>4
  <2>6. ASSUME NEW i \in 1..m PROVE g[i] = IF i = 1 THEN s[i] ELSE g[i - 1] \o s[i]
    <3>1. CASE i = m
      <4>1. g[i] = x BY <3>1
      <4>2. i # 1 => i - 1 = k /\ k \in 1..m /\ k # m BY <1>3, <3>1
      <4>3. i # 1 => g[i - 1] = f[k] BY <4>2
      <4>4. QED BY <3>1, <4>1, <4>3 DEF x
    <3>2. CASE i # m
      <4>1. i \in 1..k /\ g[i] = f[i] BY <2>4, <3>2
      <4>2. i # 1 => i - 1 \in 1..m /\ i - 1 # m BY <1>3, <4>1
      <4>3. i # 1 => g[i - 1] = f[i - 1] BY <4>2
      <4>4. QED BY <2>1, <4>1, <4>3
    <3>3. QED BY <3>1, <3>2
  <2>7. QED BY <2>5, <2>6
<1> HIDE DEF Up
<1>4. Onwards(T, n) BY <1>2, <1>3 DEF Onwards
<1>5. n \in T BY <1>1, <1>4, UpTo
<1>6. QED BY <1>5 DEF Up, Joined

\* flatten, the recursive function in FlattenSeq
LEMMA FlattenJoined ==
    ASSUME NEW S, NEW s \in Seq(Seq(S)), NEW f \in [1..Len(s) -> Seq(S)], Joined(s, f), Len(s) # 0
    PROVE  FlattenSeq(s) = f[Len(s)]
<1> DEFINE n == Len(s)
           Rec(h) == h = [i \in 1..Len(s) |-> IF i = 1 THEN s[i] ELSE h[i-1] \o s[i]]
           F == CHOOSE h : Rec(h)
<1>1. FlattenSeq(s) = F[n] BY DEF FlattenSeq
<1>2. n \in Nat BY LenProperties
<1>3. Rec(f)
  <2>1. f = [i \in 1..n |-> f[i]] OBVIOUS
  <2>2. QED BY <2>1 DEF Joined
<1>4. Rec(F)
  <2> HIDE DEF Rec
  <2>1. \E g : Rec(g) BY <1>3, Zenon
  <2>2. QED BY <2>1, Zenon
<1> HIDE DEF F
<1>5. \A i \in 1..n : F[i] = IF i = 1 THEN s[i] ELSE F[i - 1] \o s[i] BY <1>4
<1> DEFINE T == {k \in Nat : k = 0 \/ k > n \/ F[k] = f[k]}
<1>6. Onwards(T, n)
  <2>1. ASSUME NEW k \in Nat, NEW m \in Nat, k \in T, m = k + 1, m <= n PROVE m \in T
    <3>1. m \in 1..n /\ (m # 1 => m - 1 = k /\ ~ (k = 0) /\ ~ (k > n)) BY <1>2, <2>1
    <3>2. f[m] = IF m = 1 THEN s[m] ELSE f[m - 1] \o s[m] BY <3>1 DEF Joined
    <3>3. F[m] = IF m = 1 THEN s[m] ELSE F[m - 1] \o s[m] BY <1>5, <3>1
    <3>4. m # 1 => F[m - 1] = f[m - 1] BY <2>1, <3>1
    <3>5. QED BY <3>2, <3>3, <3>4
  <2>2. QED BY <2>1 DEF Onwards
<1> HIDE DEF T
<1>7. n \in T BY <1>2, <1>6, UpTo
<1>8. QED BY <1>1, <1>2, <1>7 DEF T

\* With one more sequence at the end.
LEMMA FlattenAppend ==
    ASSUME NEW S, NEW s \in Seq(Seq(S)), NEW x \in Seq(S)
    PROVE  /\ FlattenSeq(<<>>) = <<>> /\ FlattenSeq(s) \in Seq(S)
           /\ FlattenSeq(Append(s, x)) = FlattenSeq(s) \o x
<1> DEFINE n == Len(s)
           t == Append(s, x)
           m == n + 1
<1>0. FlattenSeq(<<>>) = <<>> BY DEF FlattenSeq
<1>1. PICK f \in [1..n -> Seq(S)] : Joined(s, f) BY JoinedExists
<1>2. n \in Nat /\ \A i \in 1..n : s[i] \in Seq(S) BY LenProperties, ElementOfSeq
<1>3. t \in Seq(Seq(S)) /\ Len(t) = m /\ t[m] = x /\ \A i \in 1..n : t[i] = s[i]
  BY AppendProperties
<1> HIDE DEF t
<1> DEFINE y == IF n = 0 THEN x ELSE f[n] \o x
           g == [i \in 1..m |-> IF i = m THEN y ELSE f[i]]
<1>4. y \in Seq(S)
  <2>1. n # 0 => n \in 1..n BY <1>2
  <2>2. QED BY <1>1, <2>1, ConcatProperties
<1> HIDE DEF y
<1>5. \A i \in 1..m : i = m \/ i \in 1..n BY <1>2
<1>6. g \in [1..m -> Seq(S)] BY <1>4, <1>5
<1>7. ASSUME NEW i \in 1..m PROVE g[i] = IF i = 1 THEN t[i] ELSE g[i - 1] \o t[i]
  <2>1. CASE i = m
    <3>1. g[i] = y /\ t[i] = x BY <1>3, <2>1
    <3>2. i # 1 => i - 1 = n /\ n # 0 /\ n \in 1..m /\ n # m BY <1>2, <2>1
    <3>3. i # 1 => g[i - 1] = f[n] BY <3>2
    <3>4. i = 1 => n = 0 BY <1>2, <2>1
    <3>5. QED BY <3>1, <3>2, <3>3, <3>4 DEF y
  <2>2. CASE i # m
    <3>1. i \in 1..n /\ g[i] = f[i] /\ t[i] = s[i] BY <1>3, <1>5, <2>2
    <3>2. i # 1 => i - 1 \in 1..m /\ i - 1 # m BY <1>2, <3>1
    <3>3. i # 1 => g[i - 1] = f[i - 1] BY <3>2
    <3>4. f[i] = IF i = 1 THEN s[i] ELSE f[i - 1] \o s[i] BY <1>1, <3>1 DEF Joined
    <3>5. QED BY <3>1, <3>3, <3>4
  <2>3. QED BY <2>1, <2>2
<1>8. Joined(t, g) BY <1>3, <1>7 DEF Joined
<1>9. FlattenSeq(t) = g[m]
  <2> HIDE DEF g
  <2>1. Len(t) # 0 BY <1>2, <1>3
  <2>2. QED BY <1>3, <1>6, <1>8, <2>1, FlattenJoined
<1>10. g[m] = y BY <1>2
<1>11. CASE n = 0
  <2>1. s = <<>> /\ <<>> \o x = x BY <1>11, EmptySeq, ConcatEmptySeq
  <2>2. QED BY <1>0, <1>9, <1>10, <1>11, <2>1, EmptySeq DEF y, t
<1>12. CASE n # 0
  <2>1. FlattenSeq(s) = f[n] BY <1>1, <1>12, FlattenJoined
  <2>2. n \in 1..n BY <1>2, <1>12
  <2>3. QED BY <1>0, <1>1, <1>9, <1>10, <1>12, <2>1, <2>2 DEF y, t
<1>13. QED BY <1>11, <1>12

\* The sequences of s up to number m: those up to k, and s[m].
OneFurther(S, s, k, m) ==
    /\ FlattenSeq(SubSeq(s, 1, k)) \in Seq(S) /\ s[m] \in Seq(S)
    /\ FlattenSeq(SubSeq(s, 1, m)) = FlattenSeq(SubSeq(s, 1, k)) \o s[m]

\* They are, for any sequence of sequences.
LEMMA FlattenNext ==
    ASSUME NEW S, NEW s \in Seq(Seq(S)), NEW k \in Nat, NEW m \in Nat, m = k + 1, m <= Len(s)
    PROVE  OneFurther(S, s, k, m)
<1>1. Len(s) \in Nat /\ m \in 1..Len(s) /\ s[m] \in Seq(S) /\ m \in 1..m
  BY LenProperties, ElementOfSeq
<1>2. \A i \in 1..k : s[i] \in Seq(S)
  BY <1>1, ElementOfSeq
<1>3. SubSeq(s, 1, k) \in Seq(Seq(S))
  BY <1>2, SubSeqProperties
<1>4. SubSeq(s, 1, m) = Append(SubSeq(s, 1, k), s[m])
  <2>1. 1 \in 1..Len(s) /\ m \in 1..Len(s) /\ m - 1 = k BY <1>1
  <2>2. SubSeq(s, 1, m) = SubSeq(s, 1, k) \o <<s[m]>> BY <1>1, <2>1, SubSeqRecursiveSecond
  <2>3. QED BY <1>1, <1>3, <2>2, AppendIsConcat
<1>5. QED BY <1>1, <1>3, <1>4, FlattenAppend DEF OneFurther

\* Joining three is joining two and then one.
Regroup(a, b, c) == (a \o b) \o c = a \o (b \o c)
\* It is, for any three sequences.
LEMMA Regrouped ==
    ASSUME NEW S, NEW a \in Seq(S), NEW b \in Seq(S), NEW c \in Seq(S)
    PROVE  Regroup(a, b, c)
BY ConcatAssociative DEF Regroup

\* A sequence of sequences in two parts.
LEMMA FlattenParts ==
    ASSUME NEW S, NEW s \in Seq(Seq(S)), NEW t \in Seq(Seq(S)), NEW m \in Nat,
           Len(s) = m + Len(t), \A i \in 1..Len(t) : t[i] = s[m + i]
    PROVE  FlattenSeq(s) = FlattenSeq(SubSeq(s, 1, m)) \o FlattenSeq(t)
<1> DEFINE n == Len(t)
           Good(k) == FlattenSeq(SubSeq(s, 1, m + k)) = FlattenSeq(SubSeq(s, 1, m)) \o FlattenSeq(SubSeq(t, 1, k))
           T == {k \in Nat : Good(k)}
<1>1. n \in Nat /\ Len(s) \in Nat BY LenProperties
<1>2. FlattenSeq(SubSeq(s, 1, m)) \in Seq(S)
  <2>1. \A i \in 1..m : s[i] \in Seq(S)
    BY <1>1, ElementOfSeq
  <2>2. SubSeq(s, 1, m) \in Seq(Seq(S)) BY <2>1, SubSeqProperties
  <2>3. <<>> \in Seq(S) OBVIOUS
  <2>4. QED BY <2>2, <2>3, FlattenAppend
<1>3. Good(0)
  <2>1. SubSeq(t, 1, 0) = <<>> BY SubSeqEmpty
  <2>2. FlattenSeq(<<>>) = <<>>
    <3>1. <<>> \in Seq(S) /\ <<>> \in Seq(Seq(S)) OBVIOUS
    <3>2. QED BY <3>1, FlattenAppend
  <2>3. m + 0 = m OBVIOUS
  <2>4. QED BY <1>2, <2>1, <2>2, <2>3, ConcatEmptySeq
<1>4. ASSUME NEW k \in Nat, NEW j \in Nat, j = k + 1, j <= n, Good(k) PROVE Good(j)
  <2> DEFINE p == m + k
             q == m + j
  <2>1. p \in Nat /\ q \in Nat /\ q = p + 1 /\ q <= Len(s) /\ j \in 1..n BY <1>1, <1>4
  <2> HIDE DEF p, q
  <2>2. /\ s[q] \in Seq(S)
        /\ FlattenSeq(SubSeq(s, 1, q)) = FlattenSeq(SubSeq(s, 1, p)) \o s[q]
    <3>1. OneFurther(S, s, p, q) BY <2>1, FlattenNext
    <3>2. QED BY <3>1, Zenon DEF OneFurther
  <2>3. /\ FlattenSeq(SubSeq(t, 1, k)) \in Seq(S)
        /\ FlattenSeq(SubSeq(t, 1, j)) = FlattenSeq(SubSeq(t, 1, k)) \o t[j]
    <3>1. OneFurther(S, t, k, j) BY <1>4, FlattenNext
    <3>2. QED BY <3>1, Zenon DEF OneFurther
  <2>4. t[j] = s[q] BY <2>1 DEF q
  <2>5. FlattenSeq(SubSeq(s, 1, p)) = FlattenSeq(SubSeq(s, 1, m)) \o FlattenSeq(SubSeq(t, 1, k))
    BY <1>4 DEF p
  <2>6. FlattenSeq(SubSeq(s, 1, q)) = FlattenSeq(SubSeq(s, 1, m)) \o FlattenSeq(SubSeq(t, 1, j))
    <3> DEFINE A == FlattenSeq(SubSeq(s, 1, m))
               B == FlattenSeq(SubSeq(t, 1, k))
               C == s[q]
    <3>1. A \in Seq(S) /\ B \in Seq(S) /\ C \in Seq(S) BY <1>2, <2>2, <2>3
    <3>2. (A \o B) \o C = A \o (B \o C)
      <4> HIDE DEF A, B, C
      <4>1. Regroup(A, B, C) BY <3>1, Regrouped
      <4>2. QED BY <4>1 DEF Regroup
    <3>3. QED BY <2>2, <2>3, <2>4, <2>5, <3>2, Zenon
  <2>7. QED BY <2>6 DEF q
<1> HIDE DEF Good
<1>5. Onwards(T, n) BY <1>3, <1>4 DEF Onwards
<1>6. Good(n) BY <1>1, <1>5, UpTo
<1>7. SubSeq(s, 1, m + n) = s /\ SubSeq(t, 1, n) = t BY SubSeqFull
<1>8. QED BY <1>6, <1>7 DEF Good

-----------------------------------------------------------------------------
(* Words. *)

\* A text is a sequence of words.
Text == Seq(STRING)

\* The empty text reads as itself.
LEMMA SameTextEmpty == SameText(<<>>, <<>>)
BY DEF SameText

\* A text reads as itself.
LEMMA SameTextItself == ASSUME NEW a \in Text PROVE SameText(a, a)
BY DEF SameText

\* Texts that read alike can be joined.
LEMMA SameTextJoins ==
    ASSUME NEW a \in Text, NEW b \in Text, NEW c \in Text, NEW e \in Text,
           SameText(a, b), SameText(c, e)
    PROVE  a \o c \in Text /\ b \o e \in Text /\ SameText(a \o c, b \o e)
<1>1. /\ Len(a) \in Nat /\ Len(c) \in Nat /\ Len(b) = Len(a) /\ Len(e) = Len(c)
      /\ \A i \in 1..Len(a) : a[i] \in {b[i], "unregistered"}
      /\ \A i \in 1..Len(c) : c[i] \in {e[i], "unregistered"}
  <2>1. DOMAIN a = 1..Len(a) /\ DOMAIN c = 1..Len(c) /\ Len(a) \in Nat /\ Len(c) \in Nat
    BY LenProperties DEF Text
  <2>2. QED BY <2>1, Zenon DEF SameText
<1>2. /\ a \o c \in Text /\ Len(a \o c) = Len(a) + Len(c)
      /\ \A i \in 1..(Len(a) + Len(c)) : (a \o c)[i] = IF i <= Len(a) THEN a[i] ELSE c[i - Len(a)]
  BY ConcatProperties DEF Text
<1>3. /\ b \o e \in Text /\ Len(b \o e) = Len(a) + Len(c)
      /\ \A i \in 1..(Len(a) + Len(c)) : (b \o e)[i] = IF i <= Len(a) THEN b[i] ELSE e[i - Len(a)]
  <2>1. /\ b \o e \in Text /\ Len(b \o e) = Len(b) + Len(e)
        /\ \A i \in 1..(Len(b) + Len(e)) : (b \o e)[i] = IF i <= Len(b) THEN b[i] ELSE e[i - Len(b)]
    BY ConcatProperties DEF Text
  <2>2. Len(b) = Len(a) /\ Len(e) = Len(c) BY <1>1
  <2>3. QED BY <2>1, <2>2
<1>4. DOMAIN (a \o c) = 1..(Len(a) + Len(c)) BY <1>2 DEF Text
<1> DEFINE l == Len(a)
           r == Len(c)
<1>5. l \in Nat /\ r \in Nat BY <1>1
<1> HIDE DEF l, r
<1>6. ASSUME NEW i \in 1..(l + r) PROVE (a \o c)[i] \in {(b \o e)[i], "unregistered"}
  <2>1. CASE i <= l
    <3>1. i \in 1..l BY <1>5, <2>1
    <3>2. QED BY <1>1, <1>2, <1>3, <2>1, <3>1 DEF l, r
  <2>2. CASE ~ (i <= l)
    <3>1. i - l \in 1..r BY <1>5, <2>2
    <3>2. QED BY <1>1, <1>2, <1>3, <2>2, <3>1 DEF l, r
  <2>3. QED BY <2>1, <2>2
<1>7. QED BY <1>2, <1>3, <1>4, <1>6 DEF SameText, l, r

\* Two texts go along with each other, of whose parts the first leaves out some
\* that are empty: place tells how many of it stand in front of a part of the second.
InStep(items, said, place) ==
    /\ items \in Seq(Text) /\ said \in Seq(Text)
    /\ place[0] = 0 /\ place[Len(said)] = Len(items)
    /\ \A p \in 0..Len(said) : place[p] \in 0..Len(items)
    /\ \A p \in 1..Len(said) :
        \/ place[p] = place[p - 1] /\ said[p] = <<>>
        \/ place[p] = place[p - 1] + 1 /\ SameText(items[place[p]], said[p])

\* Parts that go along with each other make texts that read alike.
LEMMA InStepSame ==
    ASSUME NEW items, NEW said, NEW place, InStep(items, said, place)
    PROVE  /\ FlattenSeq(items) \in Text /\ FlattenSeq(said) \in Text
           /\ SameText(FlattenSeq(items), FlattenSeq(said))
<1> DEFINE n == Len(said)
           left(k) == FlattenSeq(SubSeq(items, 1, k))
           right(k) == FlattenSeq(SubSeq(said, 1, k))
           Good(k) == left(place[k]) \in Text /\ right(k) \in Text /\ SameText(left(place[k]), right(k))
           T == {k \in Nat : Good(k)}
<1>1. /\ items \in Seq(Seq(STRING)) /\ said \in Seq(Seq(STRING))
      /\ n \in Nat /\ Len(items) \in Nat
  BY LenProperties DEF InStep, Text
<1>2. /\ <<>> \in Seq(STRING) /\ FlattenSeq(<<>>) = <<>>
  BY DEF FlattenSeq
<1>3. Good(0)
  <2>1. SubSeq(items, 1, 0) = <<>> /\ SubSeq(said, 1, 0) = <<>> BY SubSeqEmpty
  <2>2. place[0] = 0 BY DEF InStep
  <2>3. QED BY <1>2, <2>1, <2>2, SameTextEmpty DEF Text
<1>4. ASSUME NEW k \in Nat, NEW m \in Nat, m = k + 1, m <= n, Good(k) PROVE Good(m)
  <2>1. /\ right(k) \in Text /\ said[m] \in Text /\ right(m) = right(k) \o said[m]
    <3>1. said \in Seq(Seq(STRING)) BY <1>1 DEF Text
    <3>2. OneFurther(STRING, said, k, m) BY <1>4, <3>1, FlattenNext
    <3>3. QED BY <3>2, Zenon DEF OneFurther, Text
  <2>2. m \in 1..n /\ m - 1 = k /\ k \in 0..n /\ m \in 0..n BY <1>1, <1>4
  <2>3. place[k] \in 0..Len(items) /\ place[m] \in 0..Len(items) BY <2>2 DEF InStep
  <2>4. \/ place[m] = place[k] /\ said[m] = <<>>
        \/ place[m] = place[k] + 1 /\ SameText(items[place[m]], said[m])
    BY <2>2 DEF InStep
  <2>5. CASE place[m] = place[k] /\ said[m] = <<>>
    <3>1. right(m) = right(k) BY <2>1, <2>5, ConcatEmptySeq DEF Text
    <3> HIDE DEF left, right
    <3>2. place[m] = place[k] BY <2>5
    <3>3. QED BY <1>4, <3>1, <3>2, Zenon
  <2>6. CASE place[m] = place[k] + 1 /\ SameText(items[place[m]], said[m])
    <3>1. place[k] \in Nat /\ place[m] \in Nat /\ place[m] <= Len(items) BY <1>1, <2>3
    <3>2. /\ left(place[k]) \in Text /\ items[place[m]] \in Text
          /\ left(place[m]) = left(place[k]) \o items[place[m]]
      <4>1. items \in Seq(Seq(STRING)) BY <1>1 DEF Text
      <4>2. OneFurther(STRING, items, place[k], place[m]) BY <2>6, <3>1, <4>1, FlattenNext
      <4>3. QED BY <4>2, Zenon DEF OneFurther, Text
    <3> HIDE DEF left, right
    <3>3. SameText(left(place[k]), right(k)) BY <1>4
    <3>4. left(place[k]) \in Text BY <1>4
    <3>5. /\ left(place[k]) \o items[place[m]] \in Text /\ right(k) \o said[m] \in Text
          /\ SameText(left(place[k]) \o items[place[m]], right(k) \o said[m])
      BY <2>1, <2>6, <3>2, <3>3, <3>4, SameTextJoins
    <3>6. QED BY <2>1, <3>2, <3>5, Zenon
  <2>7. QED BY <2>4, <2>5, <2>6
<1> HIDE DEF Good
<1>5. Onwards(T, n) BY <1>3, <1>4 DEF Onwards
<1>6. Good(n) BY <1>1, <1>5, UpTo
<1>7. SubSeq(items, 1, place[n]) = items /\ SubSeq(said, 1, n) = said
  BY <1>1, SubSeqFull DEF InStep
<1>8. QED BY <1>6, <1>7 DEF Good

-----------------------------------------------------------------------------
(* What trees spell. *)

\* What trees spell that are no deeper than k, level by level.
Levels(f, k) ==
    \A i \in 0..k : f[i] = IF i = 0 THEN [n \in {} |-> <<>>] ELSE Deeper(f[i - 1])

\* There are levels up to every depth.
LEMMA LevelsExist ==
    ASSUME NEW n \in Nat
    PROVE  \E f : Levels(f, n)
<1> DEFINE T == {k \in Nat : \E f : Levels(f, k)}
<1>1. 0 \in T
  <2>1. Levels([i \in {0} |-> [m \in {} |-> <<>>]], 0) BY DEF Levels
  <2>2. QED BY <2>1
<1>2. ASSUME NEW k \in Nat, NEW m \in Nat, m = k + 1, \E f : Levels(f, k)
      PROVE  \E f : Levels(f, m)
  <2>1. PICK f : Levels(f, k) BY <1>2
  <2> DEFINE g == [i \in 0..m |-> IF i = m THEN Deeper(f[k]) ELSE f[i]]
  <2>2. ASSUME NEW i \in 0..m PROVE g[i] = IF i = 0 THEN [x \in {} |-> <<>>] ELSE Deeper(g[i - 1])
    <3>1. CASE i = m
      <4>1. g[i] = Deeper(f[k]) /\ i # 0 BY <1>2, <3>1
      <4>2. i - 1 = k /\ k \in 0..m /\ k # m BY <1>2, <3>1
      <4>3. g[i - 1] = f[k] BY <4>2
      <4>4. QED BY <4>1, <4>3
    <3>2. CASE i # m
      <4>1. i \in 0..k /\ g[i] = f[i] BY <1>2, <3>2
      <4>2. i # 0 => i - 1 \in 0..m /\ i - 1 # m BY <1>2, <4>1
      <4>3. i # 0 => g[i - 1] = f[i - 1] BY <4>2
      <4>4. f[i] = IF i = 0 THEN [x \in {} |-> <<>>] ELSE Deeper(f[i - 1])
        BY <2>1, <4>1 DEF Levels
      <4>5. QED BY <4>1, <4>3, <4>4
    <3>3. QED BY <3>1, <3>2
  <2>3. Levels(g, m) BY <2>2 DEF Levels
  <2>4. QED BY <2>3
<1>3. Onwards(T, n) BY <1>1, <1>2 DEF Onwards
<1>4. n \in 0..n OBVIOUS
<1>5. QED BY <1>3, <1>4, UpTo

\* and only one for each depth.
LEMMA LevelsAgree ==
    ASSUME NEW f, NEW g, NEW k \in Nat, NEW m \in Nat, Levels(f, k), Levels(g, m), k <= m
    PROVE  f[k] = g[k]
<1> DEFINE T == {i \in Nat : f[i] = g[i]}
<1>1. 0 \in T
  <2>1. 0 \in 0..k /\ 0 \in 0..m OBVIOUS
  <2>2. QED BY <2>1 DEF Levels
<1>2. ASSUME NEW i \in Nat, NEW j \in Nat, i \in T, j = i + 1, j <= k PROVE j \in T
  <2>1. j \in 0..k /\ j \in 0..m /\ j # 0 /\ j - 1 = i BY <1>2
  <2>2. f[j] = Deeper(f[i]) /\ g[j] = Deeper(g[i]) BY <2>1 DEF Levels
  <2>3. QED BY <1>2, <2>2
<1> HIDE DEF T
<1>3. Onwards(T, k) BY <1>1, <1>2 DEF Onwards
<1>4. k \in T BY <1>3, UpTo
<1>5. QED BY <1>4 DEF T

\* Spelt is the recursive function it is written as.
LEMMA SpeltLevels ==
    /\ DOMAIN Spelt[0] = {}
    /\ \A d \in Nat : d # 0 => Spelt[d] = Deeper(Spelt[d - 1])
<1> DEFINE Rec(h) == h = [d \in Nat |-> IF d = 0 THEN [n \in {} |-> <<>>] ELSE Deeper(h[d - 1])]
           best(d) == CHOOSE f : Levels(f, d)
           G == [d \in Nat |-> best(d)[d]]
<1>1. \A d \in Nat : Levels(best(d), d)
  <2>1. TAKE d \in Nat
  <2>2. \E f : Levels(f, d) BY LevelsExist
  <2>3. QED BY <2>2, Zenon
<1> HIDE DEF best
<1>2. ASSUME NEW d \in Nat PROVE G[d] = IF d = 0 THEN [n \in {} |-> <<>>] ELSE Deeper(G[d - 1])
  <2>1. G[d] = best(d)[d] /\ Levels(best(d), d) BY <1>1
  <2>2. d \in 0..d OBVIOUS
  <2>3. best(d)[d] = IF d = 0 THEN [n \in {} |-> <<>>] ELSE Deeper(best(d)[d - 1])
    BY <2>1, <2>2 DEF Levels
  <2>4. CASE d = 0 BY <2>1, <2>3, <2>4
  <2>5. CASE d # 0
    <3>1. PICK k \in Nat : k = d - 1 BY <2>5
    <3>2. G[k] = best(k)[k] /\ Levels(best(k), k) BY <1>1
    <3>3. \A i \in 0..k : i \in 0..d BY <3>1
    <3>4. Levels(best(d), k) BY <2>1, <3>3 DEF Levels
    <3>5. best(k)[k] = best(d)[k] BY <3>2, <3>4, LevelsAgree
    <3>6. QED BY <2>1, <2>3, <2>5, <3>1, <3>2, <3>5
  <2>6. QED BY <2>4, <2>5
<1>3. Rec(G)
  <2> HIDE DEF G
  <2>1. G = [d \in Nat |-> G[d]] BY DEF G
  <2>2. QED BY <1>2, <2>1
<1>4. Rec(Spelt)
  <2>1. Spelt = CHOOSE h : Rec(h) BY DEF Spelt
  <2> HIDE DEF Rec
  <2>2. \E g : Rec(g) BY <1>3, Zenon
  <2>3. QED BY <2>1, <2>2, Zenon
<1>5. Spelt[0] = [n \in {} |-> <<>>]
  <2> DEFINE S == Spelt
  <2>1. S = [d \in Nat |-> IF d = 0 THEN [n \in {} |-> <<>>] ELSE Deeper(S[d - 1])] BY <1>4
  <2> HIDE DEF S
  <2>2. S[0] = [n \in {} |-> <<>>] BY <2>1
  <2>3. QED BY <2>2 DEF S
<1>6. \A d \in Nat : d # 0 => Spelt[d] = Deeper(Spelt[d - 1])
  <2> DEFINE S == Spelt
  <2>1. S = [d \in Nat |-> IF d = 0 THEN [n \in {} |-> <<>>] ELSE Deeper(S[d - 1])] BY <1>4
  <2> HIDE DEF S
  <2>2. \A d \in Nat : d # 0 => S[d] = Deeper(S[d - 1]) BY <2>1
  <2>3. QED BY <2>2 DEF S
<1>7. QED BY <1>5, <1>6

-----------------------------------------------------------------------------
(* What a node is made of and what it is read as. *)

\* Passed counts, from place to place, what is not punctuation.
LEMMA PassedCounts ==
    ASSUME NEW rhs, Len(rhs) \in Nat
    PROVE  /\ Passed(rhs)[0] = 0
           /\ \A p \in 0..Len(rhs) : Passed(rhs)[p] \in 0..Passed(rhs)[Len(rhs)]
           /\ \A p \in 1..Len(rhs) :
                Passed(rhs)[p] = Passed(rhs)[p - 1] + IF rhs[p] \in Punctuation THEN 0 ELSE 1
<1> DEFINE n == Len(rhs)
           kept(p) == {k \in 1..p : rhs[k] \notin Punctuation}
<1>1. \A p \in 0..n : Passed(rhs)[p] = Cardinality(kept(p)) BY DEF Passed
<1>2. \A p \in Nat : IsFiniteSet(kept(p)) /\ Cardinality(kept(p)) \in Nat
  <2>1. TAKE p \in Nat
  <2>2. 1 \in Int /\ p \in Int OBVIOUS
  <2>3. IsFiniteSet(1..p) BY <2>2, FS_Interval
  <2>4. kept(p) \subseteq 1..p OBVIOUS
  <2>5. QED BY <2>3, <2>4, FS_Subset, FS_CardinalityType
<1>3. kept(0) = {} OBVIOUS
<1>4. 0 \in 0..n /\ n \in 0..n OBVIOUS
<1>5. Passed(rhs)[0] = 0 BY <1>1, <1>3, <1>4, FS_EmptySet
<1>6. ASSUME NEW p \in 0..n PROVE Passed(rhs)[p] \in 0..Passed(rhs)[n]
  <2>1. kept(p) \subseteq kept(n) OBVIOUS
  <2>2. p \in Nat /\ n \in Nat OBVIOUS
  <2>3. Cardinality(kept(p)) <= Cardinality(kept(n)) BY <1>2, <2>1, <2>2, FS_Subset
  <2>4. Cardinality(kept(p)) \in Nat /\ Cardinality(kept(n)) \in Nat BY <1>2, <2>2
  <2> HIDE DEF kept
  <2>5. QED BY <1>1, <1>4, <2>3, <2>4
<1>7. ASSUME NEW p \in 1..n
      PROVE  Passed(rhs)[p] = Passed(rhs)[p - 1] + IF rhs[p] \in Punctuation THEN 0 ELSE 1
  <2>1. PICK q \in 0..n : q = p - 1 /\ q \in Nat OBVIOUS
  <2>2. p \in 0..n /\ p \notin kept(q) BY <2>1
  <2>3. kept(p) = IF rhs[p] \in Punctuation THEN kept(q) ELSE kept(q) \cup {p} BY <2>1
  <2>4. rhs[p] \notin Punctuation => Cardinality(kept(p)) = Cardinality(kept(q)) + 1
    BY <1>2, <2>1, <2>2, <2>3, FS_AddElement
  <2>5. Cardinality(kept(q)) \in Nat BY <1>2, <2>1
  <2>6. Cardinality(kept(p)) = Cardinality(kept(q)) + IF rhs[p] \in Punctuation THEN 0 ELSE 1
    <3> HIDE DEF kept
    <3>1. QED BY <2>3, <2>4, <2>5
  <2> HIDE DEF kept
  <2>7. QED BY <1>1, <2>1, <2>2, <2>6
<1>8. QED BY <1>5, <1>6, <1>7

\* Where a part of the frame is written.
LEMMA PartWritten ==
    ASSUME NEW rhs, Len(rhs) \in Nat, NEW j \in 1..Passed(rhs)[Len(rhs)]
    PROVE  \E p \in 1..Len(rhs) : rhs[p] \notin Punctuation /\ Passed(rhs)[p] = j
<1> DEFINE n == Len(rhs)
           place == Passed(rhs)
           T == {p \in 0..n : place[p] >= j}
<1>1. /\ place[0] = 0 /\ \A p \in 0..n : place[p] \in 0..place[n]
      /\ \A p \in 1..n : place[p] = place[p - 1] + IF rhs[p] \in Punctuation THEN 0 ELSE 1
  BY PassedCounts
<1> HIDE DEF place
<1>2. n \in 0..n OBVIOUS
<1>3. n \in T /\ T \subseteq Nat BY <1>1, <1>2 DEF place
<1>4. PICK p \in T : \A m \in T : p <= m
  <2> HIDE DEF T
  <2>1. QED BY <1>3, Least
<1>5. p \in 1..n /\ place[p] >= j BY <1>1
<1>6. PICK q \in 0..n : q = p - 1 /\ q < p BY <1>5
<1>7. q \notin T BY <1>4, <1>6
<1>8. ~ (place[q] >= j) /\ place[q] \in Nat /\ place[p] \in Nat /\ j \in Nat
  BY <1>1, <1>2, <1>5, <1>6, <1>7
<1>9. place[p] = place[q] + IF rhs[p] \in Punctuation THEN 0 ELSE 1 BY <1>1, <1>5, <1>6
<1>10. rhs[p] \notin Punctuation /\ place[p] = j BY <1>5, <1>8, <1>9
<1>11. QED BY <1>5, <1>10 DEF place

\* The nodes whose children are of some set of trees.
Trees(S) == [kind : STRING, text : STRING, children : Seq(S)]

\* A level has the nodes whose children the one below has.
LEMMA LevelTrees ==
    ASSUME NEW d \in Nat, NEW e \in Nat, e = d + 1
    PROVE  DOMAIN Spelt[e] = Trees(DOMAIN Spelt[d])
<1>1. e # 0 /\ e - 1 = d OBVIOUS
<1>2. Spelt[e] = Deeper(Spelt[d]) BY <1>1, SpeltLevels
<1>3. QED BY <1>2 DEF Deeper, Trees

\* More trees make more nodes.
LEMMA TreesGrow ==
    ASSUME NEW S, NEW T, S \subseteq T
    PROVE  Trees(S) \subseteq Trees(T)
<1>1. \A c \in Seq(S) : c \in Seq(T) BY SeqMonotonic
<1>2. QED BY <1>1 DEF Trees

\* Deeper levels have the trees of those above.
LEMMA SpeltGrows ==
    ASSUME NEW d \in Nat, NEW e \in Nat, d <= e
    PROVE  DOMAIN Spelt[d] \subseteq DOMAIN Spelt[e]
<1> DEFINE T == {k \in Nat : \A i \in 0..k : DOMAIN Spelt[i] \subseteq DOMAIN Spelt[k]}
<1>1. 0 \in T
  <2>1. \A i \in 0..0 : i = 0 OBVIOUS
  <2>2. QED BY <2>1
<1>2. ASSUME NEW k \in Nat, NEW m \in Nat, k \in T, m = k + 1 PROVE m \in T
  <2>1. DOMAIN Spelt[k] \subseteq DOMAIN Spelt[m]
    <3>1. CASE k = 0 BY <3>1, SpeltLevels
    <3>2. CASE k # 0
      <4>1. PICK j \in Nat : k = j + 1 /\ j \in 0..k
        <5>1. k - 1 \in Nat /\ k = (k - 1) + 1 /\ k - 1 \in 0..k BY <3>2
        <5>2. QED BY <5>1
      <4>2. DOMAIN Spelt[j] \subseteq DOMAIN Spelt[k] BY <1>2, <4>1
      <4>3. Trees(DOMAIN Spelt[j]) \subseteq Trees(DOMAIN Spelt[k]) BY <4>2, TreesGrow
      <4>4. DOMAIN Spelt[k] = Trees(DOMAIN Spelt[j]) BY <4>1, LevelTrees
      <4>5. DOMAIN Spelt[m] = Trees(DOMAIN Spelt[k]) BY <1>2, LevelTrees
      <4>6. QED BY <4>3, <4>4, <4>5
    <3>3. QED BY <3>1, <3>2
  <2>2. ASSUME NEW i \in 0..m PROVE DOMAIN Spelt[i] \subseteq DOMAIN Spelt[m]
    <3>1. CASE i = m BY <3>1
    <3>2. CASE i # m
      <4>1. i \in 0..k BY <1>2, <3>2
      <4>2. DOMAIN Spelt[i] \subseteq DOMAIN Spelt[k] BY <1>2, <4>1
      <4>3. QED BY <2>1, <4>2
    <3>3. QED BY <3>1, <3>2
  <2>3. QED BY <2>2
<1> HIDE DEF T
<1>3. Onwards(T, e) BY <1>1, <1>2 DEF Onwards
<1>4. e \in 0..e OBVIOUS
<1>5. e \in T BY <1>3, <1>4, UpTo
<1>6. d \in 0..e OBVIOUS
<1>7. QED BY <1>5, <1>6 DEF T

\* A tree is spelled at some depth.
Finite(v) == \E d \in Nat : v \in DOMAIN Spelt[d]

\* A tree tells words, however deep it may be.
Tells(v, s) ==
    \A d \in Nat : v \in DOMAIN Spelt[d] => Spelt[d][v] \in Text /\ SameText(Spelt[d][v], s)

\* A list, of trees that tell words.
Legible(v) == \A d \in Nat : v \in DOMAIN Spelt[d] => Spelt[d][v] \in Text
IsList(v, kind) ==
    \E text, c : /\ c \in Seq(Range(c)) /\ v = Node(kind, text, c)
                 /\ \A i \in DOMAIN c : Legible(c[i])

\* What words a symbol on the stack stands for, whose value is v.
Stands(sym, v, s) ==
    /\ s \in Text
    /\ sym \in Tokens => s = Says(sym, v.text)
    /\ sym \in Tokens \ Silent => v.text \in STRING
    /\ sym \notin Tokens => Tells(v, s) /\ Finite(v)
    /\ sym = "op" => v.text \in STRING /\ s = <<v.text>>
    /\ sym \in DOMAIN ListOf => IsList(v, ListOf[sym])

\* A node is spelled from what its children are, one level below.
SpeltFrom(d, kind, text, c) ==
    /\ d # 0 /\ d - 1 \in Nat /\ kind \in STRING /\ text \in STRING /\ c \in Seq(DOMAIN Spelt[d - 1])
    /\ Spelt[d][Node(kind, text, c)] = Phrase(kind, text, [i \in DOMAIN c |-> Spelt[d - 1][c[i]]])

\* A node that is spelled is spelled from what its children are.
LEMMA NodeSpelt ==
    ASSUME NEW d \in Nat, NEW kind, NEW text, NEW c, Node(kind, text, c) \in DOMAIN Spelt[d]
    PROVE  SpeltFrom(d, kind, text, c)
<1> DEFINE n == Node(kind, text, c)
           below == Spelt[d - 1]
<1>1. n.kind = kind /\ n.text = text /\ n.children = c BY DEF Node
<1>2. d # 0 BY SpeltLevels
<1>3. Spelt[d] = Deeper(below) BY <1>2, SpeltLevels
<1> HIDE DEF n, below
<1>4. n \in DOMAIN Deeper(below) BY <1>3 DEF n
<1>5. n \in [kind : STRING, text : STRING, children : Seq(DOMAIN below)] BY <1>4 DEF Deeper
<1>6. Deeper(below)[n] = Phrase(n.kind, n.text, [i \in DOMAIN n.children |-> below[n.children[i]]])
  BY <1>5 DEF Deeper
<1>7. kind \in STRING /\ text \in STRING /\ c \in Seq(DOMAIN below) BY <1>1, <1>5
<1>8. d - 1 \in Nat BY <1>2
<1>9. Spelt[d][n] = Phrase(kind, text, [i \in DOMAIN c |-> below[c[i]]]) BY <1>1, <1>3, <1>6
<1>10. QED BY <1>2, <1>7, <1>8, <1>9 DEF n, below, SpeltFrom

\* One word reads as itself, or stands for a name that is not registered.
LEMMA OneWord ==
    ASSUME NEW a \in STRING, NEW b \in STRING, a \in {b, "unregistered"}
    PROVE  <<a>> \in Text /\ <<b>> \in Text /\ SameText(<<a>>, <<b>>)
BY DEF Text, SameText

\* The words of a token that is not punctuation.
LEMMA WordOfToken ==
    ASSUME NEW sym, NEW text
    PROVE  /\ sym \in Punctuation => sym \in Tokens /\ Says(sym, text) = <<>>
           /\ sym \in DOMAIN Meaning =>
                /\ sym \in Tokens /\ sym \notin Silent /\ Meaning[sym] \in STRING
                /\ Says(sym, text) = <<Meaning[sym]>>
           /\ sym \in Tokens \ (DOMAIN Meaning \cup Silent) => Says(sym, text) = <<text>>
<1>1. Punctuation \subseteq Tokens /\ DOMAIN Meaning \subseteq Tokens /\ \A s \in DOMAIN Meaning : Meaning[s] \in STRING
  BY SymbolsSpell, Zenon
<1>2. \A s \in DOMAIN Meaning : s \notin Silent BY SymbolsSpell
<1>3. sym \in Punctuation => Says(sym, text) = <<>> BY DEF Says, Silent
<1>4. sym \in DOMAIN Meaning => Says(sym, text) = <<Meaning[sym]>> BY <1>2, Zenon DEF Says
<1>5. sym \in Tokens \ (DOMAIN Meaning \cup Silent) => Says(sym, text) = <<text>>
  BY Zenon DEF Says
<1>6. QED BY <1>1, <1>2, <1>3, <1>4, <1>5, Zenon

\* What a node that is made has as its text.
OwnText(act, v, text) ==
    IF FixedText(act) THEN text = act.text ELSE text \in {v[act.kids[1]].text, "unregistered"}

\* A part of a node is read as the symbol it was made of.
LEMMA PartTold ==
    ASSUME NEW part, NEW act, NEW symbol, NEW p, PartFits(part, act, symbol, p),
           NEW v, NEW s, Stands(symbol, v[p], s),
           NEW text \in STRING, OwnText(act, v, text), NEW parts,
           part.part = "child" => parts[part.child] \in Text /\ SameText(parts[part.child], s)
    PROVE  Spells(part, text, parts) \in Text /\ SameText(Spells(part, text, parts), s)
<1>1. CASE part.part = "child" BY <1>1 DEF Spells
<1>2. CASE part.part # "child" /\ part.part = "word"
  <2>1. symbol \in DOMAIN Meaning /\ Meaning[symbol] = part.word BY <1>2 DEF PartFits
  <2>2. s = <<part.word>> /\ part.word \in STRING BY <2>1, WordOfToken, Zenon DEF Stands
  <2>3. Spells(part, text, parts) = <<part.word>> BY <1>2 DEF Spells
  <2>4. QED BY <2>2, <2>3, OneWord
<1>3. CASE part.part # "child" /\ part.part # "word"
  <2>1. Spells(part, text, parts) = <<text>> BY <1>3 DEF Spells
  <2>2. CASE FixedText(act)
    <3>1. symbol \in DOMAIN Meaning /\ Meaning[symbol] = act.text BY <1>3, <2>2 DEF PartFits
    <3>2. s = <<act.text>> /\ act.text = text
      BY <2>2, <3>1, WordOfToken, Zenon DEF Stands, OwnText
    <3>3. QED BY <2>1, <3>2, OneWord
  <2>3. CASE ~ FixedText(act)
    <3>1. act.kids[1] = p /\ Worded(symbol) BY <1>3, <2>3 DEF PartFits
    <3>2. text \in {v[p].text, "unregistered"} BY <2>3, <3>1 DEF OwnText
    <3>3. s = <<v[p].text>> /\ v[p].text \in STRING
      <4>1. CASE symbol = "op" BY <4>1 DEF Stands
      <4>2. CASE symbol \in Tokens \ (DOMAIN Meaning \cup Silent)
        <5>1. Says(symbol, v[p].text) = <<v[p].text>> BY <4>2, WordOfToken, Zenon
        <5>2. symbol \in Tokens /\ symbol \in Tokens \ Silent BY <4>2, Zenon
        <5>3. QED BY <5>1, <5>2, Zenon DEF Stands
      <4>3. QED BY <3>1, <4>1, <4>2 DEF Worded
    <3>4. QED BY <2>1, <3>2, <3>3, OneWord
  <2>4. QED BY <2>2, <2>3
<1>4. QED BY <1>1, <1>2, <1>3

\* What is on the stack for a right side.
Standing(rhs, v, said) ==
    /\ said \in Seq(Text) /\ Len(said) = Len(rhs)
    /\ \A p \in 1..Len(rhs) : Stands(rhs[p], v[p], said[p])

\* A new node tells what the right side it was made of stands for.
LEMMA Made ==
    ASSUME NEW rhs, Len(rhs) \in Nat, NEW act, MakesAll(rhs, act),
           NEW v, NEW said, Standing(rhs, v, said),
           NEW text, OwnText(act, v, text),
           NEW c, Len(c) = Len(Kids(act)), DOMAIN c = DOMAIN Kids(act),
           \A i \in DOMAIN c : Tells(c[i], said[Kids(act)[i]])
    PROVE  Tells(Node(act.kind, text, c), FlattenSeq(said))
<1> DEFINE node == Node(act.kind, text, c)
<1> SUFFICES ASSUME NEW d \in Nat, node \in DOMAIN Spelt[d]
             PROVE  Spelt[d][node] \in Text /\ SameText(Spelt[d][node], FlattenSeq(said))
  BY DEF Tells
<1> DEFINE parts == [i \in DOMAIN c |-> Spelt[d - 1][c[i]]]
           frame == Frame(act.kind, Len(Kids(act)))
           items == [j \in 1..Len(frame) |-> Spells(frame[j], text, parts)]
           n == Len(rhs)
           place == Passed(rhs)
<1>1. /\ text \in STRING /\ c \in Seq(DOMAIN Spelt[d - 1]) /\ d - 1 \in Nat
      /\ Spelt[d][node] = Phrase(act.kind, text, parts)
  <2>1. SpeltFrom(d, act.kind, text, c) BY NodeSpelt
  <2>2. QED BY <2>1 DEF SpeltFrom
<1>2. Len(parts) = Len(c) /\ \A i \in DOMAIN c : c[i] \in DOMAIN Spelt[d - 1]
  <2>1. Len(c) \in Nat /\ DOMAIN c = 1..Len(c) /\ \A i \in 1..Len(c) : c[i] \in DOMAIN Spelt[d - 1]
    BY <1>1
  <2>2. QED BY <2>1
<1>3. \A i \in DOMAIN c : parts[i] \in Text /\ SameText(parts[i], said[Kids(act)[i]])
  BY <1>1, <1>2 DEF Tells
<1>4. Spelt[d][node] = FlattenSeq(items)
  BY <1>1, <1>2 DEF Phrase
<1>5. /\ place[0] = 0 /\ place[n] = Len(frame)
      /\ \A p \in 0..n : place[p] \in 0..place[n]
      /\ \A p \in 1..n : place[p] = place[p - 1] + IF rhs[p] \in Punctuation THEN 0 ELSE 1
  BY PassedCounts DEF MakesAll
<1>6. \A p \in 1..n : rhs[p] \in Punctuation \/ PartFits(frame[place[p]], act, rhs[p], p)
  BY DEF MakesAll
<1> HIDE DEF parts, frame, place
<1>7. ASSUME NEW p \in 1..n, rhs[p] \notin Punctuation
      PROVE  LET item == Spells(frame[place[p]], text, parts)
             IN item \in Text /\ SameText(item, said[p])
  <2> DEFINE part == frame[place[p]]
  <2>1. PartFits(part, act, rhs[p], p) BY <1>6, <1>7
  <2>2. Stands(rhs[p], v[p], said[p]) BY DEF Standing
  <2> HIDE DEF part
  <2>3. part.part = "child" => parts[part.child] \in Text /\ SameText(parts[part.child], said[p])
    <3>1. part.part = "child" => part.child \in DOMAIN Kids(act) /\ Kids(act)[part.child] = p
      BY <2>1 DEF PartFits
    <3>2. QED BY <1>3, <3>1
  <2>4. Spells(part, text, parts) \in Text /\ SameText(Spells(part, text, parts), said[p])
    BY <1>1, <2>1, <2>2, <2>3, PartTold
  <2>5. QED BY <2>4 DEF part
<1>8. Len(frame) \in Nat
  <2>1. n \in 0..n OBVIOUS
  <2>2. place[n] \in 0..place[n] BY <1>5, <2>1
  <2>3. QED BY <1>5, <2>2
<1>9. items \in Seq(Text) /\ Len(items) = Len(frame)
  <2>1. ASSUME NEW j \in 1..Len(frame) PROVE Spells(frame[j], text, parts) \in Text
    <3>1. j \in 1..Passed(rhs)[Len(rhs)] BY <1>5 DEF place
    <3>2. PICK p \in 1..n : rhs[p] \notin Punctuation /\ place[p] = j
      BY <3>1, PartWritten DEF place
    <3>3. QED BY <1>7, <3>2
  <2>2. QED BY <1>8, <2>1
<1>10. InStep(items, said, place)
  <2>1. said \in Seq(Text) /\ Len(said) = n BY DEF Standing
  <2>2. \A p \in 0..n : place[p] \in 0..Len(items) BY <1>5, <1>9
  <2>3. ASSUME NEW p \in 1..n
        PROVE  \/ place[p] = place[p - 1] /\ said[p] = <<>>
               \/ place[p] = place[p - 1] + 1 /\ SameText(items[place[p]], said[p])
    <3>1. CASE rhs[p] \in Punctuation
      <4>1. Stands(rhs[p], v[p], said[p]) BY DEF Standing
      <4>2. said[p] = <<>> BY <3>1, <4>1, WordOfToken, Zenon DEF Stands
      <4>3. p - 1 \in 0..n BY <1>5
      <4>4. place[p - 1] \in 0..place[n] BY <1>5, <4>3
      <4>5. place[p] = place[p - 1] + 0 BY <1>5, <3>1
      <4>6. QED BY <4>2, <4>4, <4>5
    <3>2. CASE rhs[p] \notin Punctuation
      <4>1. place[p] = place[p - 1] + 1 BY <1>5, <3>2
      <4>2. p - 1 \in 0..n /\ p \in 0..n BY <1>5
      <4>3. place[p - 1] \in Nat /\ place[p] \in 0..Len(frame) BY <1>5, <4>2
      <4>4. place[p] \in 1..Len(frame) BY <1>8, <4>1, <4>3
      <4>5. items[place[p]] = Spells(frame[place[p]], text, parts) BY <4>4
      <4>6. SameText(items[place[p]], said[p]) BY <1>7, <3>2, <4>5
      <4>7. QED BY <4>1, <4>6
    <3>3. QED BY <3>1, <3>2
  <2> HIDE DEF items
  <2>4. place[n] = Len(items) BY <1>5, <1>9
  <2>5. QED BY <1>5, <1>9, <2>1, <2>2, <2>3, <2>4 DEF InStep
<1> HIDE DEF items
<1>11. QED BY <1>4, <1>10, InStepSame

\* What tells words is legible.
LEMMA TellsLegible == ASSUME NEW v, NEW s, Tells(v, s) PROVE Legible(v)
BY DEF Tells, Legible

\* What one tree deep below spells is no deeper than the nodes above it.
LEMMA SpeltNode ==
    ASSUME NEW d \in Nat, d # 0, NEW kind \in STRING, NEW text \in STRING, NEW c \in Seq(DOMAIN Spelt[d - 1])
    PROVE  Node(kind, text, c) \in DOMAIN Spelt[d]
<1> DEFINE below == Spelt[d - 1]
<1>1. Spelt[d] = Deeper(below) BY SpeltLevels
<1> HIDE DEF below
<1>2. DOMAIN Deeper(below) = [kind : STRING, text : STRING, children : Seq(DOMAIN below)]
  BY DEF Deeper
<1>3. Node(kind, text, c) \in [kind : STRING, text : STRING, children : Seq(DOMAIN below)]
  BY DEF Node, below
<1>4. QED BY <1>1, <1>2, <1>3

\* A list is read as its items.
LEMMA ListPhrase ==
    ASSUME NEW kind \in Range(ListOf), NEW text, NEW S, NEW parts \in Seq(S)
    PROVE  Phrase(kind, text, parts) = FlattenSeq(parts)
<1> DEFINE n == Len(parts)
           frame == Frame(kind, n)
<1>1. n \in Nat /\ parts = [j \in 1..n |-> parts[j]] BY LenProperties
<1>2. frame = Children(n) BY DEF Frame
<1>3. Len(frame) = n
  <2>1. Children(n) = [i \in 1..n |-> Child(i)] BY DEF Children
  <2>2. QED BY <1>1, <1>2, <2>1
<1>4. \A j \in 1..n : Spells(frame[j], text, parts) = parts[j]
  <2>1. TAKE j \in 1..n
  <2>2. frame[j] = Child(j) BY <1>2 DEF Children
  <2>3. Child(j).part = "child" /\ Child(j).child = j BY DEF Child
  <2>4. QED BY <2>2, <2>3 DEF Spells
<1> HIDE DEF frame
<1>5. [j \in 1..Len(frame) |-> Spells(frame[j], text, parts)] = parts
  BY <1>1, <1>3, <1>4
<1>6. QED BY <1>5 DEF Phrase, frame

\* Appending, element by element.
MoreByOne(T, s, y) ==
    /\ Append(s, y) \in Seq(T) /\ Len(Append(s, y)) = Len(s) + 1
    /\ \A i \in 1..Len(s) : Append(s, y)[i] = s[i]
    /\ Append(s, y)[Len(s) + 1] = y

\* What Append does to a sequence.
LEMMA OneMore ==
    ASSUME NEW T, NEW s \in Seq(T), NEW y \in T
    PROVE  MoreByOne(T, s, y)
BY DEF MoreByOne

\* Joining one text, or two.
LEMMA FlattenFew ==
    ASSUME NEW S, NEW x \in Seq(S), NEW y \in Seq(S)
    PROVE  FlattenSeq(<<x>>) = x /\ FlattenSeq(<<x, y>>) = x \o y
<1>1. <<>> \in Seq(Seq(S)) /\ <<x>> \in Seq(Seq(S)) OBVIOUS
<1>2. FlattenSeq(Append(<<>>, x)) = FlattenSeq(<<>>) \o x /\ FlattenSeq(<<>>) = <<>>
  BY <1>1, FlattenAppend
<1>3. Append(<<>>, x) = <<x>> OBVIOUS
<1>4. <<x, y>> = Append(<<x>>, y)
  <2> DEFINE s == <<x>>
             t == <<x, y>>
             T == Seq(S)
  <2>1. s \in Seq(T) /\ Len(s) = 1 /\ s[1] = x OBVIOUS
  <2>2. t \in Seq(T) /\ Len(t) = 2 /\ t[1] = x /\ t[2] = y OBVIOUS
  <2>3. y \in T OBVIOUS
  <2> HIDE DEF s, t, T
  <2>4. Append(s, y) \in Seq(T) /\ Len(Append(s, y)) = 2 /\ Append(s, y)[1] = x /\ Append(s, y)[2] = y
    <3>1. /\ Append(s, y) \in Seq(T) /\ Len(Append(s, y)) = Len(s) + 1
          /\ \A i \in 1..Len(s) : Append(s, y)[i] = s[i]
          /\ Append(s, y)[Len(s) + 1] = y
      <4>1. MoreByOne(T, s, y) BY <2>1, <2>3, OneMore
      <4>2. QED BY <4>1 DEF MoreByOne
    <3>2. Len(s) + 1 = 2 /\ 1 \in 1..Len(s) BY <2>1
    <3>3. QED BY <2>1, <3>1, <3>2
  <2>5. \A i \in 1..2 : t[i] = Append(s, y)[i] BY <2>2, <2>4
  <2>6. t = Append(s, y) BY <2>2, <2>4, <2>5, SeqEqual
  <2>7. QED BY <2>6 DEF s, t
<1>5. FlattenSeq(<<x>>) = x BY <1>2, <1>3, ConcatEmptySeq
<1>6. FlattenSeq(Append(<<x>>, y)) = FlattenSeq(<<x>>) \o y BY <1>1, FlattenAppend
<1>7. QED BY <1>4, <1>5, <1>6

\* A list of one tree.
LEMMA ListOfOne ==
    ASSUME NEW kind \in Range(ListOf), NEW text, NEW v, NEW s, Tells(v, s)
    PROVE  Tells(Node(kind, text, <<v>>), s)
<1> DEFINE node == Node(kind, text, <<v>>)
<1> SUFFICES ASSUME NEW d \in Nat, node \in DOMAIN Spelt[d]
             PROVE  Spelt[d][node] \in Text /\ SameText(Spelt[d][node], s)
  BY DEF Tells
<1>0. SpeltFrom(d, kind, text, <<v>>) BY NodeSpelt
<1>1. /\ <<v>> \in Seq(DOMAIN Spelt[d - 1]) /\ d - 1 \in Nat
      /\ Spelt[d][node] = Phrase(kind, text, [i \in DOMAIN <<v>> |-> Spelt[d - 1][<<v>>[i]]])
  BY <1>0 DEF SpeltFrom
<1> DEFINE x == Spelt[d - 1][v]
<1>2. [i \in DOMAIN <<v>> |-> Spelt[d - 1][<<v>>[i]]] = <<x>> OBVIOUS
<1>3. v \in DOMAIN Spelt[d - 1]
  <2> DEFINE trees == DOMAIN Spelt[d - 1]
             one == <<v>>
  <2>1. one \in Seq(trees) BY <1>1
  <2>2. Len(one) = 1 /\ one[1] = v /\ 1 \in 1..1 OBVIOUS
  <2> HIDE DEF trees, one
  <2>3. one[1] \in trees BY <2>1, <2>2, ElementOfSeq
  <2>4. QED BY <2>2, <2>3 DEF trees
<1>4. x \in Text /\ SameText(x, s) BY <1>1, <1>3 DEF Tells
<1> HIDE DEF x
<1>5. Phrase(kind, text, <<x>>) = FlattenSeq(<<x>>)
  <2>1. <<x>> \in Seq(Text) BY <1>4
  <2>2. QED BY <2>1, ListPhrase
<1>6. FlattenSeq(<<x>>) = x
  BY <1>4, FlattenFew DEF Text
<1>7. QED BY <1>1, <1>2, <1>4, <1>5, <1>6

\* What is left out of a right side has no words.
Empty(said, places) == \A p \in 1..Len(said) : p \in places \/ said[p] = <<>>

\* One part of a right side, with nothing else to say, is all of it.
LEMMA OnePart ==
    ASSUME NEW said \in Seq(Text), NEW k \in 1..Len(said), Empty(said, {k}),
           NEW x \in Text, SameText(x, said[k])
    PROVE  SameText(x, FlattenSeq(said))
<1> DEFINE place == [p \in 0..Len(said) |-> IF p < k THEN 0 ELSE 1]
<1>1. Len(said) \in Nat BY LenProperties
<1>2. <<x>> \in Seq(Text) /\ Len(<<x>>) = 1 /\ <<x>>[1] = x OBVIOUS
<1>3. InStep(<<x>>, said, place)
  <2>1. place[0] = 0 /\ place[Len(said)] = 1 BY <1>1
  <2>2. \A p \in 0..Len(said) : place[p] \in 0..1 OBVIOUS
  <2>3. ASSUME NEW p \in 1..Len(said)
        PROVE  \/ place[p] = place[p - 1] /\ said[p] = <<>>
               \/ place[p] = place[p - 1] + 1 /\ SameText(<<x>>[place[p]], said[p])
    <3>1. p - 1 \in 0..Len(said) /\ p \in 0..Len(said) BY <1>1
    <3>2. CASE p = k
      <4>1. place[p] = 1 /\ place[p - 1] = 0 BY <3>1, <3>2
      <4>2. QED BY <1>2, <3>2, <4>1
    <3>3. CASE p # k
      <4>1. place[p] = place[p - 1] BY <3>1, <3>3
      <4>2. said[p] = <<>> BY <3>3 DEF Empty
      <4>3. QED BY <4>1, <4>2
    <3>4. QED BY <3>2, <3>3
  <2> HIDE DEF place
  <2>4. QED BY <1>2, <2>1, <2>2, <2>3 DEF InStep
<1> HIDE DEF place
<1>4. SameText(FlattenSeq(<<x>>), FlattenSeq(said)) BY <1>3, InStepSame
<1>5. FlattenSeq(<<x>>) = x
  BY FlattenFew DEF Text
<1>6. QED BY <1>4, <1>5

\* and so are the first and one more.
LEMMA TwoParts ==
    ASSUME NEW said \in Seq(Text), NEW k \in 2..Len(said), Empty(said, {1, k}),
           NEW x \in Text, SameText(x, said[1]), NEW y \in Text, SameText(y, said[k])
    PROVE  x \o y \in Text /\ SameText(x \o y, FlattenSeq(said))
<1> DEFINE place == [p \in 0..Len(said) |-> IF p = 0 THEN 0 ELSE IF p < k THEN 1 ELSE 2]
           items == <<x, y>>
<1>1. Len(said) \in Nat /\ 1 \in 1..Len(said) BY LenProperties
<1>2. items \in Seq(Text) /\ Len(items) = 2 /\ items[1] = x /\ items[2] = y OBVIOUS
<1>3. InStep(items, said, place)
  <2> HIDE DEF items
  <2>1. place[0] = 0 /\ place[Len(said)] = 2 BY <1>1
  <2>2. \A p \in 0..Len(said) : place[p] \in 0..2 OBVIOUS
  <2>3. ASSUME NEW p \in 1..Len(said)
        PROVE  \/ place[p] = place[p - 1] /\ said[p] = <<>>
               \/ place[p] = place[p - 1] + 1 /\ SameText(items[place[p]], said[p])
    <3>1. p - 1 \in 0..Len(said) /\ p \in 0..Len(said) BY <1>1
    <3>2. CASE p = k
      <4>1. place[p] = 2 /\ place[p - 1] = 1 BY <3>1, <3>2
      <4>2. QED BY <1>2, <3>2, <4>1
    <3>3. CASE p = 1
      <4>1. place[p] = 1 /\ place[p - 1] = 0 BY <3>1, <3>3
      <4>2. QED BY <1>2, <3>3, <4>1
    <3>4. CASE p # k /\ p # 1
      <4>1. place[p] = place[p - 1] BY <3>1, <3>4
      <4>2. said[p] = <<>> BY <3>4 DEF Empty
      <4>3. QED BY <4>1, <4>2
    <3>5. QED BY <3>2, <3>3, <3>4
  <2> HIDE DEF place
  <2>4. QED BY <1>2, <2>1, <2>2, <2>3 DEF InStep
<1>4. SameText(FlattenSeq(items), FlattenSeq(said))
  <2> HIDE DEF place, items
  <2>1. QED BY <1>3, InStepSame
<1>5. FlattenSeq(items) = x \o y /\ x \o y \in Text
  <2>1. x \in Seq(STRING) /\ y \in Seq(STRING) BY DEF Text
  <2>2. FlattenSeq(<<x, y>>) = x \o y BY <2>1, FlattenFew
  <2>3. x \o y \in Seq(STRING) BY <2>1, ConcatProperties
  <2>4. QED BY <2>2, <2>3 DEF Text
<1>6. QED BY <1>4, <1>5

\* A function on the first numbers is a sequence.
LEMMA SequenceOf ==
    ASSUME NEW S, NEW n \in Nat, NEW f \in [1..n -> S]
    PROVE  f \in Seq(S) /\ Len(f) = n
OBVIOUS

\* A sequence is one of what is in it.
LEMMA OfItsRange ==
    ASSUME NEW S, NEW f \in Seq(S)
    PROVE  f \in Seq(Range(f))
<1>1. Len(f) \in Nat /\ DOMAIN f = 1..Len(f) /\ f = [i \in 1..Len(f) |-> f[i]] OBVIOUS
<1>2. \A i \in 1..Len(f) : f[i] \in Range(f) BY <1>1 DEF Range
<1>3. f \in [1..Len(f) -> Range(f)] BY <1>1, <1>2
<1>4. QED BY <1>1, <1>3, SequenceOf

\* Some of the values in a row are, so they are at one depth.
LEMMA OneDepth ==
    ASSUME NEW n \in Nat, NEW v, NEW some, \A i \in some : i \in 1..n => Finite(v[i])
    PROVE  \E d \in Nat : \A i \in some : i \in 1..n => v[i] \in DOMAIN Spelt[d]
<1> DEFINE Known(d, k) == \A i \in some : i \in 1..k => v[i] \in DOMAIN Spelt[d]
           T == {k \in Nat : \E d \in Nat : Known(d, k)}
<1>1. 0 \in T
  <2>1. Known(0, 0) OBVIOUS
  <2>2. QED BY <2>1
<1>2. ASSUME NEW k \in Nat, NEW m \in Nat, k \in T, m = k + 1, m <= n PROVE m \in T
  <2>1. PICK d \in Nat : Known(d, k) BY <1>2
  <2>2. CASE m \notin some
    <3>1. \A i \in some : i \in 1..m => i \in 1..k BY <1>2, <2>2
    <3>2. Known(d, m) BY <2>1, <3>1
    <3>3. QED BY <3>2
  <2>3. CASE m \in some
    <3>1. m \in 1..n BY <1>2
    <3>2. PICK e \in Nat : v[m] \in DOMAIN Spelt[e] BY <2>3, <3>1 DEF Finite
    <3>3. PICK f \in Nat : d <= f /\ e <= f
      <4>1. d <= e \/ e <= d OBVIOUS
      <4>2. QED BY <4>1
    <3>4. DOMAIN Spelt[d] \subseteq DOMAIN Spelt[f] /\ DOMAIN Spelt[e] \subseteq DOMAIN Spelt[f]
      BY <3>3, SpeltGrows
    <3>5. \A i \in some : i \in 1..m => i \in 1..k \/ i = m BY <1>2
    <3>6. Known(f, m) BY <2>1, <3>2, <3>4, <3>5
    <3>7. QED BY <3>6
  <2>4. QED BY <2>2, <2>3
<1> HIDE DEF T
<1>3. Onwards(T, n) BY <1>1, <1>2 DEF Onwards
<1>4. n \in 0..n OBVIOUS
<1>5. n \in T BY <1>3, <1>4, UpTo
<1>6. QED BY <1>5 DEF T

\* A node is, when its children are,
LEMMA NodeFinite ==
    ASSUME NEW kind \in STRING, NEW text \in STRING, NEW c, c \in Seq(Range(c)),
           \A i \in DOMAIN c : Finite(c[i])
    PROVE  Finite(Node(kind, text, c))
<1> DEFINE n == Len(c)
<1>1. n \in Nat /\ DOMAIN c = 1..n /\ c = [i \in 1..n |-> c[i]] OBVIOUS
<1> HIDE DEF n
<1>2. PICK d \in Nat : \A i \in 1..n : i \in 1..n => c[i] \in DOMAIN Spelt[d]
  <2>1. \A i \in 1..n : i \in 1..n => Finite(c[i]) BY <1>1
  <2>2. QED BY <1>1, <2>1, OneDepth
<1> DEFINE below == DOMAIN Spelt[d]
<1>3. c \in Seq(below)
  <2> HIDE DEF below
  <2>1. c \in [1..n -> below] BY <1>1, <1>2 DEF below
  <2>2. QED BY <1>1, <2>1, SequenceOf
<1>4. Node(kind, text, c) \in Trees(below)
  <2> HIDE DEF below
  <2>1. QED BY <1>3 DEF Node, Trees
<1>5. d + 1 \in Nat OBVIOUS
<1>6. DOMAIN Spelt[d + 1] = Trees(below) BY <1>5, LevelTrees
<1>7. QED BY <1>4, <1>5, <1>6 DEF Finite

\* and then its children are.
LEMMA ChildrenFinite ==
    ASSUME NEW kind, NEW text, NEW c, c \in Seq(Range(c)), Finite(Node(kind, text, c))
    PROVE  kind \in STRING /\ text \in STRING /\ \A i \in DOMAIN c : Finite(c[i])
<1>1. PICK d \in Nat : Node(kind, text, c) \in DOMAIN Spelt[d] BY DEF Finite
<1>2. SpeltFrom(d, kind, text, c) BY <1>1, NodeSpelt
<1> DEFINE below == DOMAIN Spelt[d - 1]
<1>3. d - 1 \in Nat /\ kind \in STRING /\ text \in STRING /\ c \in Seq(below)
  BY <1>2 DEF SpeltFrom
<1>4. \A i \in DOMAIN c : c[i] \in below
  <2> HIDE DEF below
  <2>1. QED BY <1>3
<1>5. QED BY <1>3, <1>4 DEF Finite

\* Texts are joined to a text.
LEMMA FlattenText == ASSUME NEW said \in Seq(Text) PROVE FlattenSeq(said) \in Text
<1>1. <<>> \in Seq(STRING) OBVIOUS
<1>2. QED BY <1>1, FlattenAppend DEF Text

\* A symbol that is no token tells its words.
LEMMA StandsTells ==
    ASSUME NEW rhs, NEW v, NEW said, Standing(rhs, v, said), NEW k \in 1..Len(rhs), rhs[k] \notin Tokens
    PROVE  Tells(v[k], said[k])
BY DEF Standing, Stands

\* Where a right side has but punctuation, nothing is said.
LEMMA PunctuationEmpty ==
    ASSUME NEW rhs, NEW v, NEW said, Standing(rhs, v, said), NEW places, OnlyAt(rhs, places)
    PROVE  Empty(said, places)
<1> SUFFICES ASSUME NEW p \in 1..Len(said), p \notin places PROVE said[p] = <<>>
  BY DEF Empty
<1>1. p \in 1..Len(rhs) BY DEF Standing
<1>2. rhs[p] \in Punctuation BY <1>1 DEF OnlyAt
<1>3. Stands(rhs[p], v[p], said[p]) BY <1>1 DEF Standing
<1>4. rhs[p] \in Tokens /\ Says(rhs[p], v[p].text) = <<>> BY <1>2, WordOfToken
<1>5. QED BY <1>3, <1>4 DEF Stands

\* What is passed on tells the words of the whole right side.
LEMMA PassTells ==
    ASSUME NEW said \in Seq(Text), NEW k \in 1..Len(said), Empty(said, {k}), NEW v, Tells(v, said[k])
    PROVE  Tells(v, FlattenSeq(said))
<1> SUFFICES ASSUME NEW d \in Nat, v \in DOMAIN Spelt[d]
             PROVE  Spelt[d][v] \in Text /\ SameText(Spelt[d][v], FlattenSeq(said))
  BY DEF Tells
<1>1. Spelt[d][v] \in Text /\ SameText(Spelt[d][v], said[k]) BY DEF Tells
<1>2. QED BY <1>1, OnePart

\* A list with one item more.
Longer(v, u) == [v EXCEPT !.children = Append(@, u)]

\* A node with other children.
LEMMA ChangedNode ==
    ASSUME NEW kind, NEW text, NEW c, NEW e
    PROVE  [Node(kind, text, c) EXCEPT !.children = e] = Node(kind, text, e)
BY DEF Node

\* A list with one item more is the node with one child more.
LEMMA LongerNode ==
    ASSUME NEW kind, NEW text, NEW c, NEW u
    PROVE  Longer(Node(kind, text, c), u) = Node(kind, text, Append(c, u))
<1>1. Node(kind, text, c).children = c BY DEF Node
<1>2. Longer(Node(kind, text, c), u)
        = [Node(kind, text, c) EXCEPT !.children = Append(Node(kind, text, c).children, u)]
  BY DEF Longer
<1> DEFINE e == Append(c, u)
<1>3. [Node(kind, text, c) EXCEPT !.children = e] = Node(kind, text, e)
  <2> HIDE DEF e
  <2>1. QED BY ChangedNode
<1>4. QED BY <1>1, <1>2, <1>3, Zenon

\* A list with one item more is a list.
LEMMA PushLists ==
    ASSUME NEW v, NEW kind, IsList(v, kind), NEW u, Legible(u)
    PROVE  IsList(Longer(v, u), kind)
<1> PICK text, c : /\ c \in Seq(Range(c)) /\ v = Node(kind, text, c) /\ \A i \in DOMAIN c : Legible(c[i])
  BY DEF IsList
<1> DEFINE e == Append(c, u)
<1>1. e \in Seq(Range(e)) /\ Len(e) = Len(c) + 1 /\ Len(c) \in Nat BY AppendedSequence
<1>2. Longer(v, u) = Node(kind, text, e) BY LongerNode
<1>3. \A i \in DOMAIN e : Legible(e[i])
  <2>1. \A i \in 1..Len(c) : e[i] = c[i] OBVIOUS
  <2>2. e[Len(c) + 1] = u OBVIOUS
  <2>3. DOMAIN c = 1..Len(c) OBVIOUS
  <2> HIDE DEF e
  <2>4. DOMAIN e = 1..Len(e) BY <1>1
  <2>5. QED BY <1>1, <2>1, <2>2, <2>3, <2>4
<1> HIDE DEF e
<1>4. QED BY <1>1, <1>2, <1>3 DEF IsList

\* A list with one item more tells the words of both.
LEMMA PushTells ==
    ASSUME NEW said \in Seq(Text), NEW k \in 2..Len(said), Empty(said, {1, k}),
           NEW kind \in Range(ListOf), NEW v, IsList(v, kind), Tells(v, said[1]),
           NEW u, Tells(u, said[k])
    PROVE  Tells(Longer(v, u), FlattenSeq(said))
<1> PICK text, c : /\ c \in Seq(Range(c)) /\ v = Node(kind, text, c) /\ \A i \in DOMAIN c : Legible(c[i])
  BY DEF IsList
<1> DEFINE e == Append(c, u)
           n == Len(c)
<1>1. /\ n \in Nat /\ DOMAIN c = 1..n /\ c = [i \in 1..n |-> c[i]]
      /\ Len(e) = n + 1 /\ DOMAIN e = 1..(n + 1) /\ e[n + 1] = u
      /\ \A i \in 1..n : e[i] = c[i]
  OBVIOUS
<1>2. Longer(v, u) = Node(kind, text, e) BY LongerNode
<1> HIDE DEF e
<1> SUFFICES ASSUME NEW d \in Nat, Node(kind, text, e) \in DOMAIN Spelt[d]
             PROVE  /\ Spelt[d][Node(kind, text, e)] \in Text
                    /\ SameText(Spelt[d][Node(kind, text, e)], FlattenSeq(said))
  BY <1>2 DEF Tells
<1> DEFINE trees == DOMAIN Spelt[d - 1]
           below(t) == Spelt[d - 1][t]
           cs == [i \in 1..n |-> below(c[i])]
           es == [i \in 1..(n + 1) |-> below(e[i])]
           y == below(u)
<1>3. SpeltFrom(d, kind, text, e) BY NodeSpelt
<1>4. /\ d # 0 /\ d - 1 \in Nat /\ kind \in STRING /\ text \in STRING /\ e \in Seq(trees)
      /\ Spelt[d][Node(kind, text, e)] = Phrase(kind, text, es)
  BY <1>1, <1>3 DEF SpeltFrom
<1>5. \A i \in 1..(n + 1) : e[i] \in trees
  <2> HIDE DEF trees
  <2>1. QED BY <1>1, <1>4
<1>6. c \in Seq(trees)
  <2>1. \A i \in 1..n : c[i] \in trees BY <1>1, <1>5
  <2> HIDE DEF trees, n
  <2>2. c \in [1..n -> trees] BY <1>1, <2>1
  <2>3. QED BY <1>1, <2>2, SequenceOf
<1>7. \A i \in 1..n : below(c[i]) \in Text
  <2>1. TAKE i \in 1..n
  <2>2. Legible(c[i]) BY <1>1
  <2>3. c[i] \in trees BY <1>1, <1>5
  <2>4. QED BY <1>4, <2>2, <2>3 DEF Legible
<1>8. y \in Text /\ SameText(y, said[k])
  <2>1. u \in trees BY <1>1, <1>5
  <2>2. QED BY <1>4, <2>1 DEF Tells
<1>9. cs \in Seq(Text) /\ es \in Seq(Text) /\ es = Append(cs, y)
  <2>1. \A i \in 1..n : below(e[i]) = below(c[i]) BY <1>1
  <2>2. below(e[n + 1]) = y BY <1>1
  <2> HIDE DEF below, y, n
  <2>3. cs \in Seq(Text) /\ Len(cs) = n
    <3>1. cs \in [1..n -> Text] BY <1>7
    <3> HIDE DEF cs
    <3>2. QED BY <1>1, <3>1, SequenceOf
  <2>4. \A i \in 1..(n + 1) : es[i] = IF i = n + 1 THEN y ELSE cs[i] BY <1>1, <2>1, <2>2
  <2> HIDE DEF cs
  <2>5. Append(cs, y) \in Seq(Text) /\ Len(Append(cs, y)) = n + 1
        /\ \A i \in 1..(n + 1) : Append(cs, y)[i] = IF i = n + 1 THEN y ELSE cs[i]
    BY <1>1, <1>8, <2>3
  <2>6. \A i \in 1..(n + 1) : es[i] \in Text
    <3>1. \A i \in 1..n : cs[i] \in Text BY <2>3
    <3>2. QED BY <1>1, <1>8, <2>4, <3>1
  <2>7. es \in Seq(Text) /\ Len(es) = n + 1
    <3>1. es \in [1..(n + 1) -> Text] BY <2>6
    <3>2. n + 1 \in Nat BY <1>1
    <3> HIDE DEF es
    <3>3. QED BY <3>1, <3>2, SequenceOf
  <2> HIDE DEF es
  <2>8. es = Append(cs, y)
    <3> DEFINE a == Append(cs, y)
    <3>1. a \in Seq(Text) /\ Len(a) = n + 1 /\ \A i \in 1..Len(es) : es[i] = a[i]
      BY <2>4, <2>5, <2>7
    <3> HIDE DEF a
    <3>2. es = a BY <2>7, <3>1, SeqEqual
    <3>3. QED BY <3>2 DEF a
  <2>9. QED BY <2>3, <2>7, <2>8
<1>10. v \in DOMAIN Spelt[d] /\ Spelt[d][v] = Phrase(kind, text, cs)
  <2>1. v \in DOMAIN Spelt[d]
    <3> HIDE DEF n
    <3>1. QED BY <1>4, <1>6, SpeltNode
  <2>2. SpeltFrom(d, kind, text, c) BY <2>1, NodeSpelt
  <2>3. Spelt[d][v] = Phrase(kind, text, [i \in DOMAIN c |-> Spelt[d - 1][c[i]]])
    BY <2>2 DEF SpeltFrom
  <2>4. QED BY <1>1, <2>1, <2>3
<1> DEFINE x == Spelt[d][v]
<1>11. x \in Text /\ SameText(x, said[1]) BY <1>10 DEF Tells
<1> HIDE DEF cs, es, y
<1>12. x = FlattenSeq(cs) BY <1>9, <1>10, ListPhrase
<1>13. Phrase(kind, text, es) = FlattenSeq(es) BY <1>9, ListPhrase
<1>14. FlattenSeq(es) = x \o y
  <2>1. cs \in Seq(Seq(STRING)) /\ y \in Seq(STRING) BY <1>8, <1>9 DEF Text
  <2>2. FlattenSeq(Append(cs, y)) = FlattenSeq(cs) \o y BY <2>1, FlattenAppend
  <2>3. QED BY <1>9, <1>12, <2>2, Zenon
<1> HIDE DEF x
<1>15. x \o y \in Text /\ SameText(x \o y, FlattenSeq(said)) BY <1>8, <1>11, TwoParts
<1>16. QED BY <1>4, <1>13, <1>14, <1>15

\* The text of a node that has none of its own.
NoText == ""

\* The value an action makes, way by way (parser.y, the actions).
LEMMA ValueCases ==
    ASSUME NEW act, NEW v
    PROVE  /\ act.how = "pass" => Value(act, v) = v[act.kids[1]]
           /\ act.how = "push" => Value(act, v) = Longer(v[1], v[act.kids[1]])
           /\ act.how = "new" => Value(act, v) = Node(act.kind, act.text, Pick(v, act.kids))
           /\ act.how = "named" => Value(act, v) = Node(act.kind, v[act.kids[1]].text, Pick(v, Tail(act.kids)))
           /\ act.how = "wrapped" =>
                Value(act, v) = Node(act.kind, NoText, Append(Pick(v, Front(act.kids)),
                                                          Node("block", NoText, <<v[Last(act.kids)]>>)))
           /\ act.how = "type" => Value(act, v) = get_type(v[1].text)
<1>1. act.how = "pass" => Value(act, v) = v[act.kids[1]] BY Zenon DEF Value
<1>2. act.how = "new" => Value(act, v) = Node(act.kind, act.text, Pick(v, act.kids))
  BY Zenon DEF Value
<1>3. act.how = "named" => Value(act, v) = Node(act.kind, v[act.kids[1]].text, Pick(v, Tail(act.kids)))
  BY Zenon DEF Value
<1>4. act.how = "push" => Value(act, v) = Longer(v[1], v[act.kids[1]])
  <2>1. act.how = "push" => Value(act, v) = [v[1] EXCEPT !.children = Append(@, v[act.kids[1]])]
    BY Zenon DEF Value
  <2>2. QED BY <2>1 DEF Longer
<1>5. act.how = "wrapped" =>
        Value(act, v) = Node(act.kind, NoText, Append(Pick(v, Front(act.kids)),
                                                  Node("block", NoText, <<v[Last(act.kids)]>>)))
  BY Zenon DEF Value, NoText
<1>6. act.how = "type" => Value(act, v) = get_type(v[1].text) BY Zenon DEF Value
<1>7. QED BY <1>1, <1>2, <1>3, <1>4, <1>5, <1>6, Zenon

-----------------------------------------------------------------------------
(* The actions of the grammar, way by way. *)

\* A right side with its action, of which nothing but punctuation is left out.
Sound(rhs, act) ==
    /\ Len(rhs) \in Nat
    /\ act.kids \in Seq(1..Len(rhs))

\* Children that were picked from the values of a right side.
PicksTold(v, said, kids) ==
    /\ Len(Pick(v, kids)) = Len(kids) /\ DOMAIN Pick(v, kids) = DOMAIN kids
    /\ Len(kids) \in Nat /\ DOMAIN kids = 1..Len(kids)
    /\ Pick(v, kids) \in Seq(Range(Pick(v, kids)))
    /\ \A i \in DOMAIN kids : Pick(v, kids)[i] = v[kids[i]] /\ Tells(v[kids[i]], said[kids[i]])

\* They tell what the symbols they are the values of stand for.
LEMMA Picked ==
    ASSUME NEW rhs, NEW v, NEW said, Standing(rhs, v, said),
           NEW kids \in Seq(1..Len(rhs)), \A i \in DOMAIN kids : rhs[kids[i]] \notin Tokens
    PROVE  PicksTold(v, said, kids)
<1>1. Len(kids) \in Nat /\ DOMAIN kids = 1..Len(kids) /\ \A i \in DOMAIN kids : kids[i] \in 1..Len(rhs)
  OBVIOUS
<1> DEFINE p == Pick(v, kids)
<1>2. DOMAIN p = DOMAIN kids /\ \A i \in DOMAIN kids : p[i] = v[kids[i]] BY DEF Pick
<1>3. p = [i \in 1..Len(kids) |-> p[i]] BY <1>1 DEF Pick
<1> HIDE DEF p
<1>4. p \in [1..Len(kids) -> Range(p)]
  <2>1. \A i \in 1..Len(kids) : p[i] \in Range(p) BY <1>1, <1>2 DEF Range
  <2>2. QED BY <1>3, <2>1
<1>5. p \in Seq(Range(p)) /\ Len(p) = Len(kids) BY <1>1, <1>4, SequenceOf
<1>6. \A i \in DOMAIN kids : Tells(v[kids[i]], said[kids[i]]) BY <1>1, StandsTells
<1>7. QED BY <1>1, <1>2, <1>5, <1>6 DEF p, PicksTold

\* The kinds of nodes that are lists.
LEMMA ListKinds ==
    /\ "block" \in Range(ListOf)
    /\ \A symbol \in DOMAIN ListOf : ListOf[symbol] \in Range(ListOf)
<1>1. "stmts" \in DOMAIN ListOf /\ ListOf["stmts"] = "block" BY DEF ListOf
<1>2. \A symbol \in DOMAIN ListOf : ListOf[symbol] \in Range(ListOf) BY DEF Range
<1>3. QED BY <1>1, <1>2

\* What the action of a rule makes tells the words of the right side.
LEMMA NewTells ==
    ASSUME NEW rhs, NEW act, Sound(rhs, act), MakesAll(rhs, act), act.how = "new",
           NEW v, NEW said, Standing(rhs, v, said)
    PROVE  Tells(Value(act, v), FlattenSeq(said))
<1> DEFINE c == Pick(v, act.kids)
<1>1. Kids(act) = act.kids BY Zenon DEF Kids
<1>2. FixedText(act) BY DEF FixedText
<1>3. Value(act, v) = Node(act.kind, act.text, c) BY ValueCases
<1>4. act.kids \in Seq(1..Len(rhs)) /\ \A i \in DOMAIN act.kids : rhs[act.kids[i]] \notin Tokens
  BY <1>1 DEF Sound, MakesAll
<1>5. Len(c) = Len(act.kids) /\ DOMAIN c = DOMAIN act.kids
      /\ \A i \in DOMAIN c : Tells(c[i], said[act.kids[i]])
  BY <1>4, Picked DEF PicksTold
<1>6. OwnText(act, v, act.text) BY <1>2 DEF OwnText
<1> HIDE DEF c
<1>7. QED BY <1>1, <1>3, <1>5, <1>6, Made DEF Sound

\* So does a node with the text of one of the values,
LEMMA NamedTells ==
    ASSUME NEW rhs, NEW act, Sound(rhs, act), MakesAll(rhs, act), act.how = "named", act.kids # <<>>,
           NEW v, NEW said, Standing(rhs, v, said)
    PROVE  Tells(Value(act, v), FlattenSeq(said))
<1> DEFINE kids == Tail(act.kids)
           c == Pick(v, kids)
<1>1. Kids(act) = kids BY Zenon DEF Kids
<1>2. ~ FixedText(act) BY Zenon DEF FixedText
<1>3. Value(act, v) = Node(act.kind, v[act.kids[1]].text, c) BY ValueCases
<1>4. /\ kids \in Seq(1..Len(rhs))
      /\ \A i \in DOMAIN kids : rhs[kids[i]] \notin Tokens
  <2>1. kids \in Seq(1..Len(rhs)) BY HeadTailProperties DEF Sound
  <2>2. QED BY <1>1, <2>1 DEF MakesAll
<1> HIDE DEF kids
<1>5. Len(c) = Len(Kids(act)) /\ DOMAIN c = DOMAIN Kids(act)
      /\ \A i \in DOMAIN c : Tells(c[i], said[Kids(act)[i]])
  BY <1>1, <1>4, Picked DEF PicksTold
<1>6. OwnText(act, v, v[act.kids[1]].text) BY <1>2 DEF OwnText
<1> HIDE DEF c
<1>7. QED BY <1>3, <1>5, <1>6, Made DEF Sound

\* All but the last.
LEMMA FrontOf ==
    ASSUME NEW S, NEW kids \in Seq(S), kids # <<>>
    PROVE  /\ Len(Front(kids)) = Len(kids) - 1 /\ Front(kids) \in Seq(S)
           /\ DOMAIN Front(kids) = 1..(Len(kids) - 1)
           /\ \A i \in 1..(Len(kids) - 1) : Front(kids)[i] = kids[i]
<1>1. Len(kids) \in Nat /\ Len(kids) # 0 BY EmptySeq
<1>2. Len(kids) - 1 \in 0..Len(kids) BY <1>1
<1> DEFINE m == Len(kids) - 1
<1>3. m \in Nat /\ m <= Len(kids) /\ Front(kids) = SubSeq(kids, 1, m) BY <1>1 DEF Front
<1> HIDE DEF m
<1>4. SubSeq(kids, 1, m) \in Seq(S) /\ Len(SubSeq(kids, 1, m)) = m /\ DOMAIN SubSeq(kids, 1, m) = 1..m
      /\ \A i \in 1..m : SubSeq(kids, 1, m)[i] = kids[i]
  BY <1>3
<1>5. QED BY <1>3, <1>4 DEF m

\* one whose last child gets a block around it,
LEMMA WrappedTells ==
    ASSUME NEW rhs, NEW act, Sound(rhs, act), MakesAll(rhs, act), act.how = "wrapped", act.kids # <<>>,
           act.text = NoText, NEW v, NEW said, Standing(rhs, v, said)
    PROVE  Tells(Value(act, v), FlattenSeq(said))
<1> DEFINE kids == act.kids
           firsts == Front(kids)
           front == Pick(v, firsts)
           last == Node("block", NoText, <<v[Last(kids)]>>)
           c == Append(front, last)
           n == Len(kids)
<1>1. Kids(act) = kids BY Zenon DEF Kids
<1>2. FixedText(act) BY DEF FixedText
<1>3. Value(act, v) = Node(act.kind, NoText, c) BY ValueCases
<1>4. kids \in Seq(1..Len(rhs)) /\ \A i \in DOMAIN kids : rhs[kids[i]] \notin Tokens
  BY <1>1 DEF Sound, MakesAll
<1>5. n \in Nat /\ n # 0 /\ DOMAIN kids = 1..n BY <1>4, EmptySeq
<1>6. Last(kids) = kids[n] BY DEF Last
<1>7. /\ Len(firsts) = n - 1 /\ firsts \in Seq(1..Len(rhs)) /\ DOMAIN firsts = 1..(n - 1)
      /\ \A i \in 1..(n - 1) : firsts[i] = kids[i]
  BY <1>4, FrontOf
<1>8. \A i \in DOMAIN kids : Tells(v[kids[i]], said[kids[i]])
  BY <1>4, Picked DEF PicksTold
<1>9. \A i \in DOMAIN firsts : rhs[firsts[i]] \notin Tokens
  <2> HIDE DEF firsts, n
  <2>1. TAKE i \in DOMAIN firsts
  <2>2. i \in 1..n /\ firsts[i] = kids[i] BY <1>5, <1>7
  <2>3. QED BY <1>4, <1>5, <2>2
<1>10. /\ Len(front) = n - 1 /\ DOMAIN front = 1..(n - 1) /\ front \in Seq(Range(front))
       /\ \A i \in 1..(n - 1) : front[i] = v[kids[i]]
  <2>1. /\ Len(front) = Len(firsts) /\ DOMAIN front = DOMAIN firsts
        /\ front \in Seq(Range(front))
        /\ \A i \in DOMAIN firsts : front[i] = v[firsts[i]]
    <3> HIDE DEF firsts
    <3>1. firsts \in Seq(1..Len(rhs)) BY <1>7
    <3>2. PicksTold(v, said, firsts) BY <1>9, <3>1, Picked
    <3>3. QED BY <3>2, Zenon DEF PicksTold
  <2>2. QED BY <1>7, <2>1
<1>11. Tells(last, said[kids[n]])
  <2>1. Tells(v[kids[n]], said[kids[n]]) BY <1>5, <1>8
  <2>2. "block" \in Range(ListOf) BY ListKinds
  <2>3. QED BY <1>6, <2>1, <2>2, ListOfOne
<1> HIDE DEF last
<1>12. /\ Len(c) = n /\ DOMAIN c = 1..n /\ c[n] = last
       /\ \A i \in 1..(n - 1) : c[i] = front[i]
  <2> HIDE DEF front, n
  <2>1. /\ Len(c) = Len(front) + 1 /\ DOMAIN c = 1..(Len(front) + 1) /\ c[Len(front) + 1] = last
        /\ \A i \in 1..Len(front) : c[i] = front[i]
    BY <1>10
  <2>2. Len(front) + 1 = n BY <1>5, <1>10
  <2>3. QED BY <1>10, <2>1, <2>2
<1> HIDE DEF c, front
<1>13. \A i \in DOMAIN c : Tells(c[i], said[kids[i]])
  <2>1. TAKE i \in DOMAIN c
  <2>2. CASE i = n BY <1>11, <1>12, <2>2
  <2>3. CASE i # n
    <3>1. i \in 1..(n - 1) BY <1>5, <1>12, <2>3
    <3>2. c[i] = v[kids[i]] BY <1>10, <1>12, <3>1
    <3>3. QED BY <1>5, <1>8, <1>12, <3>2
  <2>4. QED BY <2>2, <2>3
<1>14. OwnText(act, v, NoText) BY <1>2 DEF OwnText
<1>15. /\ Len(c) = Len(Kids(act)) /\ DOMAIN c = DOMAIN Kids(act)
       /\ \A i \in DOMAIN c : Tells(c[i], said[Kids(act)[i]])
  BY <1>1, <1>5, <1>12, <1>13
<1>16. Len(rhs) \in Nat BY DEF Sound
<1>17. Tells(Node(act.kind, NoText, c), FlattenSeq(said)) BY <1>14, <1>15, <1>16, Made
<1>18. QED BY <1>3, <1>17

\* The fields of an action.
LEMMA ActFields ==
    ASSUME NEW how, NEW kind, NEW text, NEW kids
    PROVE  /\ Act(how, kind, text, kids).how = how /\ Act(how, kind, text, kids).kind = kind
           /\ Act(how, kind, text, kids).kids = kids
BY DEF Act

\* and the type a name stands for, but for names that are not registered.
LEMMA TypeTells ==
    ASSUME NEW rhs, NEW act, Sound(rhs, act), MakesAll(rhs, act), act = TypeNamed,
           NEW v, NEW said, Standing(rhs, v, said)
    PROVE  Tells(Value(act, v), FlattenSeq(said))
<1>1. act.how = "type" /\ act.kind = "type" /\ act.kids = <<1>>
  <2>1. \E t : act = Act("type", "type", t, <<1>>) BY Zenon DEF TypeNamed
  <2>2. PICK t : act = Act("type", "type", t, <<1>>) BY <2>1
  <2>3. QED BY <2>2, ActFields
<1>2. Kids(act) = <<>>
  <2>1. Kids(act) = Tail(act.kids) BY <1>1, Zenon DEF Kids
  <2>2. Tail(<<1>>) = <<>> OBVIOUS
  <2>3. QED BY <1>1, <2>1, <2>2
<1>3. ~ FixedText(act) BY <1>1, Zenon DEF FixedText
<1> DEFINE text == IF v[1].text \in KnownTypes THEN v[1].text ELSE "unregistered"
<1>4. Value(act, v) = Node(act.kind, text, <<>>)
  <2>1. Value(act, v) = get_type(v[1].text) BY <1>1, ValueCases
  <2>2. get_type(v[1].text) = Node("type", text, <<>>) BY Zenon DEF get_type
  <2>3. QED BY <1>1, <2>1, <2>2, Zenon
<1>5. OwnText(act, v, text)
  <2>1. act.kids[1] = 1 BY <1>1
  <2>2. text \in {v[1].text, "unregistered"} OBVIOUS
  <2>3. QED BY <1>3, <2>1, <2>2 DEF OwnText
<1> HIDE DEF text
<1>6. Len(<<>>) = Len(Kids(act)) /\ DOMAIN <<>> = DOMAIN Kids(act)
      /\ \A i \in DOMAIN <<>> : Tells(<<>>[i], said[Kids(act)[i]])
  BY <1>2
<1>7. QED BY <1>4, <1>5, <1>6, Made DEF Sound

\* The action of a rule.
ActOf(rule) == Productions[rule].act

\* The children a rule's action names are in its right side.
LEMMA RuleSound ==
    ASSUME NEW rule \in Rules \ {1}
    PROVE  Sound(Rhs(rule), ActOf(rule)) /\ Lhs(rule) \notin Tokens
<1>1. rule \in Rules BY Zenon
<1>2. Len(Rhs(rule)) \in Nat
  <2>1. Rhs(rule) \in Seq(Symbols) BY <1>1, TablesFollowItems
  <2> HIDE DEF Rhs, Symbols
  <2>2. QED BY <2>1
<1>3. ActOf(rule).kids \in Seq(1..Len(Rhs(rule))) /\ Lhs(rule) \notin Tokens
  BY RulesLeaveNothingOut, Zenon DEF ActOf
<1>4. QED BY <1>2, <1>3, Zenon DEF Sound

\* How a rule makes its value.
LEMMA RuleHow ==
    ASSUME NEW rule \in Rules \ {1}
    PROVE  /\ ActOf(rule).how \in {"pass", "new", "named", "push", "wrapped", "type"}
           /\ ActOf(rule).how # "new" => ActOf(rule).kids # <<>>
           /\ ActOf(rule).how = "wrapped" => ActOf(rule).text = NoText
           /\ ActOf(rule).how = "type" => ActOf(rule) = TypeNamed
           /\ CollectsList(rule) /\ NamesOperator(rule)
BY RulesLeaveNothingOut, Zenon DEF ActOf, NoText

\* What a rule leaves out is punctuation.
LEMMA RuleKeeps ==
    ASSUME NEW rule \in Rules \ {1}
    PROVE  LET act == ActOf(rule)
               rhs == Rhs(rule)
           IN /\ act.how = "pass" => /\ act.kids[1] \in 1..Len(rhs) /\ rhs[act.kids[1]] \notin Tokens
                                     /\ OnlyAt(rhs, {act.kids[1]})
              /\ act.how = "push" => /\ act.kids[1] \in 2..Len(rhs) /\ rhs[act.kids[1]] \notin Tokens
                                     /\ OnlyAt(rhs, {1, act.kids[1]})
                                     /\ rhs[1] = Lhs(rule) /\ Lhs(rule) \in DOMAIN ListOf
              /\ act.how \notin {"pass", "push"} => MakesAll(rhs, act)
<1> DEFINE act == ActOf(rule)
           rhs == Rhs(rule)
<1>1. LeavesNothingOut(rule) BY RulesLeaveNothingOut, Zenon
<1>2. act = Productions[rule].act BY DEF ActOf
<1>3. act.how = "pass" => /\ act.kids[1] \in 1..Len(rhs) /\ rhs[act.kids[1]] \notin Tokens
                          /\ OnlyAt(rhs, {act.kids[1]})
  BY <1>1, <1>2, Zenon DEF LeavesNothingOut
<1>4. act.how = "push" => /\ act.kids[1] \in 2..Len(rhs) /\ rhs[act.kids[1]] \notin Tokens
                          /\ OnlyAt(rhs, {1, act.kids[1]})
                          /\ rhs[1] = Lhs(rule) /\ Lhs(rule) \in DOMAIN ListOf
  BY <1>1, <1>2, Zenon DEF LeavesNothingOut
<1>5. act.how \notin {"pass", "push"} => MakesAll(rhs, act)
  BY <1>1, <1>2, Zenon DEF LeavesNothingOut
<1>6. QED BY <1>3, <1>4, <1>5, Zenon

\* A list stands on the stack for a symbol that collects.
LEMMA StandsList ==
    ASSUME NEW symbol \in DOMAIN ListOf, NEW v, NEW s, Stands(symbol, v, s)
    PROVE  IsList(v, ListOf[symbol]) /\ Tells(v, s)
<1>1. symbol \notin Tokens BY SymbolsSpell
<1>2. QED BY <1>1 DEF Stands

\* What the action of a rule makes tells the words of its right side.
LEMMA RuleTells ==
    ASSUME NEW rule \in Rules \ {1}, NEW v, NEW said, Standing(Rhs(rule), v, said)
    PROVE  Tells(Value(ActOf(rule), v), FlattenSeq(said))
<1> DEFINE act == ActOf(rule)
           rhs == Rhs(rule)
           k == act.kids[1]
<1>1. Sound(rhs, act) BY RuleSound
<1>2. said \in Seq(Text) /\ Len(said) = Len(rhs) BY DEF Standing
<1>3. CASE act.how = "pass"
  <2>1. k \in 1..Len(rhs) /\ rhs[k] \notin Tokens /\ OnlyAt(rhs, {k}) BY <1>3, RuleKeeps
  <2>2. Tells(v[k], said[k]) /\ Empty(said, {k}) BY <2>1, StandsTells, PunctuationEmpty
  <2>3. Value(act, v) = v[k] BY <1>3, ValueCases
  <2> HIDE DEF act, rhs, k
  <2>4. Tells(v[k], FlattenSeq(said)) BY <1>2, <2>1, <2>2, PassTells
  <2>5. QED BY <2>3, <2>4 DEF act
<1>4. CASE act.how = "push"
  <2>1. /\ k \in 2..Len(rhs) /\ rhs[k] \notin Tokens /\ OnlyAt(rhs, {1, k})
        /\ rhs[1] = Lhs(rule) /\ Lhs(rule) \in DOMAIN ListOf
    BY <1>4, RuleKeeps
  <2>2. Value(act, v) = Longer(v[1], v[k]) BY <1>4, ValueCases
  <2> DEFINE kind == ListOf[Lhs(rule)]
  <2>3. k \in 1..Len(rhs) /\ 1 \in 1..Len(rhs) BY <1>1, <2>1 DEF Sound
  <2>4. IsList(v[1], kind) /\ Tells(v[1], said[1])
    <3>1. Stands(rhs[1], v[1], said[1]) BY <2>3 DEF Standing
    <3>2. QED BY <2>1, <3>1, StandsList
  <2>5. Tells(v[k], said[k]) /\ Empty(said, {1, k})
    BY <2>1, <2>3, StandsTells, PunctuationEmpty
  <2>6. kind \in Range(ListOf) BY <2>1, ListKinds
  <2> HIDE DEF act, rhs, k, kind
  <2>7. Tells(Longer(v[1], v[k]), FlattenSeq(said)) BY <1>2, <2>1, <2>4, <2>5, <2>6, PushTells
  <2>8. QED BY <2>2, <2>7 DEF act
<1>5. CASE act.how \notin {"pass", "push"}
  <2>1. MakesAll(rhs, act) BY <1>5, RuleKeeps
  <2>2. act.how \in {"new", "named", "wrapped", "type"} BY <1>5, RuleHow, Zenon
  <2>3. /\ act.how # "new" => act.kids # <<>>
        /\ act.how = "wrapped" => act.text = NoText
        /\ act.how = "type" => act = TypeNamed
    BY RuleHow, Zenon
  <2> HIDE DEF act, rhs
  <2>4. Standing(rhs, v, said) BY DEF rhs
  <2>5. CASE act.how = "new" BY <1>1, <2>1, <2>4, <2>5, NewTells DEF act
  <2>6. CASE act.how = "named"
    <3>1. act.kids # <<>> BY <2>3, <2>6
    <3>2. QED BY <1>1, <2>1, <2>4, <2>6, <3>1, NamedTells DEF act
  <2>7. CASE act.how = "wrapped"
    <3>1. act.kids # <<>> /\ act.text = NoText BY <2>3, <2>7
    <3>2. QED BY <1>1, <2>1, <2>4, <2>7, <3>1, WrappedTells DEF act
  <2>8. CASE act.how = "type"
    <3>1. act = TypeNamed BY <2>3, <2>8
    <3>2. QED BY <1>1, <2>1, <2>4, <3>1, TypeTells DEF act
  <2>9. QED BY <2>2, <2>5, <2>6, <2>7, <2>8
<1>6. QED BY <1>3, <1>4, <1>5, Zenon

\* What a rule collects is a list.
LEMMA RuleLists ==
    ASSUME NEW rule \in Rules \ {1}, NEW v, NEW said, Standing(Rhs(rule), v, said),
           Lhs(rule) \in DOMAIN ListOf
    PROVE  IsList(Value(ActOf(rule), v), ListOf[Lhs(rule)])
<1> DEFINE act == ActOf(rule)
           rhs == Rhs(rule)
           k == act.kids[1]
           kind == ListOf[Lhs(rule)]
<1>1. \/ act.how = "push"
      \/ act.how = "pass" /\ k = 1 /\ rhs[1] = Lhs(rule)
      \/ act.how = "new" /\ act.kind = kind
  <2>1. CollectsList(rule) BY RuleHow
  <2>2. QED BY <2>1, Zenon DEF CollectsList, ActOf
<1>2. Sound(rhs, act) BY RuleSound
<1>3. CASE act.how = "push"
  <2>1. /\ k \in 2..Len(rhs) /\ rhs[k] \notin Tokens /\ rhs[1] = Lhs(rule)
    BY <1>3, RuleKeeps
  <2>2. Value(act, v) = Longer(v[1], v[k]) BY <1>3, ValueCases
  <2>3. k \in 1..Len(rhs) /\ 1 \in 1..Len(rhs) BY <1>2, <2>1 DEF Sound
  <2>4. IsList(v[1], kind)
    <3>1. Stands(rhs[1], v[1], said[1]) BY <2>3 DEF Standing
    <3>2. QED BY <2>1, <3>1, StandsList
  <2>5. Tells(v[k], said[k]) BY <2>1, <2>3, StandsTells
  <2> HIDE DEF act, rhs, k, kind
  <2>6. Legible(v[k]) BY <2>5, TellsLegible
  <2>7. QED BY <2>2, <2>4, <2>6, PushLists DEF act, kind
<1>4. CASE act.how = "pass" /\ k = 1 /\ rhs[1] = Lhs(rule)
  <2>1. k \in 1..Len(rhs) BY <1>4, RuleKeeps
  <2>2. Value(act, v) = v[k] BY <1>4, ValueCases
  <2>3. Stands(rhs[1], v[1], said[1]) BY <1>4, <2>1 DEF Standing
  <2>4. IsList(v[1], kind) BY <1>4, <2>3, StandsList
  <2>5. QED BY <1>4, <2>2, <2>4
<1>5. CASE act.how = "new" /\ act.kind = kind
  <2>1. act.how \notin {"pass", "push"} BY <1>5
  <2>2. MakesAll(rhs, act) BY <2>1, RuleKeeps
  <2>3. Kids(act) = act.kids BY <1>5, Zenon DEF Kids
  <2> DEFINE c == Pick(v, act.kids)
  <2>4. act.kids \in Seq(1..Len(rhs)) /\ \A i \in DOMAIN act.kids : rhs[act.kids[i]] \notin Tokens
    BY <1>2, <2>2, <2>3 DEF Sound, MakesAll
  <2>5. PicksTold(v, said, act.kids) BY <2>4, Picked
  <2>6. c \in Seq(Range(c)) /\ \A i \in DOMAIN c : Legible(c[i])
    BY <2>5, TellsLegible DEF PicksTold
  <2>7. Value(act, v) = Node(kind, act.text, c) BY <1>5, ValueCases
  <2> HIDE DEF c, act, kind
  <2>8. QED BY <2>6, <2>7 DEF IsList, act, kind
<1>6. QED BY <1>1, <1>3, <1>4, <1>5

\* An operator without a precedence has the word of its token.
LEMMA RuleNames ==
    ASSUME NEW rule \in Rules \ {1}, NEW v, NEW said, Standing(Rhs(rule), v, said), Lhs(rule) = "op"
    PROVE  LET node == Value(ActOf(rule), v)
           IN node.text \in STRING /\ FlattenSeq(said) = <<node.text>>
<1> DEFINE act == ActOf(rule)
           rhs == Rhs(rule)
<1>1. /\ act.how = "new" /\ Len(rhs) = 1
      /\ rhs[1] \in DOMAIN Meaning /\ Meaning[rhs[1]] = act.text
  <2>1. NamesOperator(rule) BY RuleHow
  <2>2. QED BY <2>1, Zenon DEF NamesOperator, ActOf
<1>2. Value(act, v) = Node(act.kind, act.text, Pick(v, act.kids)) BY <1>1, ValueCases
<1>3. Value(act, v).text = act.text BY <1>2 DEF Node
<1>4. said \in Seq(Text) /\ Len(said) = 1 /\ Stands(rhs[1], v[1], said[1])
  BY <1>1 DEF Standing
<1>5. /\ rhs[1] \in Tokens /\ Meaning[rhs[1]] \in STRING
      /\ Says(rhs[1], v[1].text) = <<Meaning[rhs[1]]>>
  BY <1>1, WordOfToken, Zenon
<1>6. said[1] = <<act.text>> /\ act.text \in STRING BY <1>1, <1>4, <1>5, Zenon DEF Stands
<1>7. said = <<said[1]>> /\ said[1] \in Seq(STRING)
  <2>1. said[1] \in Text BY <1>4 DEF Stands
  <2>2. said = [i \in 1..1 |-> said[i]] BY <1>4
  <2>3. QED BY <2>1, <2>2 DEF Text
<1>8. FlattenSeq(<<said[1]>>) = said[1] BY <1>7, FlattenFew
<1>9. QED BY <1>3, <1>6, <1>7, <1>8, Zenon

\* Appending to any sequence.
LEMMA Longest ==
    ASSUME NEW s, s \in Seq(Range(s)), NEW x
    PROVE  /\ Len(s) \in Nat /\ Len(Append(s, x)) = Len(s) + 1 /\ Append(s, x)[Len(s) + 1] = x
           /\ \A i \in 1..Len(s) : Append(s, x)[i] = s[i]
<1> DEFINE S == Range(s) \cup {x}
<1>1. s \in Seq(S) /\ x \in S
  BY SeqMonotonic, Range(s) \subseteq S
<1> HIDE DEF S
<1>2. MoreByOne(S, s, x) BY <1>1, OneMore
<1>3. Len(s) \in Nat BY <1>1
<1>4. QED BY <1>2, <1>3 DEF MoreByOne

\* What an action names a node by has a text; kinds and fixed texts are words.
LEMMA RuleTexts ==
    ASSUME NEW rule \in Rules \ {1}
    PROVE  /\ ActOf(rule).kind \in STRING /\ ActOf(rule).text \in STRING
           /\ ActOf(rule).how \in {"named", "type"} => Worded(Rhs(rule)[ActOf(rule).kids[1]])
BY RulesLeaveNothingOut, Zenon DEF ActOf

\* A symbol with a word of its own has a value with a text.
LEMMA WordedText ==
    ASSUME NEW sym, Worded(sym), NEW v, NEW s, Stands(sym, v, s)
    PROVE  v.text \in STRING
BY DEF Worded, Stands

\* The children an action picks are spelled at some depth.
LEMMA PicksFinite ==
    ASSUME NEW rhs, NEW v, NEW said, Standing(rhs, v, said),
           NEW kids \in Seq(1..Len(rhs)), \A i \in DOMAIN kids : rhs[kids[i]] \notin Tokens
    PROVE  /\ Pick(v, kids) \in Seq(Range(Pick(v, kids)))
           /\ DOMAIN Pick(v, kids) = DOMAIN kids
           /\ \A i \in DOMAIN Pick(v, kids) : Finite(Pick(v, kids)[i])
<1> DEFINE c == Pick(v, kids)
<1>1. PicksTold(v, said, kids) BY Picked
<1>2. /\ c \in Seq(Range(c)) /\ DOMAIN c = DOMAIN kids
      /\ \A i \in DOMAIN kids : c[i] = v[kids[i]]
  BY <1>1 DEF PicksTold
<1> HIDE DEF c
<1>3. ASSUME NEW i \in DOMAIN kids PROVE Finite(c[i])
  <2>1. kids[i] \in 1..Len(rhs) /\ rhs[kids[i]] \notin Tokens OBVIOUS
  <2>2. Stands(rhs[kids[i]], v[kids[i]], said[kids[i]]) BY <2>1 DEF Standing
  <2>3. Finite(v[kids[i]]) BY <2>1, <2>2 DEF Stands
  <2>4. QED BY <1>2, <2>3
<1>4. QED BY <1>2, <1>3 DEF c

\* A list with one item more is spelled at some depth, if both are.
LEMMA LongerFinite ==
    ASSUME NEW v, NEW kind, IsList(v, kind), Finite(v), NEW u, Finite(u)
    PROVE  Finite(Longer(v, u))
<1> PICK text, c : c \in Seq(Range(c)) /\ v = Node(kind, text, c) BY DEF IsList
<1> DEFINE e == Append(c, u)
<1>1. kind \in STRING /\ text \in STRING /\ \A i \in DOMAIN c : Finite(c[i])
  BY ChildrenFinite
<1>2. e \in Seq(Range(e)) /\ Len(e) = Len(c) + 1 /\ Len(c) \in Nat BY AppendedSequence
<1>3. Longer(v, u) = Node(kind, text, e) BY LongerNode
<1>4. (\A i \in 1..Len(c) : e[i] = c[i]) /\ e[Len(c) + 1] = u /\ DOMAIN c = 1..Len(c)
  OBVIOUS
<1> HIDE DEF e
<1>5. DOMAIN e = 1..Len(e) BY <1>2
<1>6. \A i \in DOMAIN e : Finite(e[i]) BY <1>1, <1>2, <1>4, <1>5
<1>7. QED BY <1>1, <1>2, <1>3, <1>6, NodeFinite

\* So is a node with a block around its last child,
LEMMA WrappedFinite ==
    ASSUME NEW rhs, NEW act, Sound(rhs, act), MakesAll(rhs, act), act.how = "wrapped",
           act.kids # <<>>, act.kind \in STRING, act.text \in STRING, act.text = NoText,
           NEW v, NEW said, Standing(rhs, v, said)
    PROVE  Finite(Value(act, v))
<1> DEFINE kids == act.kids
           firsts == Front(kids)
           front == Pick(v, firsts)
           only == <<v[Last(kids)]>>
           last == Node("block", NoText, only)
           c == Append(front, last)
           n == Len(kids)
<1>1. Kids(act) = kids BY Zenon DEF Kids
<1>2. Value(act, v) = Node(act.kind, NoText, c) BY ValueCases
<1>3. kids \in Seq(1..Len(rhs)) /\ \A i \in DOMAIN kids : rhs[kids[i]] \notin Tokens
  BY <1>1 DEF Sound, MakesAll
<1>4. n \in Nat /\ n # 0 /\ DOMAIN kids = 1..n BY <1>3, EmptySeq
<1>5. /\ firsts \in Seq(1..Len(rhs)) /\ DOMAIN firsts = 1..(n - 1)
      /\ \A i \in 1..(n - 1) : firsts[i] = kids[i]
  BY <1>3, FrontOf
<1>6. \A i \in DOMAIN firsts : rhs[firsts[i]] \notin Tokens
  <2> HIDE DEF firsts, n
  <2>1. TAKE i \in DOMAIN firsts
  <2>2. i \in 1..n /\ firsts[i] = kids[i] BY <1>4, <1>5
  <2>3. QED BY <1>3, <1>4, <2>2
<1>7. front \in Seq(Range(front)) /\ \A i \in DOMAIN front : Finite(front[i])
  <2> HIDE DEF firsts
  <2>1. firsts \in Seq(1..Len(rhs)) BY <1>5
  <2>2. QED BY <1>6, <2>1, PicksFinite
<1>8. Finite(v[Last(kids)])
  <2>1. Last(kids) = kids[n] /\ n \in DOMAIN kids BY <1>4 DEF Last
  <2>2. n \in DOMAIN Pick(v, kids) /\ Pick(v, kids)[n] = v[kids[n]] BY <2>1 DEF Pick
  <2>3. \A i \in DOMAIN Pick(v, kids) : Finite(Pick(v, kids)[i]) BY <1>3, PicksFinite
  <2>4. Finite(Pick(v, kids)[n]) BY <2>2, <2>3, Zenon
  <2>5. QED BY <2>1, <2>2, <2>4, Zenon
<1>9. NoText \in STRING OBVIOUS
<1>10. Finite(last)
  <2> DEFINE x == v[Last(kids)]
  <2> HIDE DEF x
  <2>1. <<x>> \in Seq(Range(<<x>>)) /\ \A i \in DOMAIN <<x>> : <<x>>[i] = x BY DEF Range
  <2>2. Finite(x) BY <1>8 DEF x
  <2>3. \A i \in DOMAIN <<x>> : Finite(<<x>>[i]) BY <2>1, <2>2
  <2>4. Finite(Node("block", NoText, <<x>>))
    <3> DEFINE block == "block"
               c1 == <<x>>
    <3>1. block \in STRING BY OwnWords
    <3>2. c1 \in Seq(Range(c1)) /\ \A i \in DOMAIN c1 : Finite(c1[i]) BY <2>1, <2>3
    <3> HIDE DEF block, c1
    <3>3. Finite(Node(block, NoText, c1)) BY <1>9, <3>1, <3>2, NodeFinite
    <3>4. QED BY <3>3 DEF block, c1
  <2>5. QED BY <2>4 DEF x
<1> HIDE DEF last, front
<1>11. /\ Len(c) = Len(front) + 1 /\ c[Len(front) + 1] = last
       /\ \A i \in 1..Len(front) : c[i] = front[i]
  BY <1>7, Longest
<1>12. c \in Seq(Range(c)) /\ Len(front) \in Nat BY <1>7, AppendedSequence
<1> HIDE DEF c
<1>13. DOMAIN c = 1..Len(c) /\ DOMAIN front = 1..Len(front) BY <1>7, <1>12
<1>14. \A i \in DOMAIN c : Finite(c[i]) BY <1>7, <1>10, <1>11, <1>12, <1>13
<1>15. Finite(Node(act.kind, NoText, c)) BY <1>9, <1>12, <1>14, NodeFinite
<1>16. QED BY <1>2, <1>15, Zenon

\* and so is what any action makes, if the values of the right side are.
LEMMA RuleFinite ==
    ASSUME NEW rule \in Rules \ {1}, NEW v, NEW said, Standing(Rhs(rule), v, said)
    PROVE  Finite(Value(ActOf(rule), v))
<1> DEFINE act == ActOf(rule)
           rhs == Rhs(rule)
           k == act.kids[1]
<1>1. Sound(rhs, act) BY RuleSound
<1>2. act.kind \in STRING /\ act.text \in STRING BY RuleTexts
<1>3. /\ act.how \in {"pass", "new", "named", "push", "wrapped", "type"}
      /\ act.how # "new" => act.kids # <<>>
      /\ act.how = "type" => act = TypeNamed
      /\ act.how = "wrapped" => act.text = NoText
  BY RuleHow, Zenon
<1>4. act.how \in {"named", "type"} => Worded(rhs[k]) BY RuleTexts
<1>5. act.kids # <<>> => k \in 1..Len(rhs)
  <2> DEFINE kids == act.kids
  <2>1. kids \in Seq(1..Len(rhs)) BY <1>1 DEF Sound
  <2> HIDE DEF kids
  <2>2. kids # <<>> => kids[1] \in 1..Len(rhs) BY <2>1
  <2>3. QED BY <2>2 DEF kids
<1>6. \A p \in 1..Len(rhs) : Stands(rhs[p], v[p], said[p]) BY DEF Standing
<1>7. \A p \in 1..Len(rhs) : rhs[p] \notin Tokens => Finite(v[p]) BY <1>6 DEF Stands
<1>8. CASE act.how = "pass"
  <2>1. k \in 1..Len(rhs) /\ rhs[k] \notin Tokens BY <1>8, RuleKeeps
  <2>2. Value(act, v) = v[k] BY <1>8, ValueCases
  <2>3. QED BY <1>7, <2>1, <2>2
<1>9. CASE act.how = "push"
  <2>1. /\ k \in 2..Len(rhs) /\ rhs[k] \notin Tokens
        /\ rhs[1] = Lhs(rule) /\ Lhs(rule) \in DOMAIN ListOf
    BY <1>9, RuleKeeps
  <2>2. Value(act, v) = Longer(v[1], v[k]) BY <1>9, ValueCases
  <2>3. k \in 1..Len(rhs) /\ 1 \in 1..Len(rhs) BY <1>1, <2>1 DEF Sound
  <2>4. Stands(rhs[1], v[1], said[1]) BY <1>6, <2>3
  <2>5. IsList(v[1], ListOf[Lhs(rule)]) BY <2>1, <2>4, StandsList
  <2>6. rhs[1] \notin Tokens BY <2>1, RuleSound
  <2>7. Finite(v[1]) /\ Finite(v[k]) BY <1>7, <2>1, <2>3, <2>6
  <2>8. Finite(Longer(v[1], v[k])) BY <2>5, <2>7, LongerFinite
  <2>9. QED BY <2>2, <2>8
<1>10. ASSUME act.how \in {"new", "named"} PROVE Finite(Value(act, v))
  <2> DEFINE kids == Kids(act)
             c == Pick(v, kids)
             text == IF act.how = "new" THEN act.text ELSE v[k].text
  <2>1. MakesAll(rhs, act)
    <3>1. act.how \notin {"pass", "push"} BY <1>10
    <3>2. QED BY <3>1, RuleKeeps
  <2>2. kids = IF act.how = "named" THEN Tail(act.kids) ELSE act.kids BY <1>10, Zenon DEF Kids
  <2>3. kids \in Seq(1..Len(rhs))
    <3>1. act.kids \in Seq(1..Len(rhs)) BY <1>1 DEF Sound
    <3>2. act.kids # <<>> => Tail(act.kids) \in Seq(1..Len(rhs)) BY <3>1, HeadTailProperties
    <3>3. act.how = "named" => act.kids # <<>> BY <1>3
    <3>4. QED BY <2>2, <3>1, <3>2, <3>3, Zenon
  <2>4. \A i \in DOMAIN kids : rhs[kids[i]] \notin Tokens BY <2>1 DEF MakesAll
  <2> HIDE DEF kids
  <2>5. c \in Seq(Range(c)) /\ \A i \in DOMAIN c : Finite(c[i]) BY <2>3, <2>4, PicksFinite
  <2>6. text \in STRING
    <3>1. act.how = "named" => v[k].text \in STRING
      <4>1. SUFFICES ASSUME act.how = "named" PROVE v[k].text \in STRING OBVIOUS
      <4>2. act.kids # <<>> /\ Worded(rhs[k]) BY <1>3, <1>4, <4>1, Zenon
      <4>3. Stands(rhs[k], v[k], said[k]) BY <1>5, <1>6, <4>2
      <4>4. QED BY <4>2, <4>3, WordedText
    <3>2. QED BY <1>2, <1>10, <3>1
  <2>7. Value(act, v) = Node(act.kind, text, c)
    <3>1. act.how = "new" => Value(act, v) = Node(act.kind, act.text, Pick(v, act.kids))
      BY ValueCases
    <3>2. act.how = "named" => Value(act, v) = Node(act.kind, v[k].text, Pick(v, Tail(act.kids)))
      BY ValueCases
    <3>3. CASE act.how = "new"
      <4>1. text = act.text /\ kids = act.kids BY <2>2, <3>3
      <4>2. QED BY <3>1, <3>3, <4>1, Zenon
    <3>4. CASE act.how = "named"
      <4>1. text = v[k].text /\ kids = Tail(act.kids) BY <2>2, <3>4
      <4>2. QED BY <3>2, <3>4, <4>1, Zenon
    <3>5. QED BY <1>10, <3>3, <3>4
  <2> HIDE DEF text, c
  <2>8. Finite(Node(act.kind, text, c)) BY <1>2, <2>5, <2>6, NodeFinite
  <2>9. QED BY <2>7, <2>8, Zenon
<1>11. CASE act.how = "wrapped"
  <2>1. act.how \notin {"pass", "push"} BY <1>11
  <2>2. MakesAll(rhs, act) BY <2>1, RuleKeeps
  <2>3. act.kids # <<>> /\ act.text = NoText BY <1>3, <1>11
  <2>4. Standing(rhs, v, said) OBVIOUS
  <2> HIDE DEF act, rhs
  <2>5. QED BY <1>1, <1>2, <1>11, <2>2, <2>3, <2>4, WrappedFinite DEF act
<1>12. CASE act.how = "type"
  <2> DEFINE text == IF v[1].text \in KnownTypes THEN v[1].text ELSE "unregistered"
  <2>1. act.kids = <<1>>
    <3>1. act = TypeNamed BY <1>3, <1>12
    <3>2. \E t : act = Act("type", "type", t, <<1>>) BY <3>1, Zenon DEF TypeNamed
    <3>3. QED BY <3>2, ActFields
  <2>2. k = 1 /\ act.kids # <<>> BY <2>1
  <2>3. v[1].text \in STRING
    <3>1. Worded(rhs[1]) BY <1>4, <1>12, <2>2
    <3>2. Stands(rhs[1], v[1], said[1]) BY <1>5, <1>6, <2>2
    <3>3. QED BY <3>1, <3>2, WordedText
  <2>4. Value(act, v) = Node("type", text, <<>>)
    <3>1. Value(act, v) = get_type(v[1].text) BY <1>12, ValueCases
    <3>2. get_type(v[1].text) = Node("type", text, <<>>) BY Zenon DEF get_type
    <3>3. QED BY <3>1, <3>2, Zenon
  <2>5. text \in STRING
    <3> DEFINE name == v[1].text
               other == "unregistered"
    <3>1. other \in STRING BY OwnWords
    <3>2. name \in STRING BY <2>3
    <3>3. text = IF name \in KnownTypes THEN name ELSE other OBVIOUS
    <3> HIDE DEF name, other, text
    <3>4. QED BY <3>1, <3>2, <3>3
  <2>6. <<>> \in Seq(Range(<<>>)) /\ \A i \in DOMAIN <<>> : Finite(<<>>[i]) OBVIOUS
  <2> HIDE DEF text
  <2>7. Finite(Node("type", text, <<>>))
    <3> DEFINE type == "type"
               none == <<>>
    <3>1. type \in STRING BY OwnWords
    <3>2. none \in Seq(Range(none)) /\ \A i \in DOMAIN none : Finite(none[i]) BY <2>6
    <3> HIDE DEF type, none
    <3>3. Finite(Node(type, text, none)) BY <2>5, <3>1, <3>2, NodeFinite
    <3>4. QED BY <3>3 DEF type, none
  <2>8. QED BY <2>4, <2>7, Zenon
<1>13. QED BY <1>3, <1>8, <1>9, <1>10, <1>11, <1>12

\* A rule's value stands for its left side as the values it was made of stood for
\* the right side.
LEMMA RuleStands ==
    ASSUME NEW rule \in Rules \ {1}, NEW v, NEW said, Standing(Rhs(rule), v, said)
    PROVE  Stands(Lhs(rule), Value(ActOf(rule), v), FlattenSeq(said))
<1>1. FlattenSeq(said) \in Text BY FlattenText DEF Standing
<1>2. Lhs(rule) \notin Tokens BY RuleSound
<1>3. QED BY <1>1, <1>2, RuleTells, RuleFinite, RuleLists, RuleNames, Zenon DEF Stands

-----------------------------------------------------------------------------
(* The stack of values. *)

\* What a token that waits, or none, says.
Waiting == Says(yychar.sym, yychar.text)
Written(ts) == [i \in DOMAIN ts |-> Says(ts[i].sym, ts[i].text)]

\* The values stand for a text each, and the texts, with what waits, are what was read.
StandAll(form, v, said) ==
    /\ said \in Seq(Text) /\ Len(said) = Len(v)
    /\ \A i \in 1..Len(v) : Stands(form[i], v[i], said[i])
SaidBy(said) ==
    /\ StandAll(FormOf(yyss), yyvs, said)
    /\ FlattenSeq(said) \o Waiting = Bare(tokens)
SaysInv == ParserInv /\ \E said \in Seq(Text) : SaidBy(said)

\* A token says a text.
LEMMA SaysText ==
    ASSUME NEW sym, NEW text, text \in STRING \/ sym \in Silent
    PROVE  Says(sym, text) \in Text
<1>1. CASE sym \in Silent
  <2>1. Says(sym, text) = <<>> BY <1>1 DEF Says
  <2>2. QED BY <2>1 DEF Text
<1>2. CASE sym \notin Silent /\ sym \in DOMAIN Meaning
  <2>1. Says(sym, text) = <<Meaning[sym]>> /\ Meaning[sym] \in STRING
    BY <1>2, WordOfToken, Zenon
  <2>2. QED BY <2>1 DEF Text
<1>3. CASE sym \notin Silent /\ sym \notin DOMAIN Meaning
  <2>1. Says(sym, text) = <<text>> BY <1>3, Zenon DEF Says
  <2>2. QED BY <1>3, <2>1 DEF Text
<1>4. QED BY <1>1, <1>2, <1>3

\* The marks of no token and of the end of the input say nothing.
LEMMA NothingSaid ==
    /\ Says(YYEMPTY.sym, YYEMPTY.text) = <<>>
    /\ Says(YYEOF.sym, YYEOF.text) = <<>>
<1>1. YYEMPTY.sym \in Silent BY TokenFields, Zenon DEF YYEMPTY, Silent
<1>2. YYEOF.sym \in Silent BY TokenFields, Zenon DEF YYEOF, Silent
<1>3. \A sym, text : sym \in Silent => Says(sym, text) = <<>> BY Zenon DEF Says
<1>4. QED BY <1>1, <1>2, <1>3, Zenon

\* One more token is one more word, or none.
LEMMA BareAppend ==
    ASSUME NEW ts \in Seq(InputToken), NEW t \in InputToken
    PROVE  /\ Says(t.sym, t.text) \in Text
           /\ Bare(Append(ts, t)) = Bare(ts) \o Says(t.sym, t.text) /\ Bare(ts) \in Text
<1> DEFINE more == Append(ts, t)
           n == Len(ts)
           x == Says(t.sym, t.text)
<1>1. \A u \in InputToken : Says(u.sym, u.text) \in Text
  <2>1. \A u \in InputToken : u.text \in STRING BY DEF InputToken
  <2>2. QED BY <2>1, SaysText
<1>2. /\ n \in Nat /\ DOMAIN ts = 1..n /\ \A i \in 1..n : ts[i] \in InputToken
      /\ more \in Seq(InputToken) /\ Len(more) = n + 1 /\ DOMAIN more = 1..(n + 1) /\ more[n + 1] = t
      /\ \A i \in 1..n : more[i] = ts[i]
  <2> HIDE DEF n
  <2>1. QED BY DEF n
<1>3. Written(ts) \in Seq(Text) /\ Len(Written(ts)) = n /\ \A i \in 1..n : Written(ts)[i] = Says(ts[i].sym, ts[i].text)
  <2>1. Written(ts) \in [1..n -> Text] BY <1>1, <1>2 DEF Written
  <2>2. Written(ts) \in Seq(Text) /\ Len(Written(ts)) = n BY <1>2, <2>1, SequenceOf
  <2>3. QED BY <1>2, <2>2 DEF Written
<1> HIDE DEF more
<1>4. Written(more) \in Seq(Text) /\ Len(Written(more)) = n + 1
      /\ \A i \in 1..(n + 1) : Written(more)[i] = Says(more[i].sym, more[i].text)
  <2>1. \A i \in 1..(n + 1) : more[i] \in InputToken
    BY <1>2
  <2>2. Written(more) \in [1..(n + 1) -> Text] BY <1>1, <1>2, <2>1 DEF Written
  <2>3. n + 1 \in Nat BY <1>2
  <2>4. Written(more) \in Seq(Text) /\ Len(Written(more)) = n + 1 BY <2>2, <2>3, SequenceOf
  <2>5. QED BY <1>2, <2>4 DEF Written
<1>5. x \in Text BY <1>1
<1> DEFINE left == Written(more)
           right == Append(Written(ts), x)
<1>6. right \in Seq(Text) /\ Len(right) = n + 1 /\ right[n + 1] = x
      /\ \A i \in 1..n : right[i] = Written(ts)[i]
  <2> HIDE DEF x, n
  <2>1. MoreByOne(Text, Written(ts), x) BY <1>3, <1>5, OneMore
  <2>2. QED BY <1>3, <2>1 DEF MoreByOne
<1>7. \A i \in 1..(n + 1) : left[i] = right[i]
  <2>1. TAKE i \in 1..(n + 1)
  <2>2. CASE i = n + 1 BY <1>2, <1>4, <1>6, <2>2
  <2>3. CASE i # n + 1
    <3>1. i \in 1..n BY <1>2, <2>3
    <3>2. right[i] = Says(ts[i].sym, ts[i].text) BY <1>3, <1>6, <3>1
    <3>3. left[i] = Says(ts[i].sym, ts[i].text) BY <1>2, <1>4, <3>1
    <3>4. QED BY <3>2, <3>3
  <2>4. QED BY <2>2, <2>3
<1>8. left = right
  <2> HIDE DEF left, right
  <2>1. left \in Seq(Text) /\ Len(left) = n + 1 BY <1>4 DEF left
  <2>2. QED BY <1>6, <1>7, <2>1, SeqEqual
<1>9. Bare(ts) = FlattenSeq(Written(ts)) /\ Bare(more) = FlattenSeq(Written(more))
  BY DEF Bare, Written
<1> HIDE DEF x
<1>10. FlattenSeq(Append(Written(ts), x)) = FlattenSeq(Written(ts)) \o x /\ FlattenSeq(Written(ts)) \in Text
  <2>1. Written(ts) \in Seq(Seq(STRING)) /\ x \in Seq(STRING) BY <1>3, <1>5 DEF Text
  <2>2. QED BY <2>1, FlattenAppend DEF Text
<1>11. QED BY <1>5, <1>8, <1>9, <1>10, Zenon DEF more, x

\* At first nothing has been read.
LEMMA SaysInit ==
    ASSUME Init
    PROVE  SaysInv
<1>1. ParserInv BY ParserInit
<1>2. yyvs = <<>> /\ tokens = <<>> /\ yychar = YYEMPTY BY DEF Init
<1>3. Waiting = <<>> BY <1>2, NothingSaid DEF Waiting
<1>4. Bare(<<>>) = <<>>
  <2>1. [i \in DOMAIN <<>> |-> Says(<<>>[i].sym, <<>>[i].text)] = <<>> OBVIOUS
  <2>2. FlattenSeq(<<>>) = <<>> BY DEF FlattenSeq
  <2>3. QED BY <2>1, <2>2, Zenon DEF Bare
<1>5. FlattenSeq(<<>>) = <<>> BY DEF FlattenSeq
<1>6. FlattenSeq(<<>>) \o Waiting = Bare(tokens)
  <2>1. <<>> \o <<>> = <<>> OBVIOUS
  <2>2. QED BY <1>2, <1>3, <1>4, <1>5, <2>1, Zenon
<1>7. <<>> \in Seq(Text) /\ Len(<<>>) = Len(yyvs) /\ 1..Len(yyvs) = {} BY <1>2
<1>8. SaidBy(<<>>) BY <1>6, <1>7 DEF SaidBy, StandAll
<1>9. QED BY <1>1, <1>7, <1>8 DEF SaysInv

\* Reading a token: it waits, and its words with it.
LEMMA SaysLex ==
    ASSUME SaysInv, Lex
    PROVE  SaysInv'
<1>1. ParserInv /\ ParserInv' BY LexStep DEF SaysInv
<1> PICK said \in Seq(Text) : SaidBy(said) BY DEF SaysInv
<1> PICK t \in Readable : Read(t) BY DEF Lex
<1>2. UNCHANGED <<yyss, yyvs>> /\ yychar = YYEMPTY /\ yychar' = t
      /\ tokens' = IF t = YYEOF THEN tokens ELSE Append(tokens, t)
  BY DEF Read, Decided
<1> DEFINE flat == FlattenSeq(said)
           now == Says(t.sym, t.text)
<1>3. flat \in Text BY FlattenText
<1>4. Waiting = <<>> /\ Waiting' = now BY <1>2, NothingSaid DEF Waiting
<1>5. flat = Bare(tokens)
  <2>1. flat \o Waiting = Bare(tokens) BY DEF SaidBy
  <2>2. flat \o <<>> = flat
    <3> HIDE DEF flat
    <3>1. QED BY <1>3, ConcatEmptySeq DEF Text
  <2>3. QED BY <1>4, <2>1, <2>2, Zenon
<1>6. flat \o now = Bare(tokens')
  <2>1. CASE t = YYEOF
    <3>1. now = <<>> /\ tokens' = tokens BY <1>2, <2>1, NothingSaid
    <3>2. flat \o <<>> = flat
      <4> HIDE DEF flat
      <4>1. QED BY <1>3, ConcatEmptySeq DEF Text
    <3>3. QED BY <1>5, <3>1, <3>2, Zenon
  <2>2. CASE t # YYEOF
    <3>1. t \in InputToken /\ tokens \in Seq(InputToken)
      BY <1>1, <2>2, ReadableTokens DEF ParserInv
    <3>2. Bare(Append(tokens, t)) = Bare(tokens) \o now BY <3>1, BareAppend
    <3>3. QED BY <1>2, <1>5, <2>2, <3>2, Zenon
  <2>3. QED BY <2>1, <2>2
<1>7. StandAll(FormOf(yyss'), yyvs', said) BY <1>2 DEF SaidBy
<1>9. flat \o Waiting' = Bare(tokens') BY <1>4, <1>6
<1>10. SaidBy(said)' BY <1>7, <1>9 DEF SaidBy
<1>11. QED BY <1>1, <1>10 DEF SaysInv

\* The stacks go along with each other.
LEMMA FormStack ==
    ASSUME ParserInv
    PROVE  /\ yyvs \in Seq(Range(yyvs)) /\ Len(yyvs) \in Nat /\ Len(yyvs) = Len(yyss) - 1
           /\ FormOf(yyss) \in Seq(StackSymbols) /\ Len(FormOf(yyss)) = Len(yyvs)
<1>1. Viable(yyss) /\ yyvs \in Seq(Range(yyvs)) /\ Len(yyvs) = Len(yyss) - 1
  BY DEF ParserInv, TypeOK
<1>2. QED BY <1>1, FormTyped

\* One more symbol stands for one more text.
LEMMA SaidMore ==
    ASSUME NEW form, form \in Seq(Range(form)), NEW v, v \in Seq(Range(v)), NEW said \in Seq(Text),
           Len(v) = Len(form), StandAll(form, v, said),
           NEW sym, NEW x, NEW s, Stands(sym, x, s)
    PROVE  /\ StandAll(Append(form, sym), Append(v, x), Append(said, s))
           /\ FlattenSeq(Append(said, s)) = FlattenSeq(said) \o s
<1> DEFINE n == Len(v)
           forms == Append(form, sym)
           vs == Append(v, x)
           saids == Append(said, s)
<1>1. s \in Text BY DEF Stands
<1>2. n \in Nat /\ Len(vs) = n + 1 /\ vs[n + 1] = x /\ \A i \in 1..n : vs[i] = v[i] BY Longest
<1>3. forms[n + 1] = sym /\ \A i \in 1..n : forms[i] = form[i] BY Longest
<1>4. saids \in Seq(Text) /\ Len(saids) = n + 1 /\ saids[n + 1] = s /\ \A i \in 1..n : saids[i] = said[i]
  <2>1. said \in Seq(Text) /\ Len(said) = n BY DEF StandAll
  <2>2. MoreByOne(Text, said, s) BY <1>1, <2>1, OneMore
  <2>3. QED BY <2>1, <2>2 DEF MoreByOne
<1>5. FlattenSeq(saids) = FlattenSeq(said) \o s
  <2>1. said \in Seq(Seq(STRING)) /\ s \in Seq(STRING) BY <1>1 DEF Text
  <2>2. QED BY <2>1, FlattenAppend
<1> HIDE DEF forms, vs, saids
<1>6. \A i \in 1..(n + 1) : Stands(forms[i], vs[i], saids[i])
  <2>1. TAKE i \in 1..(n + 1)
  <2>2. CASE i = n + 1 BY <1>2, <1>3, <1>4, <2>2
  <2>3. CASE i # n + 1
    <3>1. i \in 1..n BY <1>2, <2>3
    <3>2. QED BY <1>2, <1>3, <1>4, <3>1 DEF StandAll
  <2>4. QED BY <2>2, <2>3
<1>7. QED BY <1>2, <1>4, <1>5, <1>6 DEF forms, vs, saids, StandAll

\* Shifting: the words of the token that waited are those of its value.
LEMMA SaysShift ==
    ASSUME SaysInv, Shift
    PROVE  SaysInv'
<1>1. ParserInv /\ ParserInv' BY ShiftStep DEF SaysInv
<1> PICK said \in Seq(Text) : SaidBy(said) BY DEF SaysInv
<1> DEFINE x == Node("token", yychar.text, <<>>)
           more == Append(said, Waiting)
<1>2. yychar.sym \in Tokens /\ FormOf(yyss') = Append(FormOf(yyss), yychar.sym)
  BY <1>1, ShiftStep
<1>3. yyvs' = Append(yyvs, x) /\ yychar' = YYEMPTY /\ tokens' = tokens BY DEF Shift
<1>4. yychar.sym \in Tokens \ Silent => yychar.text \in STRING
  <2>1. yychar # YYEMPTY BY <1>2, TokenMarks
  <2>2. yychar \in InputToken \cup {YYEOF} BY <1>1, <2>1, TokensKnown
  <2>3. YYEOF.sym \in Silent BY TokenMarks, Zenon DEF Silent
  <2>4. \A u \in InputToken : u.text \in STRING BY DEF InputToken
  <2>5. QED BY <2>2, <2>3, <2>4
<1>5. Waiting \in Text
  <2>1. yychar.text \in STRING \/ yychar.sym \in Silent BY <1>2, <1>4
  <2>2. QED BY <2>1, SaysText DEF Waiting
<1>6. Stands(yychar.sym, x, Waiting)
  <2>1. x.text = yychar.text BY DEF Node
  <2>2. yychar.sym # "op" /\ yychar.sym \notin DOMAIN ListOf BY <1>2, SymbolsSpell
  <2> HIDE DEF x
  <2>3. Waiting = Says(yychar.sym, x.text) BY <2>1 DEF Waiting
  <2>4. QED BY <1>2, <1>4, <1>5, <2>1, <2>2, <2>3 DEF Stands
<1>7. /\ FormOf(yyss) \in Seq(Range(FormOf(yyss))) /\ yyvs \in Seq(Range(yyvs))
      /\ Len(yyvs) = Len(FormOf(yyss))
  <2> DEFINE f == FormOf(yyss)
  <2>1. f \in Seq(StackSymbols) /\ Len(f) = Len(yyvs) /\ yyvs \in Seq(Range(yyvs))
    BY <1>1, FormStack
  <2>2. f \in Seq(Range(f))
    <3> HIDE DEF f
    <3>1. QED BY <2>1, OfItsRange
  <2>3. QED BY <2>1, <2>2
<1> HIDE DEF x, more
<1>8. StandAll(FormOf(yyss'), yyvs', more) /\ FlattenSeq(more) = FlattenSeq(said) \o Waiting
  <2>1. StandAll(FormOf(yyss), yyvs, said) BY DEF SaidBy
  <2>2. /\ StandAll(Append(FormOf(yyss), yychar.sym), Append(yyvs, x), Append(said, Waiting))
        /\ FlattenSeq(Append(said, Waiting)) = FlattenSeq(said) \o Waiting
    BY <1>6, <1>7, <2>1, SaidMore
  <2>3. QED BY <1>2, <1>3, <2>2, Zenon DEF more
<1>9. FlattenSeq(more) \o Waiting' = Bare(tokens')
  <2>1. Waiting' = <<>> BY <1>3, NothingSaid DEF Waiting
  <2>2. FlattenSeq(more) \in Text BY <1>8, FlattenText DEF StandAll
  <2>3. FlattenSeq(more) \o <<>> = FlattenSeq(more)
    <3> DEFINE all == FlattenSeq(more)
    <3>1. all \in Seq(STRING) BY <2>2 DEF Text
    <3> HIDE DEF all
    <3>2. all \o <<>> = all BY <3>1, ConcatEmptySeq
    <3>3. QED BY <3>2 DEF all
  <2>4. FlattenSeq(said) \o Waiting = Bare(tokens) BY DEF SaidBy
  <2>5. QED BY <1>3, <1>8, <2>1, <2>3, <2>4, Zenon
<1>10. PICK now \in Seq(Text) : now = more BY <1>8 DEF StandAll
<1>11. SaidBy(now)' BY <1>8, <1>9, <1>10 DEF SaidBy
<1>12. QED BY <1>1, <1>11 DEF SaysInv

\* The upper part of a sequence.
OnTop(t, S, s, m, k) == t \in Seq(S) /\ Len(t) = k /\ \A p \in 1..k : t[p] = s[m + p]

\* The upper part of a sequence, element by element.
LEMMA Upper ==
    ASSUME NEW S, NEW s \in Seq(S), NEW m \in Nat, NEW k \in Nat, Len(s) = m + k
    PROVE  OnTop(SubSeq(s, m + 1, Len(s)), S, s, m, k)
<1> DEFINE a == m + 1
           b == Len(s)
           t == SubSeq(s, a, b)
<1>1. a \in Nat /\ b \in Nat /\ a >= 1 /\ b - a + 1 = k OBVIOUS
<1>2. t = [i \in 1..(b - a + 1) |-> s[a + i - 1]] BY <1>1
<1>3. \A p \in 1..k : a + p - 1 = m + p /\ m + p \in 1..Len(s) OBVIOUS
<1> HIDE DEF t
<1>4. \A p \in 1..k : t[p] = s[m + p] BY <1>1, <1>2, <1>3
<1>5. \A p \in 1..k : s[m + p] \in S BY <1>3
<1>6. t \in [1..k -> S] BY <1>1, <1>2, <1>3, <1>5
<1>7. t \in Seq(S) /\ Len(t) = k BY <1>6, SequenceOf
<1>8. QED BY <1>4, <1>7 DEF t, OnTop

\* What lies lower stands for what it stood for.
LEMMA SaidLower ==
    ASSUME NEW form, form \in Seq(Range(form)), NEW v, v \in Seq(Range(v)), NEW said,
           Len(v) = Len(form), StandAll(form, v, said), NEW m \in 0..Len(v)
    PROVE  /\ StandAll(SubSeq(form, 1, m), SubSeq(v, 1, m), SubSeq(said, 1, m))
           /\ SubSeq(form, 1, m) \in Seq(Range(SubSeq(form, 1, m))) /\ SubSeq(v, 1, m) \in Seq(Range(SubSeq(v, 1, m)))
           /\ Len(SubSeq(v, 1, m)) = Len(SubSeq(form, 1, m))
<1> DEFINE f == SubSeq(form, 1, m)
           w == SubSeq(v, 1, m)
           s == SubSeq(said, 1, m)
<1>1. said \in Seq(Text) /\ Len(said) = Len(v) BY DEF StandAll
<1>2. f \in Seq(Range(f)) /\ Len(f) = m /\ w \in Seq(Range(w)) /\ Len(w) = m
  BY ShortenedSequence
<1>3. m \in Nat /\ m <= Len(v) /\ Len(v) \in Nat OBVIOUS
<1>4. s \in Seq(Text) /\ Len(s) = m BY <1>1, <1>3
<1>5. \A i \in 1..m : f[i] = form[i] /\ w[i] = v[i] /\ s[i] = said[i]
  <2>1. \A i \in 1..m : f[i] = form[i] BY <1>3
  <2>2. \A i \in 1..m : w[i] = v[i] BY <1>3
  <2>3. \A i \in 1..m : s[i] = said[i] BY <1>1, <1>3
  <2>4. QED BY <2>1, <2>2, <2>3
<1> HIDE DEF f, w, s
<1>6. \A i \in 1..Len(w) : Stands(f[i], w[i], s[i])
  <2>1. TAKE i \in 1..Len(w)
  <2>2. i \in 1..m /\ i \in 1..Len(v) BY <1>2, <1>3
  <2>3. Stands(form[i], v[i], said[i]) BY <2>2 DEF StandAll
  <2>4. QED BY <1>5, <2>2, <2>3
<1>7. QED BY <1>2, <1>4, <1>6 DEF f, w, s, StandAll

\* Reducing: the value that is pushed tells the words of those that are popped.
LEMMA SaysReduce ==
    ASSUME SaysInv, Reduce
    PROVE  SaysInv'
<1>1. ParserInv BY DEF SaysInv
<1> PICK said \in Seq(Text) : SaidBy(said) BY DEF SaysInv
<1> DEFINE rule == - Decision
           rhs == Rhs(rule)
           k == Len(rhs)
           n == Len(yyvs)
           m == n - k
           form == FormOf(yyss)
           popped == SubSeq(yyvs, m + 1, n)
           back == SubSeq(said, m + 1, n)
           x == Value(ActOf(rule), popped)
<1>2. /\ ParserInv' /\ rule \in Rules \ {1}
      /\ FormOf(yyss') = Append(SubSeq(form, 1, Len(form) - k), Lhs(rule))
  BY <1>1, ReduceStep
<1>3. /\ k \in Nat /\ k < Len(yyss)
      /\ \A j \in 0..(k - 1) : rhs[k - j] = form[Len(yyss) - 1 - j]
      /\ At(yyr2, rule) = k
  <2>1. result = "running" /\ Decided /\ Decision < 0 BY DEF Reduce
  <2>2. Completes(Last(yyss), rule) BY <1>1, <2>1, DecisionFollows DEF State
  <2>3. Viable(yyss) BY <1>1 DEF ParserInv
  <2>4. At(yyr2, rule) = k BY <2>2 DEF Completes
  <2>5. QED BY <2>2, <2>3, <2>4, Folds
<1>4. /\ n \in Nat /\ n = Len(yyss) - 1 /\ Len(form) = n
      /\ form \in Seq(Range(form)) /\ yyvs \in Seq(Range(yyvs))
  <2>1. form \in Seq(StackSymbols) /\ Len(form) = n /\ yyvs \in Seq(Range(yyvs)) /\ n \in Nat /\ n = Len(yyss) - 1
    BY <1>1, FormStack
  <2>2. form \in Seq(Range(form))
    <3> HIDE DEF form
    <3>1. QED BY <2>1, OfItsRange
  <2>3. QED BY <2>1, <2>2
<1>5. yyvs' = Append(SubSeq(yyvs, 1, m), x) /\ UNCHANGED <<yychar, tokens>>
  BY <1>3 DEF Reduce, ActOf
<1>6. StandAll(form, yyvs, said) /\ FlattenSeq(said) \o Waiting = Bare(tokens) BY DEF SaidBy
<1>7. said \in Seq(Text) /\ Len(said) = n BY <1>6 DEF StandAll
<1>8. m \in Nat /\ m \in 0..n /\ n = m + k
  <2> HIDE DEF n, k
  <2>1. QED BY <1>3, <1>4
<1>9. popped \in Seq(Range(yyvs)) /\ Len(popped) = k /\ \A p \in 1..k : popped[p] = yyvs[m + p]
  <2> HIDE DEF m, k
  <2>1. OnTop(SubSeq(yyvs, m + 1, Len(yyvs)), Range(yyvs), yyvs, m, k)
    BY <1>3, <1>4, <1>8, Upper
  <2>2. QED BY <2>1 DEF OnTop
<1>10. back \in Seq(Text) /\ Len(back) = k /\ \A p \in 1..k : back[p] = said[m + p]
  <2> HIDE DEF m, k, n
  <2>1. OnTop(SubSeq(said, m + 1, Len(said)), Text, said, m, k) BY <1>3, <1>7, <1>8, Upper
  <2>2. QED BY <1>7, <2>1 DEF OnTop
<1> HIDE DEF popped, back, form, m, n, k
<1>11. Standing(rhs, popped, back)
  <2>1. ASSUME NEW p \in 1..k PROVE Stands(rhs[p], popped[p], back[p])
    <3>1. k - p \in 0..(k - 1) /\ k - (k - p) = p /\ Len(yyss) - 1 - (k - p) = m + p /\ m + p \in 1..n
      <4>1. Len(yyss) - 1 - (k - p) = n - (k - p) BY <1>4
      <4>2. n - (k - p) = m + p /\ m + p \in 1..n /\ k - p \in 0..(k - 1) /\ k - (k - p) = p
        BY <1>3, <1>8
      <4>3. QED BY <4>1, <4>2
    <3>2. rhs[p] = form[m + p] BY <1>3, <3>1
    <3>3. Stands(form[m + p], yyvs[m + p], said[m + p]) BY <1>6, <3>1 DEF StandAll, n
    <3>4. QED BY <1>9, <1>10, <3>2, <3>3
  <2>2. QED BY <1>10, <2>1 DEF Standing, k
<1>12. Stands(Lhs(rule), x, FlattenSeq(back))
  <2> HIDE DEF rule
  <2>1. QED BY <1>2, <1>11, RuleStands DEF rhs
<1> DEFINE lower == SubSeq(said, 1, m)
           more == Append(lower, FlattenSeq(back))
<1>13. /\ StandAll(SubSeq(form, 1, m), SubSeq(yyvs, 1, m), lower)
       /\ SubSeq(form, 1, m) \in Seq(Range(SubSeq(form, 1, m)))
       /\ SubSeq(yyvs, 1, m) \in Seq(Range(SubSeq(yyvs, 1, m)))
       /\ Len(SubSeq(yyvs, 1, m)) = Len(SubSeq(form, 1, m))
  BY <1>4, <1>6, <1>8, SaidLower DEF n
<1>14. /\ StandAll(Append(SubSeq(form, 1, m), Lhs(rule)), Append(SubSeq(yyvs, 1, m), x), more)
       /\ FlattenSeq(more) = FlattenSeq(lower) \o FlattenSeq(back)
  <2>1. lower \in Seq(Text) BY <1>13 DEF StandAll
  <2> DEFINE f == SubSeq(form, 1, m)
             w == SubSeq(yyvs, 1, m)
             lhs == Lhs(rule)
             s == FlattenSeq(back)
  <2>2. /\ StandAll(f, w, lower) /\ f \in Seq(Range(f)) /\ w \in Seq(Range(w)) /\ Len(w) = Len(f)
        /\ Stands(lhs, x, s)
    BY <1>12, <1>13
  <2> HIDE DEF lower, x, f, w, lhs, s
  <2>3. StandAll(Append(f, lhs), Append(w, x), Append(lower, s))
        /\ FlattenSeq(Append(lower, s)) = FlattenSeq(lower) \o s
    BY <2>1, <2>2, SaidMore
  <2>4. QED BY <2>3 DEF f, w, lhs, s
<1>15. FlattenSeq(said) = FlattenSeq(lower) \o FlattenSeq(back)
  <2>1. said \in Seq(Seq(STRING)) /\ back \in Seq(Seq(STRING)) BY <1>7, <1>10 DEF Text
  <2>2. Len(said) = m + Len(back) /\ \A i \in 1..Len(back) : back[i] = said[m + i]
    BY <1>7, <1>8, <1>10
  <2>3. QED BY <1>8, <2>1, <2>2, FlattenParts
<1>16. FlattenSeq(more) \o Waiting' = Bare(tokens')
  <2>1. Waiting' = Waiting BY <1>5 DEF Waiting
  <2>2. FlattenSeq(more) = FlattenSeq(said) BY <1>14, <1>15, Zenon
  <2>3. QED BY <1>5, <1>6, <2>1, <2>2, Zenon
<1>17. StandAll(FormOf(yyss'), yyvs', more)
  <2>1. Len(form) - k = m BY <1>4 DEF m
  <2>2. FormOf(yyss') = Append(SubSeq(form, 1, m), Lhs(rule)) BY <1>2, <2>1, Zenon DEF form, k
  <2>3. QED BY <1>5, <1>14, <2>2, Zenon
<1> HIDE DEF more
<1>18. PICK now \in Seq(Text) : now = more BY <1>17 DEF StandAll
<1>19. SaidBy(now)' BY <1>16, <1>17, <1>18 DEF SaidBy
<1>20. QED BY <1>2, <1>19 DEF SaysInv

\* The invariant holds from step to step.
LEMMA SaysStep ==
    ASSUME SaysInv, [Next]_vars
    PROVE  SaysInv'
<1>1. ParserInv BY DEF SaysInv
<1>2. CASE Lex BY <1>2, SaysLex
<1>3. CASE Shift BY <1>3, SaysShift
<1>4. CASE Reduce BY <1>4, SaysReduce
<1>5. CASE SyntaxError \/ UNCHANGED vars
  <2>1. ParserInv' BY <1>1, ParserStep
  <2>2. UNCHANGED <<yyss, yyvs, yychar, tokens>> BY <1>5 DEF SyntaxError, vars
  <2> PICK said \in Seq(Text) : SaidBy(said) BY DEF SaysInv
  <2>3. SaidBy(said)' BY <2>2 DEF SaidBy, Waiting
  <2>4. QED BY <2>1, <2>3 DEF SaysInv
<1>6. QED BY <1>2, <1>3, <1>4, <1>5 DEF Next

\* What SaysInv says of the trees that are spelled.
LEMMA SaysSpells ==
    ASSUME SaysInv, NEW depth \in Nat, Within(depth)
    PROVE  SpellsAll(depth)
<1>1. ParserInv BY DEF SaysInv
<1> PICK said \in Seq(Text) : SaidBy(said) BY DEF SaysInv
<1> DEFINE n == Len(yyvs)
           on == [i \in DOMAIN yyvs |-> OnStack(i, depth)]
           place == [p \in 0..n |-> p]
<1>2. /\ n \in Nat /\ DOMAIN yyvs = 1..n /\ Form = FormOf(yyss)
      /\ Len(said) = n /\ said \in Seq(Text)
  BY <1>1, FormStack, FormIsFormOf DEF SaidBy, StandAll
<1>3. \A i \in 1..n : OnStack(i, depth) \in Text /\ SameText(OnStack(i, depth), said[i])
  <2>1. TAKE i \in 1..n
  <2>2. Stands(Form[i], yyvs[i], said[i]) BY <1>2 DEF SaidBy, StandAll
  <2>3. CASE Form[i] \in Tokens
    <3>1. OnStack(i, depth) = said[i] /\ said[i] \in Text BY <2>2, <2>3 DEF OnStack, Stands
    <3>2. QED BY <3>1, SameTextItself
  <2>4. CASE Form[i] \notin Tokens
    <3>1. OnStack(i, depth) = Spelt[depth][yyvs[i]] BY <2>4 DEF OnStack
    <3>2. yyvs[i] \in DOMAIN Spelt[depth] BY <1>2, <2>4 DEF Within
    <3>3. Tells(yyvs[i], said[i]) BY <2>2, <2>4 DEF Stands
    <3>4. QED BY <3>1, <3>2, <3>3 DEF Tells
  <2>5. QED BY <2>3, <2>4
<1>4. on \in Seq(Text) /\ Len(on) = n /\ \A i \in 1..n : on[i] = OnStack(i, depth)
  <2>1. on \in [1..n -> Text] /\ \A i \in 1..n : on[i] = OnStack(i, depth) BY <1>2, <1>3
  <2> HIDE DEF on
  <2>2. QED BY <1>2, <2>1, SequenceOf
<1>5. InStep(on, said, place)
  <2> HIDE DEF on
  <2>1. place[0] = 0 /\ place[Len(said)] = Len(on) /\ \A p \in 0..Len(said) : place[p] \in 0..Len(on)
    BY <1>2, <1>4
  <2>2. ASSUME NEW p \in 1..Len(said)
        PROVE  place[p] = place[p - 1] + 1 /\ SameText(on[place[p]], said[p])
    <3>1. p \in 0..n /\ p - 1 \in 0..n /\ p \in 1..n BY <1>2
    <3>2. place[p] = p /\ place[p - 1] = p - 1 BY <3>1
    <3>3. QED BY <1>3, <1>4, <3>1, <3>2
  <2> HIDE DEF place
  <2>3. QED BY <1>2, <1>4, <2>1, <2>2 DEF InStep
<1> HIDE DEF place, on
<1>6. FlattenSeq(on) \in Text /\ FlattenSeq(said) \in Text /\ SameText(FlattenSeq(on), FlattenSeq(said))
  BY <1>5, InStepSame
<1>7. Waiting \in Text
  <2>1. yychar \in InputToken \cup {YYEMPTY, YYEOF} BY <1>1, TokensKnown
  <2>2. <<>> \in Text BY DEF Text
  <2>3. \A u \in InputToken : Says(u.sym, u.text) \in Text
    <3>1. \A u \in InputToken : u.text \in STRING BY DEF InputToken
    <3>2. QED BY <3>1, SaysText
  <2>4. QED BY <2>1, <2>2, <2>3, NothingSaid DEF Waiting
<1>8. SameText(FlattenSeq(on) \o Waiting, FlattenSeq(said) \o Waiting)
  BY <1>6, <1>7, SameTextItself, SameTextJoins
<1>9. FlattenSeq(said) \o Waiting = Bare(tokens) BY DEF SaidBy
<1>10. QED BY <1>8, <1>9, Zenon DEF SpellsAll, on, Waiting

\* There is a depth that no tree on the stack exceeds.
LEMMA SaysWithin ==
    ASSUME SaysInv
    PROVE  \E depth \in Nat : Within(depth)
<1> PICK said \in Seq(Text) : SaidBy(said) BY DEF SaysInv
<1> DEFINE n == Len(yyvs)
           some == {i \in 1..n : Form[i] \notin Tokens}
<1>1. n \in Nat /\ DOMAIN yyvs = 1..n /\ Form = FormOf(yyss)
  BY FormStack, FormIsFormOf DEF SaysInv
<1>2. \A i \in some : i \in 1..n => Finite(yyvs[i])
  <2>1. TAKE i \in some
  <2>2. Stands(Form[i], yyvs[i], said[i]) BY <1>1 DEF SaidBy, StandAll
  <2>3. QED BY <2>2 DEF Stands
<1> HIDE DEF n
<1>3. PICK depth \in Nat : \A i \in some : i \in 1..n => yyvs[i] \in DOMAIN Spelt[depth]
  BY <1>1, <1>2, OneDepth
<1>4. Within(depth) BY <1>1, <1>3 DEF Within
<1>5. QED BY <1>4

\* The trees yyparse has on its stack lose, double and move nothing of what the
\* programmer wrote (parser.cpp:1419-2237, the actions of parser.y): read from left to
\* right, with the words each production leaves out put back, they are the tokens
\* that were read.  It holds for inputs of any length, up to a stack that is
\* exhausted, as soon as Deepest reaches as far as the trees do.
THEOREM SpellsInputHolds == Spec => [](Within(Deepest) => SpellsInput)
<1>1. Init => SaysInv BY SaysInit
<1>2. SaysInv /\ [Next]_vars => SaysInv' BY SaysStep
<1>3. SaysInv => (Within(Deepest) => SpellsInput)
  BY SaysSpells, DeepestAssumption DEF SpellsInput
<1>4. QED BY <1>1, <1>2, <1>3, PTL DEF Spec

\* It always does for some depth: every value yyparse makes (parser.cpp:1419-2237) is a
\* tree, in which no node is below itself, with a text in each node.
THEOREM SpelledAtSomeDepth == Spec => [](\E depth \in Nat : Within(depth) /\ SpellsAll(depth))
<1>1. Init => SaysInv BY SaysInit
<1>2. SaysInv /\ [Next]_vars => SaysInv' BY SaysStep
<1>3. SaysInv => \E depth \in Nat : Within(depth) /\ SpellsAll(depth)
  BY SaysWithin, SaysSpells
<1>4. QED BY <1>1, <1>2, <1>3, PTL DEF Spec
=============================================================================
