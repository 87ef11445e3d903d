----------------------------- MODULE SymbolsProofs -----------------------------
(***************************************************************************)
(* Symbols, for every set of names and every number of functions, variables *)
(* and nested constructs.  The inductive invariants say how the pushed      *)
(* scopes and the scopes of the text lie on each other, and which variables *)
(* each pushed scope can have.                                              *)
(***************************************************************************)
EXTENDS Symbols, Integers, WellFoundedInduction, TLAPS

-----------------------------------------------------------------------------
(* The innermost scope.                                                    *)

\* The least element, from the library's well-foundedness of Nat.
LEMMA LeastNatural ==
    ASSUME NEW T, T \subseteq Nat, T # {}
    PROVE  \E x \in T : \A y \in T : x <= y
<1>1. PICK x \in T : \A y \in T : ~ (<<y, x>> \in OpToRel(<, Nat))
  BY NatLessThanWellFounded, WFMin
<1>2. ASSUME NEW y \in T PROVE x <= y
  <2>1. ~ (<<y, x>> \in OpToRel(<, Nat))
    BY <1>1
  <2>2. ~ (y < x)
    BY <2>1 DEF OpToRel
  <2> QED
    BY <2>2
<1> QED
  BY <1>2

\* A nonempty set of indices has a greatest one.
LEMMA MaxExists ==
    ASSUME NEW m \in Nat, NEW S, S \subseteq 1..m, S # {}
    PROVE  Max(S) \in S /\ \A y \in S : y <= Max(S)
<1> DEFINE T == {m - k : k \in S}
<1>1. \A k \in S : k \in Int /\ 1 <= k /\ k <= m
  OBVIOUS
<1>2. T \subseteq Nat /\ T # {}
  <2>1. \A k \in S : m - k \in Nat
    BY <1>1
  <2> QED
    BY <2>1
<1>3. PICK x \in T : \A y \in T : x <= y
  <2> HIDE DEF T
  <2> QED
    BY <1>2, LeastNatural
<1>4. PICK k \in S : x = m - k
  OBVIOUS
<1>5. ASSUME NEW j \in S PROVE k >= j
  <2>1. m - j \in T
    OBVIOUS
  <2>2. m - k <= m - j
    BY <1>3, <1>4, <2>1
  <2> QED
    BY <1>1, <2>2
<1>6. \E z \in S : \A y \in S : z >= y
  BY <1>5
<1>7. Max(S) \in S /\ \A y \in S : Max(S) >= y
  BY <1>6 DEF Max
<1> QED
  BY <1>1, <1>7

\* Find returns what the innermost scope that has the name binds it to.
LEMMA FindFacts ==
    ASSUME NEW scopes, Len(scopes) \in Nat, NEW n
    PROVE  \/ /\ Find(scopes, n) = Nothing
              /\ \A k \in 1..Len(scopes) : scopes[k][n] = Nothing
           \/ \E k \in 1..Len(scopes) :
                 /\ Find(scopes, n) = scopes[k][n]
                 /\ scopes[k][n] # Nothing
                 /\ \A j \in 1..Len(scopes) : j > k => scopes[j][n] = Nothing
<1> DEFINE having == {k \in 1..Len(scopes) : scopes[k][n] # Nothing}
<1>1. CASE having = {}
  BY <1>1 DEF Find
<1>2. CASE having # {}
  <2>1. Max(having) \in having /\ \A y \in having : y <= Max(having)
    <3>1. having \subseteq 1..Len(scopes)
      OBVIOUS
    <3> HIDE DEF having
    <3> QED
      BY <1>2, <3>1, MaxExists
  <2>2. Find(scopes, n) = scopes[Max(having)][n]
    BY <1>2 DEF Find
  <2>3. \A j \in 1..Len(scopes) : j > Max(having) => scopes[j][n] = Nothing
    BY <2>1
  <2> QED
    BY <2>1, <2>2, <2>3
<1> QED
  BY <1>1, <1>2

\* So it finds a symbol or nothing, and it finds something if there is one.
LEMMA FindType ==
    ASSUME NEW scopes \in Seq(Scope), NEW n \in Name
    PROVE  /\ Find(scopes, n) \in Symbol \cup {Nothing}
           /\ Find(scopes, n) # Nothing =>
                  \E k \in 1..Len(scopes) : Find(scopes, n) = scopes[k][n]
           /\ (\E k \in 1..Len(scopes) : scopes[k][n] # Nothing)
                  => Find(scopes, n) # Nothing
<1>1. \A k \in 1..Len(scopes) : scopes[k][n] \in Symbol \cup {Nothing}
  BY DEF Scope
<1>2. Len(scopes) \in Nat
  OBVIOUS
<1> QED
  BY <1>1, <1>2, FindFacts

-----------------------------------------------------------------------------
(* Scopes and frames that are changed in one place.                        *)

Rebound(scope, n, s) == [scope EXCEPT ![n] = s]
Put(q, k, n, s) == [q EXCEPT ![k][n] = s]

LEMMA PutFacts ==
    ASSUME NEW q \in Seq(Scope), NEW k \in 1..Len(q), NEW n \in Name,
           NEW s \in Symbol \cup {Nothing}
    PROVE  /\ Put(q, k, n, s) \in Seq(Scope) /\ Len(Put(q, k, n, s)) = Len(q)
           /\ \A j \in 1..Len(q) : j # k => Put(q, k, n, s)[j] = q[j]
           /\ Put(q, k, n, s)[k] = Rebound(q[k], n, s)
           /\ Put(q, k, n, s)[k][n] = s
           /\ \A m \in Name : m # n => Put(q, k, n, s)[k][m] = q[k][m]
<1> DEFINE t == Put(q, k, n, s)
<1>1. q[k] \in Scope
  OBVIOUS
<1>2. Rebound(q[k], n, s) \in Scope
  BY <1>1 DEF Scope, Rebound
<1>3. t = [q EXCEPT ![k] = Rebound(q[k], n, s)]
  BY DEF Put, Rebound
<1> HIDE DEF t
<1>4. t \in Seq(Scope) /\ Len(t) = Len(q)
  BY <1>2, <1>3
<1>5. t[k] = Rebound(q[k], n, s) /\ \A j \in 1..Len(q) : j # k => t[j] = q[j]
  BY <1>3
<1>6. t[k][n] = s /\ \A m \in Name : m # n => t[k][m] = q[k][m]
  BY <1>1, <1>5 DEF Scope, Rebound
<1> QED
  BY <1>4, <1>5, <1>6 DEF t

LEMMA DeclareFacts ==
    ASSUME nest \in Seq(Frame), NEW n \in Name, NEW s \in Symbol \cup {Nothing},
           Declare(n, s)
    PROVE  /\ nest' \in Seq(Frame) /\ Len(nest') = Len(nest)
           /\ \A i \in 1..Len(nest) : /\ nest'[i].node = nest[i].node
                                      /\ nest'[i].from = nest[i].from
           /\ \A i \in 1..Len(nest) : i # Len(nest) => nest'[i] = nest[i]
           /\ nest # <<>> => nest'[Len(nest)].own = Rebound(Top.own, n, s)
<1>1. CASE nest = <<>>
  BY <1>1 DEF Declare
<1>2. CASE nest # <<>>
  <2> DEFINE r == [Top EXCEPT !.own[n] = s]
  <2>1. Len(nest) \in 1..Len(nest) /\ Top \in Frame
    BY <1>2 DEF Top
  <2>2. Rebound(Top.own, n, s) \in Scope
    BY <2>1 DEF Frame, Scope, Rebound
  <2>3. r \in Frame /\ r.node = Top.node /\ r.from = Top.from
        /\ r.own = Rebound(Top.own, n, s)
    BY <2>1, <2>2 DEF Frame, Rebound
  <2>4. nest' = [nest EXCEPT ![Len(nest)] = r]
    BY <1>2 DEF Declare, Top
  <2> HIDE DEF r
  <2>5. nest' \in Seq(Frame) /\ Len(nest') = Len(nest)
    BY <2>1, <2>3, <2>4
  <2>6. nest'[Len(nest)] = r /\ \A i \in 1..Len(nest) : i # Len(nest) => nest'[i] = nest[i]
    BY <2>1, <2>4
  <2> QED
    BY <2>3, <2>5, <2>6 DEF Top
<1> QED
  BY <1>1, <1>2

\* The last element of a sequence is taken away.
LEMMA DropFacts ==
    ASSUME NEW S, NEW q \in Seq(S), q # <<>>
    PROVE  /\ Len(q) \in Nat /\ Len(q) >= 1
           /\ SubSeq(q, 1, Len(q) - 1) \in Seq(S)
           /\ Len(SubSeq(q, 1, Len(q) - 1)) = Len(q) - 1
           /\ \A i \in 1..(Len(q) - 1) : SubSeq(q, 1, Len(q) - 1)[i] = q[i]
<1>1. Len(q) \in Nat /\ Len(q) >= 1
  OBVIOUS
<1>2. SubSeq(q, 1, Len(q) - 1) \in Seq(S)
  OBVIOUS
<1>3. Len(SubSeq(q, 1, Len(q) - 1)) = Len(q) - 1
  BY <1>1
<1>4. \A i \in 1..(Len(q) - 1) : SubSeq(q, 1, Len(q) - 1)[i] = q[i]
  BY <1>1
<1> QED
  BY <1>1, <1>2, <1>3, <1>4

\* A function's name put into the first scope.
LEMMA GlobalFacts ==
    ASSUME blocks \in Seq(Scope), blocks # <<>>, NEW n \in Name,
           NEW f \in 1..MaxFns, NEW t, t = WithGlobal(n, Function(f))
    PROVE  /\ t \in Seq(Scope) /\ Len(t) = Len(blocks)
           /\ \A k \in 1..Len(blocks), m \in Name :
                  t[k][m] = blocks[k][m] \/ t[k][m] = Function(f)
           /\ n \notin Unlisted => t[1][n] = Function(f)
<1>1. 1 \in 1..Len(blocks) /\ Function(f) \in Symbol \cup {Nothing}
  BY DEF Symbol
<1>2. CASE n \in Unlisted
  BY <1>2 DEF WithGlobal
<1>3. CASE n \notin Unlisted
  <2>1. t = Put(blocks, 1, n, Function(f))
    BY <1>3 DEF WithGlobal, Put
  <2>2. /\ t \in Seq(Scope) /\ Len(t) = Len(blocks)
        /\ \A j \in 1..Len(blocks) : j # 1 => t[j] = blocks[j]
        /\ t[1][n] = Function(f)
        /\ \A m \in Name : m # n => t[1][m] = blocks[1][m]
    BY <1>1, <2>1, PutFacts
  <2>3. ASSUME NEW k \in 1..Len(blocks), NEW m \in Name
        PROVE  t[k][m] = blocks[k][m] \/ t[k][m] = Function(f)
    <3>1. CASE k # 1
      BY <2>2, <3>1
    <3>2. CASE k = 1
      BY <2>2, <3>2
    <3> QED
      BY <3>1, <3>2
  <2> QED
    BY <1>3, <2>2, <2>3
<1> QED
  BY <1>2, <1>3

-----------------------------------------------------------------------------
(* Every program.  A loop at the bottom of `nest' began when a scope was    *)
(* already there, and a definition at the bottom has its own below the      *)
(* scopes of its loops: a loop never pops the first scope.                  *)

FirstScopeKept ==
    /\ nest # <<>> /\ nest[1].node = "loop" => Len(blocks) > Len(nest)
    /\ \A n \in globals : blocks # <<>> /\ blocks[1][n] # Nothing

ScopesInv == TypeOK /\ FirstScopeKept

LEMMA EmptyScopeType == EmptyScope \in Scope
  BY DEF EmptyScope, Scope

LEMMA SymbolFacts ==
    /\ \A i \in 1..MaxSlots : Slot(i) \in Symbol
    /\ \A f \in 1..MaxFns : Function(f) \in Symbol /\ Function(f) # Nothing
    /\ \A i \in 1..MaxSlots : Slot(i) # Nothing
  BY DEF Symbol, Slot, Function, Nothing

LEMMA ScopesInit == Init => ScopesInv
<1> SUFFICES ASSUME Init PROVE ScopesInv
  OBVIOUS
<1>1. blocks \in Seq(Scope) /\ nest \in Seq(Frame) /\ nest = <<>>
  BY DEF Init
<1>2. Len(nest) <= MaxNest /\ Len(nest) <= Len(blocks)
  BY SymbolsAssumption DEF Init, SymbolsAssumption
<1>3. nfn \in 0..MaxFns /\ nslot \in 0..MaxSlots
  BY SymbolsAssumption DEF Init, SymbolsAssumption
<1>4. /\ status \in {"running", "done", "crashed"} /\ ended \subseteq 1..nslot
      /\ nested \in BOOLEAN /\ globals \subseteq Name
  BY DEF Init
<1>5. TypeOK
  BY <1>1, <1>2, <1>3, <1>4 DEF TypeOK
<1> QED
  BY <1>1, <1>5 DEF Init, ScopesInv, FirstScopeKept

\* Changing what a name stands for in the scope on top, or binding it first.
LEMMA ScopesBind ==
    ASSUME ScopesInv, NEW n \in Name, NEW s \in Symbol, blocks # <<>>,
           blocks' = WithValue(n, s), Declare(n, s),
           nslot' \in nslot..MaxSlots, s # Nothing,
           UNCHANGED <<nfn, status, ended, nested, globals>>
    PROVE  ScopesInv'
<1>1. /\ blocks \in Seq(Scope) /\ Len(blocks) \in 1..Len(blocks)
      /\ nest \in Seq(Frame)
  BY DEF ScopesInv, TypeOK
<1>2. blocks' = Put(blocks, Len(blocks), n, s) /\ s \in Symbol \cup {Nothing}
  BY DEF WithValue, Put
<1>3. /\ blocks' \in Seq(Scope) /\ Len(blocks') = Len(blocks)
      /\ \A j \in 1..Len(blocks) : j # Len(blocks) => blocks'[j] = blocks[j]
      /\ blocks'[Len(blocks)][n] = s
      /\ \A m \in Name : m # n => blocks'[Len(blocks)][m] = blocks[Len(blocks)][m]
  BY <1>1, <1>2, PutFacts
<1>4. /\ nest' \in Seq(Frame) /\ Len(nest') = Len(nest)
      /\ \A i \in 1..Len(nest) : nest'[i].node = nest[i].node
  BY <1>1, <1>2, DeclareFacts
<1>5. nslot' \in 0..MaxSlots /\ ended' \subseteq 1..nslot'
  BY SymbolsAssumption DEF ScopesInv, TypeOK, SymbolsAssumption
<1>6. TypeOK'
  <2>1. Len(nest') <= MaxNest /\ Len(nest') <= Len(blocks')
    BY <1>3, <1>4 DEF ScopesInv, TypeOK
  <2> QED
    BY <1>3, <1>4, <1>5, <2>1 DEF ScopesInv, TypeOK
<1>7. nest' # <<>> /\ nest'[1].node = "loop" => Len(blocks') > Len(nest')
  BY <1>1, <1>3, <1>4 DEF ScopesInv, FirstScopeKept
<1>8. ASSUME NEW m \in globals' PROVE blocks' # <<>> /\ blocks'[1][m] # Nothing
  <2>1. m \in Name /\ blocks[1][m] # Nothing
    BY DEF ScopesInv, TypeOK, FirstScopeKept
  <2>2. CASE Len(blocks) = 1
    BY <1>3, <2>1, <2>2
  <2>3. CASE Len(blocks) # 1
    BY <1>1, <1>3, <2>1, <2>3
  <2> QED
    BY <1>1, <1>3, <2>2, <2>3
<1> QED
  BY <1>6, <1>7, <1>8 DEF ScopesInv, FirstScopeKept

\* A function's name becomes global, or it does not.
LEMMA ScopesGlobal ==
    ASSUME ScopesInv, NEW n \in Name, NEW f \in 1..MaxFns, blocks # <<>>,
           blocks' = WithGlobal(n, Function(f)),
           globals' = globals \cup ({n} \ Unlisted)
    PROVE  /\ blocks' \in Seq(Scope) /\ Len(blocks') = Len(blocks)
           /\ globals' \subseteq Name
           /\ \A m \in globals' : blocks' # <<>> /\ blocks'[1][m] # Nothing
<1>1. blocks \in Seq(Scope) /\ globals \subseteq Name
  BY DEF ScopesInv, TypeOK
<1>2. /\ blocks' \in Seq(Scope) /\ Len(blocks') = Len(blocks)
      /\ \A k \in 1..Len(blocks), m \in Name :
             blocks'[k][m] = blocks[k][m] \/ blocks'[k][m] = Function(f)
      /\ n \notin Unlisted => blocks'[1][n] = Function(f)
  BY <1>1, GlobalFacts
<1>3. ASSUME NEW m \in globals' PROVE blocks' # <<>> /\ blocks'[1][m] # Nothing
  <2>1. Function(f) # Nothing
    BY SymbolFacts
  <2>2. CASE m \in globals
    <3>1. blocks[1][m] # Nothing
      BY <2>2 DEF ScopesInv, FirstScopeKept
    <3>2. blocks'[1][m] # Nothing
      BY <1>1, <1>2, <2>1, <2>2, <3>1
    <3> QED
      BY <1>1, <1>2, <3>2
  <2>3. CASE m \notin globals
    <3>1. m = n /\ n \notin Unlisted
      BY <2>3
    <3> QED
      BY <1>1, <1>2, <2>1, <3>1
  <2> QED
    BY <2>2, <2>3
<1> QED
  BY <1>1, <1>2, <1>3

LEMMA ScopesNext == ScopesInv /\ [Next]_vars => ScopesInv'
<1> SUFFICES ASSUME ScopesInv, [Next]_vars PROVE ScopesInv'
  OBVIOUS
<1> USE SymbolsAssumption DEF SymbolsAssumption
<1>a. /\ blocks \in Seq(Scope) /\ nest \in Seq(Frame)
      /\ Len(nest) <= MaxNest /\ Len(nest) <= Len(blocks)
      /\ nfn \in 0..MaxFns /\ nslot \in 0..MaxSlots
      /\ ended \subseteq 1..nslot
  BY DEF ScopesInv, TypeOK
<1>1. ASSUME NEW n \in Name, DeclareVariable(n) PROVE ScopesInv'
  <2>1. Slot(nslot + 1) \in Symbol /\ Slot(nslot + 1) # Nothing
    BY <1>1, <1>a, SymbolFacts DEF DeclareVariable
  <2>2. /\ blocks # <<>> /\ blocks' = WithValue(n, Slot(nslot + 1))
        /\ Declare(n, Slot(nslot + 1)) /\ nslot' \in nslot..MaxSlots
        /\ UNCHANGED <<nfn, status, ended, nested, globals>>
    BY <1>1, <1>a DEF DeclareVariable
  <2> QED
    BY <2>1, <2>2, ScopesBind
<1>2. ASSUME NEW n \in Name, NEW m \in Name, DeclarePointer(n, m) PROVE ScopesInv'
  <2>1. GetValue(m) \in Symbol /\ GetValue(m) # Nothing /\ blocks # <<>>
    <3>1. GetValue(m) # Nothing
      BY <1>2 DEF DeclarePointer
    <3>2. PICK k \in 1..Len(blocks) : GetValue(m) = blocks[k][m]
      BY <1>a, <3>1, FindType DEF GetValue
    <3>3. GetValue(m) \in Symbol \cup {Nothing}
      BY <1>a, FindType DEF GetValue
    <3>4. blocks # <<>>
      BY <3>2
    <3> QED
      BY <3>1, <3>3, <3>4
  <2>2. /\ blocks' = WithValue(n, GetValue(m)) /\ Declare(n, GetValue(m))
        /\ nslot' \in nslot..MaxSlots
        /\ UNCHANGED <<nfn, status, ended, nested, globals>>
    BY <1>2, <1>a DEF DeclarePointer
  <2> QED
    BY <2>1, <2>2, ScopesBind
<1>3. ASSUME NEW n \in Name, UseUnbound(n) PROVE ScopesInv'
  BY <1>3 DEF UseUnbound, ScopesInv, TypeOK, FirstScopeKept
<1>4. ASSUME NEW n \in Name, NEW params \in SUBSET Name, BeginFunction(n, params)
      PROVE  ScopesInv'
  <2> DEFINE own == [m \in Name |-> IF m \in params THEN Slot(nslot + 1) ELSE Nothing]
             frame == [node |-> "func", name |-> n, fn |-> nfn + 1, from |-> 0,
                       own |-> own]
  <2>1. own \in Scope
    <3>1. params # {} => Slot(nslot + 1) \in Symbol
      BY <1>4, <1>a, SymbolFacts DEF BeginFunction
    <3> QED
      BY <3>1 DEF Scope
  <2>2. frame \in Frame /\ frame.node = "func"
    BY <1>4, <1>a, <2>1 DEF Frame, BeginFunction
  <2>3. blocks' = Append(blocks, own) /\ nest' = Append(nest, frame)
    BY <1>4 DEF BeginFunction, Pushed, Enter
  <2>4. /\ Len(nest) < MaxNest /\ nfn' \in 0..MaxFns /\ nslot' \in nslot..MaxSlots
        /\ nested' \in BOOLEAN /\ UNCHANGED <<status, ended, globals>>
    BY <1>4, <1>a DEF BeginFunction, ScopesInv, TypeOK
  <2> HIDE DEF own, frame
  <2>5. /\ blocks' \in Seq(Scope) /\ Len(blocks') = Len(blocks) + 1
        /\ \A i \in 1..Len(blocks) : blocks'[i] = blocks[i]
    BY <1>a, <2>1, <2>3
  <2>6. /\ nest' \in Seq(Frame) /\ Len(nest') = Len(nest) + 1
        /\ \A i \in 1..Len(nest) : nest'[i] = nest[i]
        /\ nest'[Len(nest) + 1] = frame
    BY <1>a, <2>2, <2>3
  <2>7. Len(nest') <= MaxNest /\ Len(nest') <= Len(blocks')
    BY <1>a, <2>4, <2>5, <2>6
  <2>8. ended' \subseteq 1..nslot' /\ nslot' \in 0..MaxSlots
    BY <1>a, <2>4
  <2>9. TypeOK'
    BY <2>4, <2>5, <2>6, <2>7, <2>8 DEF ScopesInv, TypeOK
  <2>10. nest'[1].node = "loop" => Len(blocks') > Len(nest')
    <3>1. CASE nest = <<>>
      BY <2>2, <2>6, <3>1
    <3>2. CASE nest # <<>>
      BY <1>a, <2>5, <2>6, <3>2 DEF ScopesInv, FirstScopeKept
    <3> QED
      BY <3>1, <3>2
  <2>11. \A m \in globals' : blocks' # <<>> /\ blocks'[1][m] # Nothing
    BY <1>a, <2>4, <2>5 DEF ScopesInv, FirstScopeKept
  <2> QED
    BY <2>9, <2>10, <2>11 DEF ScopesInv, FirstScopeKept
<1>5. CASE EndFunction
  <2>1. nest # <<>> /\ Top \in Frame /\ Top.node = "func"
    BY <1>5, <1>a DEF EndFunction, In, Top
  <2>2. Top.name \in Name /\ Top.fn \in 1..MaxFns
    BY <2>1 DEF Frame
  <2>3. /\ blocks # <<>> /\ blocks' = WithGlobal(Top.name, Function(Top.fn))
        /\ globals' = globals \cup ({Top.name} \ Unlisted)
        /\ nest' = SubSeq(nest, 1, Len(nest) - 1)
        /\ UNCHANGED <<nfn, nslot, status, ended, nested>>
    BY <1>5, <1>a, <2>1 DEF EndFunction, Leave
  <2>4. /\ blocks' \in Seq(Scope) /\ Len(blocks') = Len(blocks)
        /\ globals' \subseteq Name
        /\ \A m \in globals' : blocks' # <<>> /\ blocks'[1][m] # Nothing
    BY <2>2, <2>3, ScopesGlobal
  <2>5. /\ nest' \in Seq(Frame) /\ Len(nest') = Len(nest) - 1
        /\ \A i \in 1..(Len(nest) - 1) : nest'[i] = nest[i]
    BY <1>a, <2>1, <2>3, DropFacts
  <2>6. Len(nest') <= MaxNest /\ Len(nest') <= Len(blocks')
    BY <1>a, <2>4, <2>5
  <2>7. TypeOK'
    BY <2>3, <2>4, <2>5, <2>6 DEF ScopesInv, TypeOK
  <2>8. nest' # <<>> /\ nest'[1].node = "loop" => Len(blocks') > Len(nest')
    BY <1>a, <2>1, <2>4, <2>5 DEF ScopesInv, FirstScopeKept
  <2> QED
    BY <2>4, <2>7, <2>8 DEF ScopesInv, FirstScopeKept
<1>6. ASSUME NEW n \in Name, DeclareExtern(n) PROVE ScopesInv'
  <2>1. /\ nfn' = nfn + 1 /\ nfn < MaxFns /\ UNCHANGED <<nest, nslot, ended>>
        /\ nested' \in BOOLEAN
    BY <1>6 DEF DeclareExtern, ScopesInv, TypeOK
  <2>2. nfn' \in 0..MaxFns /\ nfn + 1 \in 1..MaxFns
    BY <1>a, <2>1
  <2>3. CASE UNCHANGED <<blocks, globals>> /\ status' = "crashed"
    BY <2>1, <2>2, <2>3 DEF ScopesInv, TypeOK, FirstScopeKept
  <2>4. CASE blocks = <<>> /\ n \in Unlisted
    <3>1. blocks' = blocks /\ globals' = globals /\ UNCHANGED status
      BY <1>6, <2>4 DEF DeclareExtern, WithGlobal
    <3> QED
      BY <2>1, <2>2, <3>1 DEF ScopesInv, TypeOK, FirstScopeKept
  <2>5. CASE blocks # <<>>
    <3>1. /\ blocks' = WithGlobal(n, Function(nfn + 1)) /\ UNCHANGED status
          /\ globals' = globals \cup ({n} \ Unlisted)
      BY <1>6, <2>5 DEF DeclareExtern
    <3>2. /\ blocks' \in Seq(Scope) /\ Len(blocks') = Len(blocks)
          /\ globals' \subseteq Name
          /\ \A m \in globals' : blocks' # <<>> /\ blocks'[1][m] # Nothing
      BY <2>2, <2>5, <3>1, ScopesGlobal
    <3>3. TypeOK'
      BY <2>1, <2>2, <3>1, <3>2 DEF ScopesInv, TypeOK
    <3> QED
      BY <2>1, <3>2, <3>3 DEF ScopesInv, FirstScopeKept
  <2> QED
    BY <1>6, <2>3, <2>4, <2>5 DEF DeclareExtern
<1>7. CASE BeginLoop
  <2> DEFINE frame == [node |-> "loop", name |-> NoName, fn |-> 0,
                       from |-> nslot, own |-> EmptyScope]
  <2>1. EmptyScope \in Scope /\ frame \in Frame
    BY <1>a, EmptyScopeType DEF Frame
  <2>2. /\ blocks' = Append(blocks, EmptyScope) /\ nest' = Append(nest, frame)
        /\ Len(nest) < MaxNest /\ blocks # <<>>
        /\ UNCHANGED <<nfn, nslot, status, ended, nested, globals>>
    BY <1>7 DEF BeginLoop, Pushed, Enter
  <2> HIDE DEF frame
  <2>3. /\ blocks' \in Seq(Scope) /\ Len(blocks') = Len(blocks) + 1
        /\ \A i \in 1..Len(blocks) : blocks'[i] = blocks[i]
    BY <1>a, <2>1, <2>2
  <2>4. /\ nest' \in Seq(Frame) /\ Len(nest') = Len(nest) + 1
        /\ \A i \in 1..Len(nest) : nest'[i] = nest[i]
    BY <1>a, <2>1, <2>2
  <2>5. Len(nest') <= MaxNest /\ Len(nest') <= Len(blocks')
    BY <1>a, <2>2, <2>3, <2>4
  <2>6. TypeOK'
    BY <2>2, <2>3, <2>4, <2>5 DEF ScopesInv, TypeOK
  <2>7. nest'[1].node = "loop" => Len(blocks') > Len(nest')
    <3>1. CASE nest = <<>>
      BY <1>a, <2>2, <2>3, <2>4, <3>1
    <3>2. CASE nest # <<>>
      BY <1>a, <2>3, <2>4, <3>2 DEF ScopesInv, FirstScopeKept
    <3> QED
      BY <3>1, <3>2
  <2>8. \A m \in globals' : blocks' # <<>> /\ blocks'[1][m] # Nothing
    BY <1>a, <2>2, <2>3 DEF ScopesInv, FirstScopeKept
  <2> QED
    BY <2>6, <2>7, <2>8 DEF ScopesInv, FirstScopeKept
<1>8. CASE EndLoop
  <2>1. nest # <<>> /\ Top \in Frame /\ Top.node = "loop" /\ Top = nest[Len(nest)]
    BY <1>8, <1>a DEF EndLoop, In, Top
  <2>2. Top.from \in 0..MaxSlots
    BY <2>1 DEF Frame
  <2>3. /\ blocks' = SubSeq(blocks, 1, Len(blocks) - 1)
        /\ nest' = SubSeq(nest, 1, Len(nest) - 1)
        /\ ended' = ended \cup (Top.from + 1)..nslot
        /\ UNCHANGED <<nfn, nslot, status, nested, globals>>
    BY <1>8 DEF EndLoop, Leave, Popped
  <2>4. Len(blocks) >= 2
    <3>1. CASE Len(nest) = 1
      <4>1. nest[1].node = "loop"
        BY <2>1, <3>1
      <4>2. Len(blocks) > Len(nest)
        BY <2>1, <4>1 DEF ScopesInv, FirstScopeKept
      <4> QED
        BY <1>a, <3>1, <4>2
    <3>2. CASE Len(nest) # 1
      <4>1. Len(nest) \in Nat /\ Len(nest) >= 1
        BY <1>a, <2>1, DropFacts
      <4>2. Len(nest) <= Len(blocks) /\ Len(blocks) \in Nat
        BY <1>a
      <4>3. \A a, b \in Nat : a # 1 /\ a >= 1 /\ a <= b => b >= 2
        OBVIOUS
      <4> QED
        BY <3>2, <4>1, <4>2, <4>3
    <3> QED
      BY <3>1, <3>2
  <2>5. /\ blocks' \in Seq(Scope) /\ Len(blocks') = Len(blocks) - 1
        /\ \A i \in 1..(Len(blocks) - 1) : blocks'[i] = blocks[i]
    BY <1>a, <2>3, <2>4
  <2>6. /\ nest' \in Seq(Frame) /\ Len(nest') = Len(nest) - 1
        /\ \A i \in 1..(Len(nest) - 1) : nest'[i] = nest[i]
    BY <1>a, <2>1, <2>3, DropFacts
  <2>7. Len(nest') <= MaxNest /\ Len(nest') <= Len(blocks')
    BY <1>a, <2>5, <2>6
  <2>8. ended' \subseteq 1..nslot'
    <3>1. (Top.from + 1)..nslot \subseteq 1..nslot
      BY <1>a, <2>2
    <3> QED
      BY <1>a, <2>3, <3>1
  <2>9. TypeOK'
    BY <2>3, <2>5, <2>6, <2>7, <2>8 DEF ScopesInv, TypeOK
  <2>10. nest' # <<>> /\ nest'[1].node = "loop" => Len(blocks') > Len(nest')
    BY <1>a, <2>1, <2>5, <2>6 DEF ScopesInv, FirstScopeKept
  <2>11. ASSUME NEW m \in globals' PROVE blocks' # <<>> /\ blocks'[1][m] # Nothing
    <3>1. blocks[1][m] # Nothing
      BY <2>3 DEF ScopesInv, FirstScopeKept
    <3>2. blocks'[1] = blocks[1] /\ Len(blocks') >= 1
      BY <1>a, <2>4, <2>5
    <3> QED
      BY <2>5, <3>1, <3>2
  <2> QED
    BY <2>9, <2>10, <2>11 DEF ScopesInv, FirstScopeKept
<1>9. CASE EndModule
  BY <1>9 DEF EndModule, ScopesInv, TypeOK, FirstScopeKept
<1>10. CASE UNCHANGED vars
  BY <1>10 DEF vars, ScopesInv, TypeOK, FirstScopeKept
<1>11. CASE Finished
  BY <1>10, <1>11 DEF Finished
<1> QED
  BY <1>1, <1>2, <1>3, <1>4, <1>5, <1>6, <1>7, <1>8, <1>9, <1>10, <1>11 DEF Next

\* Scopes and frames are where they should be in every program.
THEOREM ScopesHold == Spec => []ScopesInv
BY ScopesInit, ScopesNext, PTL DEF Spec

\* A name that was made global can be found from then on, in every program.
THEOREM GlobalsFoundHolds == Spec => []GlobalsFound
<1>1. ASSUME ScopesInv, NEW n \in globals PROVE GetValue(n) # Nothing
  <2>1. /\ blocks \in Seq(Scope) /\ n \in Name
        /\ blocks # <<>> /\ blocks[1][n] # Nothing
    BY <1>1 DEF ScopesInv, TypeOK, FirstScopeKept
  <2>2. 1 \in 1..Len(blocks)
    BY <2>1
  <2> QED
    BY <2>1, <2>2, FindType DEF GetValue
<1>2. ScopesInv => GlobalsFound
  BY <1>1 DEF GlobalsFound
<1> QED
  BY <1>2, ScopesHold, PTL

-----------------------------------------------------------------------------
(* Programs with their functions at top level.  The top scopes of the stack *)
(* are those of the text, one by one; whatever lies below is of functions   *)
(* that are over.                                                           *)

Aligned ==
    ~nested => \A i \in 1..Len(nest) :
        /\ blocks[Len(blocks) - Len(nest) + i] = nest[i].own
        /\ i # 1 => nest[i].node = "loop"

LEMMA AlignedInit == Init => Aligned
  BY DEF Init, Aligned

\* A declaration changes the top scope and the top frame alike.
LEMMA AlignedBind ==
    ASSUME ScopesInv, Aligned, NEW n \in Name, NEW s \in Symbol, blocks # <<>>,
           blocks' = WithValue(n, s), Declare(n, s), UNCHANGED nested
    PROVE  Aligned'
<1>1. /\ blocks \in Seq(Scope) /\ Len(blocks) \in 1..Len(blocks)
      /\ nest \in Seq(Frame) /\ Len(nest) <= Len(blocks)
  BY DEF ScopesInv, TypeOK
<1>2. blocks' = Put(blocks, Len(blocks), n, s) /\ s \in Symbol \cup {Nothing}
  BY DEF WithValue, Put
<1>3. /\ Len(blocks') = Len(blocks)
      /\ \A j \in 1..Len(blocks) : j # Len(blocks) => blocks'[j] = blocks[j]
      /\ blocks'[Len(blocks)] = Rebound(blocks[Len(blocks)], n, s)
  BY <1>1, <1>2, PutFacts
<1>4. /\ Len(nest') = Len(nest)
      /\ \A i \in 1..Len(nest) : nest'[i].node = nest[i].node
      /\ \A i \in 1..Len(nest) : i # Len(nest) => nest'[i] = nest[i]
      /\ nest # <<>> => nest'[Len(nest)].own = Rebound(Top.own, n, s)
  BY <1>1, <1>2, DeclareFacts
<1>5. ASSUME ~nested, NEW i \in 1..Len(nest)
      PROVE  /\ blocks'[Len(blocks) - Len(nest) + i] = nest'[i].own
             /\ i # 1 => nest'[i].node = "loop"
  <2>1. /\ blocks[Len(blocks) - Len(nest) + i] = nest[i].own
        /\ i # 1 => nest[i].node = "loop"
    BY <1>5 DEF Aligned
  <2>2. CASE i = Len(nest)
    <3>1. Len(blocks) - Len(nest) + i = Len(blocks) /\ nest # <<>> /\ Top = nest[i]
      BY <1>1, <2>2 DEF Top
    <3>2. blocks[Len(blocks)] = Top.own
      BY <2>1, <3>1
    <3> QED
      BY <1>3, <1>4, <2>1, <2>2, <3>1, <3>2
  <2>3. CASE i # Len(nest)
    <3>1. /\ Len(blocks) - Len(nest) + i \in 1..Len(blocks)
          /\ Len(blocks) - Len(nest) + i # Len(blocks)
      BY <1>1, <2>3
    <3> QED
      BY <1>3, <1>4, <2>1, <2>3, <3>1
  <2> QED
    BY <2>2, <2>3
<1> QED
  BY <1>3, <1>4, <1>5 DEF Aligned

\* A construct that opens a scope puts it on both.
LEMMA AlignedEnter ==
    ASSUME ScopesInv, Aligned, NEW frame \in Frame,
           blocks' = Append(blocks, frame.own), nest' = Append(nest, frame),
           nested' \/ nested' = nested, ~nested' => nest = <<>> \/ frame.node = "loop"
    PROVE  Aligned'
<1>1. blocks \in Seq(Scope) /\ nest \in Seq(Frame) /\ Len(nest) <= Len(blocks)
  BY DEF ScopesInv, TypeOK
<1>2. frame.own \in Scope
  BY DEF Frame
<1>3. /\ Len(blocks') = Len(blocks) + 1 /\ blocks'[Len(blocks) + 1] = frame.own
      /\ \A j \in 1..Len(blocks) : blocks'[j] = blocks[j]
  BY <1>1, <1>2
<1>4. /\ Len(nest') = Len(nest) + 1 /\ nest'[Len(nest) + 1] = frame
      /\ \A i \in 1..Len(nest) : nest'[i] = nest[i]
  BY <1>1
<1>5. ASSUME ~nested', NEW i \in 1..(Len(nest) + 1)
      PROVE  /\ blocks'[Len(blocks') - Len(nest') + i] = nest'[i].own
             /\ i # 1 => nest'[i].node = "loop"
  <2>1. Len(blocks') - Len(nest') + i = Len(blocks) - Len(nest) + i
    BY <1>1, <1>3, <1>4
  <2>2. CASE i = Len(nest) + 1
    <3>1. Len(blocks) - Len(nest) + i = Len(blocks) + 1
      BY <1>1, <2>2
    <3>2. i # 1 => nest # <<>>
      BY <1>1, <2>2
    <3> QED
      BY <1>3, <1>4, <1>5, <2>1, <2>2, <3>1, <3>2
  <2>3. CASE i # Len(nest) + 1
    <3>1. i \in 1..Len(nest) /\ Len(blocks) - Len(nest) + i \in 1..Len(blocks)
      BY <1>1, <2>3
    <3>2. /\ blocks[Len(blocks) - Len(nest) + i] = nest[i].own
          /\ i # 1 => nest[i].node = "loop"
      BY <1>5, <3>1 DEF Aligned
    <3> QED
      BY <1>3, <1>4, <2>1, <3>1, <3>2
  <2> QED
    BY <2>2, <2>3
<1> QED
  BY <1>4, <1>5 DEF Aligned

LEMMA AlignedNext == ScopesInv /\ Aligned /\ [Next]_vars => Aligned'
<1> SUFFICES ASSUME ScopesInv, Aligned, [Next]_vars PROVE Aligned'
  OBVIOUS
<1> USE SymbolsAssumption DEF SymbolsAssumption
<1>a. /\ blocks \in Seq(Scope) /\ nest \in Seq(Frame) /\ Len(nest) <= Len(blocks)
      /\ nfn \in 0..MaxFns /\ nslot \in 0..MaxSlots
  BY DEF ScopesInv, TypeOK
<1>1. ASSUME NEW n \in Name, DeclareVariable(n) PROVE Aligned'
  <2>1. Slot(nslot + 1) \in Symbol
    BY <1>1, <1>a, SymbolFacts DEF DeclareVariable
  <2>2. /\ blocks # <<>> /\ blocks' = WithValue(n, Slot(nslot + 1))
        /\ Declare(n, Slot(nslot + 1)) /\ UNCHANGED nested
    BY <1>1 DEF DeclareVariable
  <2> QED
    BY <2>1, <2>2, AlignedBind
<1>2. ASSUME NEW n \in Name, NEW m \in Name, DeclarePointer(n, m) PROVE Aligned'
  <2>1. GetValue(m) # Nothing
    BY <1>2 DEF DeclarePointer
  <2>2. PICK k \in 1..Len(blocks) : GetValue(m) = blocks[k][m]
    BY <1>a, <2>1, FindType DEF GetValue
  <2>3. GetValue(m) \in Symbol \cup {Nothing}
    BY <1>a, FindType DEF GetValue
  <2>4. /\ blocks # <<>> /\ blocks' = WithValue(n, GetValue(m))
        /\ Declare(n, GetValue(m)) /\ UNCHANGED nested
    BY <1>2, <2>2 DEF DeclarePointer
  <2> QED
    BY <2>1, <2>3, <2>4, AlignedBind
<1>3. ASSUME NEW n \in Name, UseUnbound(n) PROVE Aligned'
  BY <1>3 DEF UseUnbound, Aligned
<1>4. ASSUME NEW n \in Name, NEW params \in SUBSET Name, BeginFunction(n, params)
      PROVE  Aligned'
  <2> DEFINE own == [m \in Name |-> IF m \in params THEN Slot(nslot + 1) ELSE Nothing]
             frame == [node |-> "func", name |-> n, fn |-> nfn + 1, from |-> 0,
                       own |-> own]
  <2>1. own \in Scope
    <3>1. params # {} => Slot(nslot + 1) \in Symbol
      BY <1>4, <1>a, SymbolFacts DEF BeginFunction
    <3> QED
      BY <3>1 DEF Scope
  <2>2. frame \in Frame /\ frame.own = own
    BY <1>4, <1>a, <2>1 DEF Frame, BeginFunction
  <2>3. blocks' = Append(blocks, own) /\ nest' = Append(nest, frame)
    BY <1>4 DEF BeginFunction, Pushed, Enter
  <2>4. nested' = (nested \/ nest # <<>>)
    BY <1>4 DEF BeginFunction
  <2> HIDE DEF own, frame
  <2>5. ~nested' => nest = <<>>
    BY <2>4
  <2>6. nested' \/ nested' = nested
    BY <2>4 DEF ScopesInv, TypeOK
  <2> QED
    BY <2>2, <2>3, <2>5, <2>6, AlignedEnter
<1>5. CASE EndFunction
  <2>1. /\ nest # <<>> /\ nest[Len(nest)].node = "func"
        /\ nest' = SubSeq(nest, 1, Len(nest) - 1) /\ UNCHANGED nested
    BY <1>5 DEF EndFunction, In, Top, Leave
  <2>2. Len(nest) \in 1..Len(nest) /\ Len(nest') = Len(nest) - 1
    BY <1>a, <2>1, DropFacts
  <2>3. ~nested => Len(nest) = 1
    BY <2>1, <2>2 DEF Aligned
  <2>4. ASSUME ~nested', NEW i \in 1..Len(nest') PROVE FALSE
    <3>1. Len(nest) = 1
      BY <2>1, <2>3, <2>4
    <3>2. Len(nest') = 0
      BY <2>2, <3>1
    <3> QED
      BY <2>4, <3>2
  <2> QED
    BY <2>4 DEF Aligned
<1>6. ASSUME NEW n \in Name, DeclareExtern(n) PROVE Aligned'
  <2>1. nested' = (nested \/ nest # <<>>) /\ nest' = nest
    BY <1>6 DEF DeclareExtern
  <2>2. ASSUME ~nested', NEW i \in 1..Len(nest') PROVE FALSE
    <3>1. nest = <<>>
      BY <2>1, <2>2
    <3>2. Len(nest') = 0
      BY <2>1, <3>1
    <3> QED
      BY <2>2, <3>2
  <2> QED
    BY <2>2 DEF Aligned
<1>7. CASE BeginLoop
  <2> DEFINE frame == [node |-> "loop", name |-> NoName, fn |-> 0,
                       from |-> nslot, own |-> EmptyScope]
  <2>1. frame \in Frame /\ frame.own = EmptyScope /\ frame.node = "loop"
    BY <1>a, EmptyScopeType DEF Frame
  <2>2. /\ blocks' = Append(blocks, EmptyScope) /\ nest' = Append(nest, frame)
        /\ nested' = nested
    BY <1>7 DEF BeginLoop, Pushed, Enter
  <2> HIDE DEF frame
  <2> QED
    BY <2>1, <2>2, AlignedEnter
<1>8. CASE EndLoop
  <2>1. /\ nest # <<>> /\ blocks' = SubSeq(blocks, 1, Len(blocks) - 1)
        /\ nest' = SubSeq(nest, 1, Len(nest) - 1) /\ UNCHANGED nested
    BY <1>8 DEF EndLoop, In, Leave, Popped
  <2>2. /\ Len(nest) \in 1..Len(nest) /\ Len(nest') = Len(nest) - 1
        /\ \A i \in 1..(Len(nest) - 1) : nest'[i] = nest[i]
    BY <1>a, <2>1, DropFacts
  <2>3. blocks # <<>>
    BY <1>a, <2>2
  <2>4. /\ Len(blocks) \in Nat /\ Len(blocks') = Len(blocks) - 1
        /\ \A i \in 1..(Len(blocks) - 1) : blocks'[i] = blocks[i]
    BY <1>a, <2>1, <2>3, DropFacts
  <2>5. ASSUME ~nested, NEW i \in 1..(Len(nest) - 1)
        PROVE  /\ blocks'[Len(blocks') - Len(nest') + i] = nest'[i].own
               /\ i # 1 => nest'[i].node = "loop"
    <3>1. /\ Len(blocks') - Len(nest') + i = Len(blocks) - Len(nest) + i
          /\ Len(blocks) - Len(nest) + i \in 1..(Len(blocks) - 1)
          /\ i \in 1..Len(nest)
      BY <1>a, <2>2, <2>4
    <3>2. /\ blocks[Len(blocks) - Len(nest) + i] = nest[i].own
          /\ i # 1 => nest[i].node = "loop"
      BY <2>5, <3>1 DEF Aligned
    <3> QED
      BY <2>2, <2>4, <3>1, <3>2
  <2> QED
    BY <2>1, <2>2, <2>5 DEF Aligned
<1>9. CASE EndModule
  BY <1>9 DEF EndModule, Aligned
<1>10. CASE UNCHANGED vars
  BY <1>10 DEF vars, Aligned
<1>11. CASE Finished
  BY <1>10, <1>11 DEF Finished
<1> QED
  BY <1>1, <1>2, <1>3, <1>4, <1>5, <1>6, <1>7, <1>8, <1>9, <1>10, <1>11 DEF Next

\* A name of the function and the loops under way stands for its innermost
\* declaration there, however much earlier functions left on the stack.
THEOREM OwnNamesHolds == Spec => []OwnNames
<1>1. ASSUME ScopesInv, Aligned, ~nested, NEW n \in Name, Own(n) # Nothing
      PROVE  GetValue(n) = Own(n)
  <2>1. blocks \in Seq(Scope) /\ nest \in Seq(Frame) /\ Len(nest) <= Len(blocks)
    BY <1>1 DEF ScopesInv, TypeOK
  <2>2. Len(OwnScopes) = Len(nest) /\ \A i \in 1..Len(nest) : OwnScopes[i] = nest[i].own
    BY <2>1 DEF OwnScopes
  <2>3. PICK k \in 1..Len(nest) :
            /\ Own(n) = nest[k].own[n]
            /\ \A j \in 1..Len(nest) : j > k => nest[j].own[n] = Nothing
    <3>1. Len(OwnScopes) \in Nat
      BY <2>1, <2>2
    <3>2. \E k \in 1..Len(OwnScopes) :
              /\ Own(n) = OwnScopes[k][n]
              /\ \A j \in 1..Len(OwnScopes) : j > k => OwnScopes[j][n] = Nothing
      BY <1>1, <3>1, FindFacts DEF Own
    <3> QED
      BY <2>2, <3>2
  <2> DEFINE below == Len(blocks) - Len(nest)
  <2>4. below \in Nat /\ below + k \in 1..Len(blocks)
    BY <2>1
  <2>5. blocks[below + k][n] = Own(n)
    BY <1>1, <2>3 DEF Aligned
  <2>6. ASSUME NEW j \in 1..Len(blocks), j > below + k PROVE blocks[j][n] = Nothing
    <3>1. j - below \in 1..Len(nest) /\ j - below > k /\ below + (j - below) = j
      BY <2>1, <2>4, <2>6
    <3>2. blocks[below + (j - below)] = nest[j - below].own
      BY <1>1, <3>1 DEF Aligned
    <3> QED
      BY <2>3, <3>1, <3>2
  <2>7. PICK m \in 1..Len(blocks) :
            /\ GetValue(n) = blocks[m][n] /\ blocks[m][n] # Nothing
            /\ \A j \in 1..Len(blocks) : j > m => blocks[j][n] = Nothing
    <3>1. Len(blocks) \in Nat /\ blocks[below + k][n] # Nothing
      BY <1>1, <2>1, <2>5
    <3> QED
      BY <2>4, <3>1, FindFacts DEF GetValue
  <2> HIDE DEF below
  <2>8. ~(m > below + k) /\ ~(below + k > m)
    BY <1>1, <2>4, <2>5, <2>6, <2>7
  <2>9. m = below + k
    BY <2>4, <2>7, <2>8
  <2> QED
    BY <2>5, <2>7, <2>9
<1>2. ScopesInv /\ Aligned => OwnNames
  BY <1>1 DEF OwnNames
<1> QED
  BY <1>2, AlignedInit, AlignedNext, ScopesHold, PTL DEF Spec

-----------------------------------------------------------------------------
(* What a loop declared.  Declarations are numbered: those of a loop have    *)
(* numbers above the ones there were when it began, and these are all that   *)
(* the scopes below it have.                                                 *)

SlotsCounted ==
    \A k \in 1..Len(blocks), n \in Name :
        blocks[k][n].kind = "slot" => blocks[k][n].id \in 1..nslot

EndedGone ==
    ~nested => \A k \in 1..Len(blocks), n \in Name :
        blocks[k][n].kind = "slot" => blocks[k][n].id \notin ended

OlderBelow ==
    ~nested => \A i \in 1..Len(nest) : nest[i].node = "loop" =>
        \A k \in 1..(Len(blocks) - Len(nest) + i - 1), n \in Name :
            blocks[k][n].kind = "slot" => blocks[k][n].id <= nest[i].from

SlotsInv == SlotsCounted /\ EndedGone /\ OlderBelow

LEMMA SlotsInit == Init => SlotsInv
  BY DEF Init, SlotsInv, SlotsCounted, EndedGone, OlderBelow

\* A declaration of a new slot or of what some scope has.
LEMMA SlotsBind ==
    ASSUME ScopesInv, SlotsInv, NEW n \in Name, NEW s \in Symbol, blocks # <<>>,
           blocks' = WithValue(n, s), Declare(n, s),
           nslot' = nslot + 1, UNCHANGED <<nested, ended>>,
           s.kind = "slot" => s.id \in 1..nslot',
           ~nested /\ s.kind = "slot" => s.id \notin ended
    PROVE  SlotsInv'
<1>1. /\ blocks \in Seq(Scope) /\ Len(blocks) \in 1..Len(blocks)
      /\ nest \in Seq(Frame) /\ Len(nest) <= Len(blocks) /\ nslot \in Nat
  BY DEF ScopesInv, TypeOK
<1>2. blocks' = Put(blocks, Len(blocks), n, s) /\ s \in Symbol \cup {Nothing}
  BY DEF WithValue, Put
<1>3. /\ Len(blocks') = Len(blocks)
      /\ \A j \in 1..Len(blocks) : j # Len(blocks) => blocks'[j] = blocks[j]
      /\ blocks'[Len(blocks)][n] = s
      /\ \A m \in Name : m # n => blocks'[Len(blocks)][m] = blocks[Len(blocks)][m]
  BY <1>1, <1>2, PutFacts
<1>4. /\ Len(nest') = Len(nest)
      /\ \A i \in 1..Len(nest) : /\ nest'[i].node = nest[i].node
                                 /\ nest'[i].from = nest[i].from
  BY <1>1, <1>2, DeclareFacts
<1>5. \A k \in 1..Len(blocks), m \in Name :
          blocks'[k][m] = blocks[k][m] \/ blocks'[k][m] = s
  BY <1>3
<1>6. SlotsCounted'
  <2>1. 1..nslot \subseteq 1..nslot'
    BY <1>1
  <2> QED
    BY <1>3, <1>5, <2>1 DEF SlotsInv, SlotsCounted
<1>7. EndedGone'
  BY <1>3, <1>5 DEF SlotsInv, EndedGone
<1>8. ASSUME ~nested, NEW i \in 1..Len(nest), nest[i].node = "loop",
             NEW k \in 1..(Len(blocks) - Len(nest) + i - 1), NEW m \in Name,
             blocks'[k][m].kind = "slot"
      PROVE  blocks'[k][m].id <= nest[i].from
  <2>1. k \in 1..Len(blocks) /\ k # Len(blocks)
    BY <1>1, <1>8
  <2>2. blocks'[k] = blocks[k]
    BY <1>3, <2>1
  <2> QED
    BY <1>8, <2>2 DEF SlotsInv, OlderBelow
<1>9. OlderBelow'
  BY <1>3, <1>4, <1>8 DEF OlderBelow
<1> QED
  BY <1>6, <1>7, <1>9 DEF SlotsInv

\* The name of a function that is put into the first scope is no slot.
LEMMA SlotsGlobal ==
    ASSUME ScopesInv, SlotsInv, NEW n \in Name, NEW f \in 1..MaxFns, blocks # <<>>,
           blocks' = WithGlobal(n, Function(f)), UNCHANGED <<nslot, ended>>,
           ~nested' => ~nested /\ 1..Len(nest') = {}
    PROVE  SlotsInv'
<1>1. blocks \in Seq(Scope)
  BY DEF ScopesInv, TypeOK
<1>2. /\ Len(blocks') = Len(blocks)
      /\ \A k \in 1..Len(blocks), m \in Name :
             blocks'[k][m] = blocks[k][m] \/ blocks'[k][m] = Function(f)
  BY <1>1, GlobalFacts
<1>3. Function(f).kind # "slot"
  BY DEF Function
<1>4. SlotsCounted'
  BY <1>2, <1>3 DEF SlotsInv, SlotsCounted
<1>5. EndedGone'
  BY <1>2, <1>3 DEF SlotsInv, EndedGone
<1>6. OlderBelow'
  BY DEF OlderBelow
<1> QED
  BY <1>4, <1>5, <1>6 DEF SlotsInv

LEMMA SlotsNext == ScopesInv /\ Aligned /\ SlotsInv /\ [Next]_vars => SlotsInv'
<1> SUFFICES ASSUME ScopesInv, Aligned, SlotsInv, [Next]_vars PROVE SlotsInv'
  OBVIOUS
<1> USE SymbolsAssumption DEF SymbolsAssumption
<1>a. /\ blocks \in Seq(Scope) /\ nest \in Seq(Frame) /\ Len(nest) <= Len(blocks)
      /\ nfn \in 0..MaxFns /\ nslot \in 0..MaxSlots /\ ended \subseteq 1..nslot
  BY DEF ScopesInv, TypeOK
<1>1. ASSUME NEW n \in Name, DeclareVariable(n) PROVE SlotsInv'
  <2>1. Slot(nslot + 1) \in Symbol
    BY <1>1, <1>a, SymbolFacts DEF DeclareVariable
  <2>2. /\ blocks # <<>> /\ blocks' = WithValue(n, Slot(nslot + 1))
        /\ Declare(n, Slot(nslot + 1)) /\ nslot' = nslot + 1
        /\ UNCHANGED <<nested, ended>>
    BY <1>1 DEF DeclareVariable
  <2>3. Slot(nslot + 1).id \in 1..nslot' /\ Slot(nslot + 1).id \notin ended
    <3>1. Slot(nslot + 1).id = nslot + 1
      BY DEF Slot
    <3>2. nslot + 1 \in 1..(nslot + 1) /\ nslot + 1 \notin ended
      BY <1>a
    <3> QED
      BY <2>2, <3>1, <3>2
  <2> QED
    BY <2>1, <2>2, <2>3, SlotsBind
<1>2. ASSUME NEW n \in Name, NEW m \in Name, DeclarePointer(n, m) PROVE SlotsInv'
  <2> DEFINE s == GetValue(m)
  <2>1. s # Nothing
    BY <1>2 DEF DeclarePointer
  <2>2. PICK k \in 1..Len(blocks) : s = blocks[k][m]
    BY <1>a, <2>1, FindType DEF GetValue
  <2>3. s \in Symbol \cup {Nothing}
    BY <1>a, FindType DEF GetValue
  <2>4. /\ blocks # <<>> /\ blocks' = WithValue(n, s) /\ Declare(n, s)
        /\ nslot' = nslot + 1 /\ UNCHANGED <<nested, ended>>
    BY <1>2, <2>2 DEF DeclarePointer
  <2> HIDE DEF s
  <2>5. s.kind = "slot" => s.id \in 1..nslot'
    <3>1. s.kind = "slot" => s.id \in 1..nslot
      BY <2>2 DEF SlotsInv, SlotsCounted
    <3>2. 1..nslot \subseteq 1..nslot'
      BY <1>a, <2>4
    <3> QED
      BY <3>1, <3>2
  <2>6. ~nested /\ s.kind = "slot" => s.id \notin ended
    BY <2>2 DEF SlotsInv, EndedGone
  <2> QED
    BY <2>1, <2>3, <2>4, <2>5, <2>6, SlotsBind
<1>3. ASSUME NEW n \in Name, UseUnbound(n) PROVE SlotsInv'
  BY <1>3 DEF UseUnbound, SlotsInv, SlotsCounted, EndedGone, OlderBelow
<1>4. ASSUME NEW n \in Name, NEW params \in SUBSET Name, BeginFunction(n, params)
      PROVE  SlotsInv'
  <2> DEFINE own == [m \in Name |-> IF m \in params THEN Slot(nslot + 1) ELSE Nothing]
             frame == [node |-> "func", name |-> n, fn |-> nfn + 1, from |-> 0,
                       own |-> own]
  <2>1. /\ blocks' = Append(blocks, own) /\ nest' = Append(nest, frame)
        /\ nslot' \in nslot..(nslot + 1)
        /\ params # {} => nslot' = nslot + 1
        /\ ended' = ended
    BY <1>4, <1>a DEF BeginFunction, Pushed, Enter
  <2>2. nested' = (nested \/ nest # <<>>)
    BY <1>4 DEF BeginFunction
  <2>3. ASSUME NEW m \in Name, own[m].kind = "slot"
        PROVE  own[m].id \in 1..nslot' /\ own[m].id \notin ended
    <3>1. own[m] = Slot(nslot + 1) /\ m \in params
      BY <2>3 DEF Nothing
    <3>2. own[m].id = nslot + 1
      BY <3>1 DEF Slot
    <3>3. nslot' = nslot + 1
      BY <2>1, <3>1
    <3> QED
      BY <1>a, <3>2, <3>3
  <2>4. frame.node = "func"
    OBVIOUS
  <2> HIDE DEF own, frame
  <2>5. /\ Len(blocks') = Len(blocks) + 1 /\ blocks'[Len(blocks) + 1] = own
        /\ \A j \in 1..Len(blocks) : blocks'[j] = blocks[j]
    BY <1>a, <2>1
  <2>6. 1..nslot \subseteq 1..nslot'
    BY <1>a, <2>1
  <2>7. ASSUME NEW k \in 1..Len(blocks'), NEW m \in Name, blocks'[k][m].kind = "slot"
        PROVE  /\ blocks'[k][m].id \in 1..nslot'
               /\ ~nested => blocks'[k][m].id \notin ended
    <3>1. CASE k = Len(blocks) + 1
      BY <2>3, <2>5, <2>7, <3>1
    <3>2. CASE k # Len(blocks) + 1
      <4>1. k \in 1..Len(blocks)
        BY <1>a, <2>5, <3>2
      <4>2. blocks'[k] = blocks[k]
        BY <2>5, <4>1
      <4>3. blocks[k][m].id \in 1..nslot
        BY <2>7, <4>1, <4>2 DEF SlotsInv, SlotsCounted
      <4>4. ~nested => blocks[k][m].id \notin ended
        BY <2>7, <4>1, <4>2 DEF SlotsInv, EndedGone
      <4> QED
        BY <2>6, <4>2, <4>3, <4>4
    <3> QED
      BY <3>1, <3>2
  <2>8. SlotsCounted'
    BY <2>7 DEF SlotsCounted
  <2>9. EndedGone'
    BY <2>1, <2>2, <2>7 DEF EndedGone
  <2>10. ASSUME ~nested', NEW i \in 1..Len(nest') PROVE nest'[i].node = "func"
    <3>1. nest = <<>>
      BY <2>2, <2>10
    <3>2. nest' = <<frame>>
      BY <2>1, <3>1
    <3> QED
      BY <2>4, <2>10, <3>2
  <2>11. OlderBelow'
    BY <2>10 DEF OlderBelow
  <2> QED
    BY <2>8, <2>9, <2>11 DEF SlotsInv
<1>5. CASE EndFunction
  <2>1. /\ nest # <<>> /\ Top \in Frame /\ Top.node = "func" /\ Top = nest[Len(nest)]
        /\ nest' = SubSeq(nest, 1, Len(nest) - 1)
    BY <1>5, <1>a DEF EndFunction, In, Top, Leave
  <2>2. Top.name \in Name /\ Top.fn \in 1..MaxFns /\ blocks # <<>>
    BY <1>a, <2>1 DEF Frame
  <2>3. /\ blocks' = WithGlobal(Top.name, Function(Top.fn))
        /\ UNCHANGED <<nslot, ended>> /\ nested' = nested
    BY <1>5 DEF EndFunction
  <2>4. Len(nest) \in 1..Len(nest) /\ Len(nest') = Len(nest) - 1
    BY <1>a, <2>1, DropFacts
  <2>5. ~nested => Len(nest) = 1
    BY <2>1, <2>4 DEF Aligned
  <2>6. ~nested' => ~nested /\ 1..Len(nest') = {}
    <3>1. CASE nested'
      BY <3>1
    <3>2. CASE ~nested'
      <4>1. ~nested
        BY <2>3, <3>2
      <4>2. Len(nest) = 1
        BY <2>5, <4>1
      <4>3. Len(nest') = 0
        BY <2>4, <4>2
      <4> QED
        BY <4>1, <4>3
    <3> QED
      BY <3>1, <3>2
  <2> QED
    BY <2>2, <2>3, <2>6, SlotsGlobal
<1>6. ASSUME NEW n \in Name, DeclareExtern(n) PROVE SlotsInv'
  <2>1. /\ nested' = (nested \/ nest # <<>>) /\ nest' = nest /\ nfn + 1 \in 1..MaxFns
        /\ nslot' = nslot /\ ended' = ended
    BY <1>6, <1>a DEF DeclareExtern
  <2>2. ~nested' => ~nested /\ nest = <<>>
    BY <2>1
  <2>3. ~nested' => ~nested /\ 1..Len(nest') = {}
    <3>1. CASE nested'
      BY <3>1
    <3>2. CASE ~nested'
      <4>1. Len(nest') = 0
        BY <2>1, <2>2, <3>2
      <4> QED
        BY <2>2, <3>2, <4>1
    <3> QED
      BY <3>1, <3>2
  <2>4. CASE blocks' = blocks
    <3>1. SlotsCounted'
      BY <2>1, <2>4 DEF SlotsInv, SlotsCounted
    <3>2. EndedGone'
      BY <2>1, <2>2, <2>4 DEF SlotsInv, EndedGone
    <3>3. OlderBelow'
      BY <2>3 DEF OlderBelow
    <3> QED
      BY <3>1, <3>2, <3>3 DEF SlotsInv
  <2>5. CASE blocks # <<>> /\ blocks' = WithGlobal(n, Function(nfn + 1))
    BY <2>1, <2>3, <2>5, SlotsGlobal
  <2>6. blocks = <<>> => blocks' = blocks
    BY <1>6 DEF DeclareExtern, WithGlobal
  <2>7. blocks # <<>> => blocks' = WithGlobal(n, Function(nfn + 1))
    BY <1>6 DEF DeclareExtern
  <2> QED
    BY <2>4, <2>5, <2>6, <2>7
<1>7. CASE BeginLoop
  <2> DEFINE frame == [node |-> "loop", name |-> NoName, fn |-> 0,
                       from |-> nslot, own |-> EmptyScope]
  <2>1. /\ blocks' = Append(blocks, EmptyScope) /\ nest' = Append(nest, frame)
        /\ UNCHANGED <<nslot, ended, nested>>
    BY <1>7 DEF BeginLoop, Pushed, Enter
  <2>2. frame.from = nslot
    OBVIOUS
  <2> HIDE DEF frame
  <2>3. /\ Len(blocks') = Len(blocks) + 1 /\ blocks'[Len(blocks) + 1] = EmptyScope
        /\ \A j \in 1..Len(blocks) : blocks'[j] = blocks[j]
    BY <1>a, <2>1
  <2>4. /\ Len(nest') = Len(nest) + 1 /\ nest'[Len(nest) + 1] = frame
        /\ \A i \in 1..Len(nest) : nest'[i] = nest[i]
    BY <1>a, <2>1
  <2>5. \A m \in Name : EmptyScope[m].kind # "slot"
    BY DEF EmptyScope, Nothing
  <2>6. ASSUME NEW k \in 1..Len(blocks'), NEW m \in Name, blocks'[k][m].kind = "slot"
        PROVE  k \in 1..Len(blocks) /\ blocks'[k] = blocks[k]
    <3>1. k # Len(blocks) + 1
      BY <2>3, <2>5, <2>6
    <3>2. k \in 1..Len(blocks)
      BY <1>a, <2>3, <3>1
    <3> QED
      BY <2>3, <3>2
  <2>7. SlotsCounted'
    BY <2>1, <2>6 DEF SlotsInv, SlotsCounted
  <2>8. EndedGone'
    BY <2>1, <2>6 DEF SlotsInv, EndedGone
  <2>9. ASSUME ~nested, NEW i \in 1..(Len(nest) + 1), nest'[i].node = "loop",
               NEW k \in 1..(Len(blocks') - Len(nest') + i - 1), NEW m \in Name,
               blocks'[k][m].kind = "slot"
        PROVE  blocks'[k][m].id <= nest'[i].from
    <3>1. k \in 1..Len(blocks') /\ k \in 1..(Len(blocks) - Len(nest) + i - 1)
      BY <1>a, <2>3, <2>4
    <3>2. k \in 1..Len(blocks) /\ blocks'[k] = blocks[k]
      BY <2>6, <2>9, <3>1
    <3>3. CASE i = Len(nest) + 1
      <4>1. blocks[k][m].id \in 1..nslot
        BY <2>9, <3>2 DEF SlotsInv, SlotsCounted
      <4> QED
        BY <1>a, <2>2, <2>4, <3>2, <3>3, <4>1
    <3>4. CASE i # Len(nest) + 1
      <4>1. i \in 1..Len(nest) /\ nest'[i] = nest[i]
        BY <1>a, <2>4, <3>4
      <4> QED
        BY <2>9, <3>1, <3>2, <4>1 DEF SlotsInv, OlderBelow
    <3> QED
      BY <3>3, <3>4
  <2>10. OlderBelow'
    BY <2>1, <2>4, <2>9 DEF OlderBelow
  <2> QED
    BY <2>7, <2>8, <2>10 DEF SlotsInv
<1>8. CASE EndLoop
  <2>1. /\ nest # <<>> /\ nest[Len(nest)].node = "loop" /\ Top = nest[Len(nest)]
        /\ blocks' = SubSeq(blocks, 1, Len(blocks) - 1)
        /\ nest' = SubSeq(nest, 1, Len(nest) - 1)
        /\ ended' = ended \cup (Top.from + 1)..nslot
        /\ UNCHANGED <<nslot, nested>>
    BY <1>8 DEF EndLoop, In, Top, Leave, Popped
  <2>2. /\ Len(nest) \in 1..Len(nest) /\ Len(nest') = Len(nest) - 1
        /\ \A i \in 1..(Len(nest) - 1) : nest'[i] = nest[i]
    BY <1>a, <2>1, DropFacts
  <2>3. blocks # <<>>
    BY <1>a, <2>2
  <2>4. /\ Len(blocks) \in Nat /\ Len(blocks') = Len(blocks) - 1
        /\ \A i \in 1..(Len(blocks) - 1) : blocks'[i] = blocks[i]
    BY <1>a, <2>1, <2>3, DropFacts
  <2>5. \A k \in 1..Len(blocks') : k \in 1..Len(blocks) /\ blocks'[k] = blocks[k]
    BY <2>4
  <2>6. SlotsCounted'
    BY <2>1, <2>5 DEF SlotsInv, SlotsCounted
  <2>7. ASSUME ~nested, NEW k \in 1..Len(blocks'), NEW m \in Name,
               blocks'[k][m].kind = "slot"
        PROVE  blocks'[k][m].id \notin ended'
    <3>1. k \in 1..(Len(blocks) - Len(nest) + Len(nest) - 1)
      BY <1>a, <2>2, <2>4
    <3>2. k \in 1..Len(blocks) /\ blocks'[k] = blocks[k]
      BY <2>5
    <3>3. blocks[k][m].id <= Top.from
      BY <2>1, <2>2, <2>7, <3>1, <3>2 DEF SlotsInv, OlderBelow
    <3>4. blocks[k][m].id \in 1..nslot /\ blocks[k][m].id \notin ended
      BY <2>7, <3>2 DEF SlotsInv, SlotsCounted, EndedGone
    <3>5. Top.from \in Nat
      BY <1>a, <2>1, <2>2 DEF Frame
    <3>6. blocks[k][m].id \notin (Top.from + 1)..nslot
      BY <1>a, <3>3, <3>4, <3>5
    <3> QED
      BY <2>1, <3>2, <3>4, <3>6
  <2>8. EndedGone'
    BY <2>1, <2>7 DEF EndedGone
  <2>9. ASSUME ~nested, NEW i \in 1..(Len(nest) - 1), nest'[i].node = "loop",
               NEW k \in 1..(Len(blocks') - Len(nest') + i - 1), NEW m \in Name,
               blocks'[k][m].kind = "slot"
        PROVE  blocks'[k][m].id <= nest'[i].from
    <3>1. /\ k \in 1..Len(blocks') /\ k \in 1..(Len(blocks) - Len(nest) + i - 1)
          /\ i \in 1..Len(nest)
      BY <1>a, <2>2, <2>4
    <3>2. blocks'[k] = blocks[k] /\ nest'[i] = nest[i]
      BY <2>2, <2>5, <3>1
    <3> QED
      BY <2>9, <3>1, <3>2 DEF SlotsInv, OlderBelow
  <2>10. OlderBelow'
    BY <2>1, <2>2, <2>9 DEF OlderBelow
  <2> QED
    BY <2>6, <2>8, <2>10 DEF SlotsInv
<1>9. CASE EndModule
  BY <1>9 DEF EndModule, SlotsInv, SlotsCounted, EndedGone, OlderBelow
<1>10. CASE UNCHANGED vars
  BY <1>10 DEF vars, SlotsInv, SlotsCounted, EndedGone, OlderBelow
<1>11. CASE Finished
  BY <1>10, <1>11 DEF Finished
<1> QED
  BY <1>1, <1>2, <1>3, <1>4, <1>5, <1>6, <1>7, <1>8, <1>9, <1>10, <1>11 DEF Next

\* No name stands for a variable of a loop that is over.
THEOREM LoopNamesEndHolds == Spec => []LoopNamesEnd
<1>1. ASSUME ScopesInv, SlotsInv, ~nested, NEW n \in Name, GetValue(n).kind = "slot"
      PROVE  GetValue(n).id \notin ended
  <2>1. blocks \in Seq(Scope)
    BY <1>1 DEF ScopesInv, TypeOK
  <2>2. GetValue(n) # Nothing
    BY <1>1 DEF Nothing
  <2>3. PICK k \in 1..Len(blocks) : GetValue(n) = blocks[k][n]
    BY <2>1, <2>2, FindType DEF GetValue
  <2> QED
    BY <1>1, <2>3 DEF SlotsInv, EndedGone
<1>2. ScopesInv /\ SlotsInv => LoopNamesEnd
  BY <1>1 DEF LoopNamesEnd
<1> QED
  BY <1>2, AlignedInit, AlignedNext, SlotsInit, SlotsNext, ScopesHold, PTL DEF Spec
=============================================================================
