----------------------------- MODULE ParserItems ------------------------------
(***************************************************************************)
(* What each state of the tables of src/src/parser.cpp knows: its items, the *)
(* productions of parser.y that may be under way in it, each with how much  *)
(* of its right side has been seen.  bison threw the items away when it      *)
(* wrote the tables; here they are computed again from the two of them, and  *)
(* the assumption at the end, which TLC evaluates, says that the tables      *)
(* follow them.                                                             *)
(***************************************************************************)
EXTENDS Integers, Sequences, FiniteSets, ParseTables, Grammar, Phrases

States == 0..(Len(yypact) - 1)
Rules == 1..Len(Productions)
Lhs(rule) == Productions[rule].lhs
Rhs(rule) == Productions[rule].rhs
Symbols == {yytname[i] : i \in DOMAIN yytname}

\* An item: in this state, so many symbols of the right side of the rule have
\* been seen.
Item(state, rule, seen) == [state |-> state, rule |-> rule, seen |-> seen]
Unfinished(item) == item.seen < Len(Rhs(item.rule))
Expected(item) == Rhs(item.rule)[item.seen + 1]

\* The states the tables lead to from a state by a symbol.
LeadsTo(state, symbol) ==
    IF symbol \in Tokens
    THEN IF NeedsToken(state) /\ ActionOn(state, symbol) > 0
         THEN {ActionOn(state, symbol)} ELSE {}
    ELSE {Goto(state, rule) : rule \in {r \in Rules : Lhs(r) = symbol}}

\* What follows from an item: a production of the symbol it expects may begin in
\* the same state, and the state behind that symbol has seen one more.
Follows(item) ==
    {Item(item.state, rule, 0) : rule \in {r \in Rules : Lhs(r) = Expected(item)}}
        \cup {Item(next, item.rule, item.seen + 1) : next \in LeadsTo(item.state, Expected(item))}

\* All items, from the first rule in the first state on.  No chain of new items
\* is longer than Rounds: the assumption below would fail.
Rounds == 40
ItemsWithin[n \in 0..Rounds] ==
    IF n = 0 THEN {Item(0, 1, 0)}
    ELSE LET before == ItemsWithin[n - 1]
         IN before \cup UNION {Follows(i) : i \in {j \in before : Unfinished(j)}}
LRItems == ItemsWithin[Rounds]

\* A state may stand on top of another: each item that has seen a symbol has
\* seen it there, and the rest of what it has seen is in an item below.
Carries(below, state) ==
    \A i \in LRItems :
        i.state = state /\ i.seen > 0 =>
            /\ Item(below, i.rule, i.seen - 1) \in LRItems
            /\ Rhs(i.rule)[i.seen] = EnteredBy(state)

\* A state that may be pushed for a symbol, onto another.
Enters(below, state, symbol) ==
    /\ state \in States \ {0}
    /\ EnteredBy(state) = symbol
    /\ Carries(below, state)

\* A reduction by the rule may happen in the state.
Completes(state, rule) ==
    /\ rule \in Rules \ {1}
    /\ At(yyr2, rule) = Len(Rhs(rule))
    /\ Item(state, rule, Len(Rhs(rule))) \in LRItems

\* What the tables decide to do in a state does what its items say.
Follow(state, decision) ==
    /\ decision \in Int
    /\ decision < 0 => Completes(state, - decision)

\* The tables in the repository follow the items of the grammar beside them:
\* states are entered by the symbol items expect; who reduces by a rule has seen
\* all of it; where a rule begins, its left side leads on; only the first state
\* begins the first rule, and nothing else has seen nothing in it.
ASSUME TablesFollowItems ==
    /\ LRItems \subseteq [state : States, rule : Rules, seen : Nat]
    /\ \A i \in LRItems : i.seen <= Len(Rhs(i.rule))
    /\ \A i \in LRItems : i.state = 0 => i.seen = 0
    /\ \A i \in LRItems : i.rule = 1 /\ i.seen = 0 => i.state = 0
    /\ \A s \in States \ {YYFINAL} :
        IF NeedsToken(s)
        THEN \A t \in Tokens :
                /\ Follow(s, ActionOn(s, t))
                /\ ActionOn(s, t) > 0 => Enters(s, ActionOn(s, t), t)
        ELSE Follow(s, Default(s)) /\ Default(s) <= 0
    /\ \A i \in LRItems :
        i.seen = 0 /\ i.rule # 1 =>
            Enters(i.state, Goto(i.state, i.rule), Lhs(i.rule))
    /\ DOMAIN Productions = Rules /\ \A r \in Rules : Rhs(r) \in Seq(Symbols)
    /\ "$end" \in Tokens /\ YYFINAL \in States
    /\ Item(YYFINAL, 1, 2) \in LRItems /\ Rhs(1) = <<"program", "$end">>

\* No symbol is called like the token that was not read.
ASSUME SymbolsNamed == "" \notin Tokens
-----------------------------------------------------------------------------
\* The places of a right side up to each of which so many symbols are not
\* punctuation.
Passed(rhs) == [p \in 0..Len(rhs) |-> Cardinality({k \in 1..p : rhs[k] \notin Punctuation})]

\* The symbols whose one word is the text of their value.
Worded(symbol) ==
    symbol = "op" \/ symbol \in Tokens \ (DOMAIN Meaning \cup Silent)

\* The values that become children of the node an action makes.
Kids(act) == IF act.how \in {"named", "type"} THEN Tail(act.kids) ELSE act.kids

\* The text of the node an action makes is not that of a value.
FixedText(act) == act.how \in {"new", "wrapped"}

\* A part of a node is written where the right side has the symbol.
PartFits(part, act, symbol, p) ==
    IF part.part = "child"
    THEN part.child \in DOMAIN Kids(act) /\ Kids(act)[part.child] = p /\ symbol \notin Tokens
    ELSE IF part.part = "word" THEN symbol \in DOMAIN Meaning /\ Meaning[symbol] = part.word
    ELSE IF FixedText(act) THEN symbol \in DOMAIN Meaning /\ Meaning[symbol] = act.text
    ELSE act.kids[1] = p /\ Worded(symbol)

\* A node is read as the right side it was made of, but for punctuation.
MakesAll(rhs, act) ==
    LET frame == Frame(act.kind, Len(Kids(act)))
    IN /\ Passed(rhs)[Len(rhs)] = Len(frame)
       /\ \A i \in DOMAIN Kids(act) : rhs[Kids(act)[i]] \notin Tokens
       /\ \A p \in 1..Len(rhs) :
            rhs[p] \in Punctuation \/ PartFits(frame[Passed(rhs)[p]], act, rhs[p], p)

\* All but some of a right side are punctuation.
OnlyAt(rhs, places) == \A p \in 1..Len(rhs) : p \in places \/ rhs[p] \in Punctuation

\* What the action of a rule leaves out of the right side is punctuation.
LeavesNothingOut(rule) ==
    LET rhs == Rhs(rule)
        act == Productions[rule].act
    IN CASE act.how = "pass" -> act.kids[1] \in 1..Len(rhs) /\ rhs[act.kids[1]] \notin Tokens
                                /\ OnlyAt(rhs, {act.kids[1]})
         [] act.how = "push" -> /\ act.kids[1] \in 2..Len(rhs) /\ rhs[act.kids[1]] \notin Tokens
                                /\ OnlyAt(rhs, {1, act.kids[1]})
                                /\ rhs[1] = Lhs(rule) /\ Lhs(rule) \in DOMAIN ListOf
         [] OTHER -> MakesAll(rhs, act)

\* What a list collects is pushed onto it or begins it.
CollectsList(rule) ==
    LET act == Productions[rule].act
    IN Lhs(rule) \in DOMAIN ListOf =>
        \/ act.how = "push"
        \/ act.how = "pass" /\ act.kids[1] = 1 /\ Rhs(rule)[1] = Lhs(rule)
        \/ act.how = "new" /\ act.kind = ListOf[Lhs(rule)]

\* An operator without a precedence has a value with the text of its token.
NamesOperator(rule) ==
    LET act == Productions[rule].act
    IN Lhs(rule) = "op" =>
        /\ act.how = "new" /\ Len(Rhs(rule)) = 1
        /\ Rhs(rule)[1] \in DOMAIN Meaning /\ Meaning[Rhs(rule)[1]] = act.text

\* The actions of parser.y lose nothing of a right side but punctuation.
ASSUME RulesLeaveNothingOut ==
    /\ \A rule \in Rules \ {1} :
        /\ LeavesNothingOut(rule) /\ CollectsList(rule) /\ NamesOperator(rule)
        /\ Productions[rule].act.how \in {"pass", "new", "named", "push", "wrapped", "type"}
        /\ Productions[rule].act.kind \in STRING /\ Productions[rule].act.text \in STRING
        /\ Productions[rule].act.kids \in Seq(1..Len(Rhs(rule)))
        /\ Productions[rule].act.how # "new" => Productions[rule].act.kids # <<>>
        /\ Productions[rule].act.how \in {"named", "type"} =>
             Worded(Rhs(rule)[Productions[rule].act.kids[1]])
        /\ Productions[rule].act.how = "wrapped" => Productions[rule].act.text = ""
        /\ Productions[rule].act.how = "type" => Productions[rule].act = TypeNamed
        /\ Lhs(rule) \notin Tokens

\* Only tokens are punctuation or stand for one word; lists and operators without a
\* precedence are no tokens.
ASSUME SymbolsSpell ==
    /\ Punctuation \subseteq Tokens /\ DOMAIN Meaning \subseteq Tokens
    /\ DOMAIN Meaning \cap Silent = {}
    /\ \A s \in DOMAIN Meaning : Meaning[s] \in STRING
    /\ "op" \notin Tokens /\ DOMAIN ListOf \cap (Tokens \cup {"op"}) = {}

\* What the parser writes into a tree of its own accord are words like the others.
ASSUME OwnWords == {"block", "type", "unregistered"} \subseteq STRING
=============================================================================
