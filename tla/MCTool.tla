-------------------------------- MODULE MCTool --------------------------------
(* Tool for TLC: command lines spelled from what they mean, all short lines   *)
(* of awkward words, project files and what they become by one slip of the    *)
(* hand, and the grammar of JSON the reader is compared with.                 *)
EXTENDS Tool

\* Lines spelled from a meaning: values that look like something else, in every
\* order and form.
W(piece) == <<piece>>
AwkwardValues == {W("x"), <<"-", "-">>, W("info"), <<"-", "-", "url">>, <<"-", "v">>, <<"[", "y", "]">>,
    <<"[", "[", "a", "a", "]", "]">>, <<"[", "[", "a", "b", "]", "]">>, <<>>}
Packages == {W("y"), W("build"), W("-"), <<"-", "5">>, <<"a", ".", "b">>}
Spelled(name, letter, value) ==
    {<< <<"-", "-", name>>, value >>, << <<"-", "-", name, "=">> \o value >>}
    \cup IF letter = "" THEN {}
         ELSE {<< <<"-", letter>>, value >>} \cup IF value = <<>> THEN {} ELSE {<< <<"-", letter>> \o value >>}
Orders(p, q, r) == {p \o q \o r, q \o p \o r, q \o r \o p, r \o q \o p}

Files == {<<>>, <<W("x")>>, <<W("x"), <<"-", "5">>, W("y")>>, << <<"[", "x", "]">>, W("build") >>,
          << <<"[", "[", "a", "a", "]", "]">> >>, <<W("init")>>, <<W("x"), W("init"), W("y")>>, <<W("y"), W("info")>>}
Empty(cmd) == [n \in {Options[cmd][i].name : i \in DOMAIN Options[cmd]} |-> <<>>]
InitMeaning(p, v, u) ==
    [command |-> "init",
     given |-> [Empty("init") EXCEPT !["package_name"] = <<p>>, !["version"] = <<v>>, !["url"] = <<u>>]]
BuildMeaning(files, o) ==
    [command |-> "build", given |-> [Empty("build") EXCEPT !["file"] = files, !["output"] = <<o>>]]

Start1(words, meaning, lines, text1) == [line |-> words, meant |-> meaning, typed |-> lines, project |-> text1]
SpelledInits ==
    {Start1(<<W("init")>> \o words, InitMeaning(c[1], c[2], W("x")), <<>>, NoProject) :
        <<words, c>> \in UNION {{<<w, c>> : w \in UNION {Orders(<<c[1]>>, v, u) :
            v \in Spelled("version", "v", c[2]), u \in Spelled("url", "", W("x"))}} : c \in Packages \X AwkwardValues}}
SpelledBuilds ==
    {Start1(<<W("build")>> \o words, BuildMeaning(c[1], c[2]), <<>>, NoProject) :
        <<words, c>> \in UNION {{<<w, c>> : w \in UNION {Orders(<<>>, c[1], o) : o \in Spelled("output", "o", c[2])}} :
            c \in Files \X AwkwardValues}}

\* All lines of three words.
Vocabulary == {W("init"), W("build"), W("info"), <<"-", "-">>, <<"+", "+">>, <<"-", "v">>, <<"-", "v", "x">>,
    <<"-", "-", "url">>, <<"-", "-", "url", "=", "x">>, <<"-", "h">>, <<"-", "h", "v">>, <<"-", "o">>, W("x"),
    <<"init", ".", "build">>, <<"info", ".", "init">>, <<"-", "-", "init", ".">>, <<"-", "-", "init", ".", "v", "=", "x">>,
    <<"-", "-", "init", ".", "url">>, <<"-", "-", "init", ".", "x", "=", "y">>, <<"[", "x", ",", "y", "]">>}
ShortLines == {Start1(words, NoMeaning, <<>>, NoProject) : words \in UNION {[1..n -> Vocabulary] : n \in 0..3}}

\* Answers, with every character the writer treats in its own way.
Answers == {<<>>, W("y"), <<Quote, "y">>, <<"y", Backslash>>, <<"us", "\n">>, <<"y", Nul, "y">>, <<Backslash, "n", "/">>}
Typing ==
    {Start1(<<W("init"), W("y")>>, NoMeaning, [i \in 1..7 |-> IF i = k THEN c ELSE W("x")], NoProject) :
        k \in 1..7, c \in Answers}
    \cup {Start1(<<W("init"), W("y"), << "-", "e">>, path \o ProjectFile>>, NoMeaning, <<>>, NoProject) :
        path \in {<<>>, <<".", "/">>, W("x")}}
    \cup {Start1(<<W("init"), <<"y", Quote>>, <<"-", "v", "1">>>>, NoMeaning, SubSeq(<<W("x"), W("y"), <<>>, W("x")>>, 1, n), NoProject) : n \in 0..4}

\* Project files: one init wrote, others by hand, and all of them with a
\* character left out, put in, exchanged, or the rest missing.
OnceWritten == Written([i \in 1..16 |-> IF i % 2 = 1 THEN <<Member[(i + 1) \div 2]>> ELSE IF i = 4 THEN <<Quote, "us">> ELSE W("x")])
ByHand == { OnceWritten,
    <<"[", Quote, Backslash, "u", "D", "8", "0", "0", Backslash, "u", "D", "C", "0", "0", Quote, "]">>,
    <<"{", Quote, "a", Quote, ":", " ", "{", "}", ",", Quote, Quote, ":", "[", "1", ",", "2", "]", "}">>,
    <<"[", "-", "1", ".", "0", "5", "e", "+", "1", "0", ",", "0", "]">>,
    <<"{", Quote, "a", Quote, ":", "[", "{", Quote, "b", Quote, ":", "1", "}", ",", "[", "]", "]", "}">> }
Characters == {"{", "}", "[", "]", ":", ",", Quote, Backslash, "null", "0", "1", "-", " ", "a", Nul, "\n"}
Cut(t, i, j) == SubSeq(t, 1, i) \o SubSeq(t, j, Len(t))
Slips(t) ==
    {t} \cup {SubSeq(t, 1, i) : i \in 0..Len(t)} \cup {Cut(t, i - 1, i + 1) : i \in DOMAIN t}
    \cup {SubSeq(t, 1, i) \o <<c>> \o SubSeq(t, j, Len(t)) : <<i, j, c>> \in
             {<<i, j, c>> \in (0..Len(t)) \X (1..(Len(t) + 1)) \X Characters : j \in {i + 1, i + 2}}}
Projects == UNION {Slips(t) : t \in ByHand} \cup UNION {[1..n -> Characters \ {Nul, "\n", Backslash}] : n \in 0..3}
Reads == {Start1(<<W("info")>>, NoMeaning, <<>>, t) : t \in Projects \cup {NoProject}}

MCStarts == SpelledInits \cup SpelledBuilds \cup ShortLines \cup Typing \cup Reads

-----------------------------------------------------------------------------
\* The grammar of JSON: where a part that starts at a position can end.
EscapeLetters == {Quote, Backslash, "/", "b", "f", "n", "r", "t"}
HexDigits == {"0", "1", "2", "5", "8", "9", "a", "e", "A", "C", "D", "E", "F"}
Ends1(t) ==
    LET c(i) == IF i <= Len(t) THEN t[i] ELSE "end"
        hex(i) == \A k \in i..(i + 3) : c(k) \in HexDigits
        lead(i) == c(i) = "D" /\ c(i + 1) \in {"8", "9", "a", "A"}
        trail(i) == c(i) = "D" /\ c(i + 1) \in {"C", "D", "e", "E", "F"}
        part == {"blanks", "value", "members", "member", "elements", "more", "chars", "digits", "integer", "fraction", "exponent"}
        e[p \in part, i \in 1..(Len(t) + 13)] ==
          CASE p = "blanks" -> IF c(i) \in {" ", "\n", "\t", "\r"} THEN e["blanks", i + 1] ELSE {i}
            [] p = "value" ->
                 CASE c(i) \in {"null", "true", "false"} -> {i + 1}
                   [] c(i) = Quote -> e["chars", i + 1]
                   [] c(i) = "{" -> UNION {IF c(j) = "}" THEN {j + 1} ELSE e["members", j] : j \in e["blanks", i + 1]}
                   [] c(i) = "[" -> UNION {IF c(j) = "]" THEN {j + 1} ELSE e["elements", j] : j \in e["blanks", i + 1]}
                   [] OTHER -> LET n == IF c(i) = "-" THEN i + 1 ELSE i IN
                               UNION {e["exponent", k] : k \in UNION {e["fraction", j] : j \in e["integer", n]}}
            [] p = "member" ->
                 IF c(i) # Quote THEN {}
                 ELSE UNION {e["value", m] : m \in UNION {e["blanks", k + 1] : k \in
                          {k \in UNION {e["blanks", j] : j \in e["chars", i + 1]} : c(k) = ":"}}}
            [] p = "members" ->
                 UNION {IF c(j) = "}" THEN {j + 1} ELSE IF c(j) # "," THEN {}
                        ELSE UNION {e["members", k] : k \in e["blanks", j + 1]} :
                        j \in UNION {e["blanks", m] : m \in e["member", i]}}
            [] p = "elements" ->
                 UNION {IF c(j) = "]" THEN {j + 1} ELSE IF c(j) # "," THEN {}
                        ELSE UNION {e["elements", k] : k \in e["blanks", j + 1]} :
                        j \in UNION {e["blanks", m] : m \in e["value", i]}}
            [] p = "chars" ->
                 CASE c(i) = Quote -> {i + 1}
                   [] c(i) = Backslash /\ c(i + 1) \in EscapeLetters -> e["chars", i + 2]
                   [] c(i) = Backslash /\ c(i + 1) = "u" /\ hex(i + 2) /\ ~ lead(i + 2) -> e["chars", i + 6]
                   [] c(i) = Backslash /\ c(i + 1) = "u" /\ hex(i + 2) /\ lead(i + 2)
                         /\ c(i + 6) = Backslash /\ c(i + 7) = "u" /\ hex(i + 8) /\ trail(i + 8) -> e["chars", i + 12]
                   [] c(i) \in {Backslash, "end", "\n", "\t", "\r", "bs", "ff", "us"} -> {}
                   [] OTHER -> e["chars", i + 1]
            [] p = "digits" -> IF c(i) \in {"0", "1", "2", "5", "8"} THEN {i + 1} \cup e["digits", i + 1] ELSE {}
            [] p = "integer" -> IF c(i) = "0" THEN {i + 1} ELSE e["digits", i]
            [] p = "fraction" -> {i} \cup IF c(i) = "." THEN e["digits", i + 1] ELSE {}
            [] p = "exponent" ->
                 {i} \cup IF c(i) \notin {"e", "E"} THEN {}
                          ELSE e["digits", IF c(i + 1) \in {"+", "-"} THEN i + 2 ELSE i + 1]
            [] OTHER -> {}
    IN UNION {e["blanks", k] : k \in UNION {e["value", j] : j \in e["blanks", 1]}}

\* The reader takes exactly the texts of the grammar, up to the first NUL: what
\* is cut short anywhere, has something behind its end, a comma too many or a
\* bracket of the other kind, is an error and is not shown.
ReadsJson ==
    phase = "reading" /\ ~ Reading =>
        (error = kParseErrorNone <=> Len(CStr(text)) + 1 \in Ends1(CStr(text)))
=============================================================================
