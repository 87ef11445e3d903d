--------------------------------- MODULE Tool ---------------------------------
(***************************************************************************)
(* The package tool as its user meets it: main of src/src/acli.cpp reads the *)
(* command line (CommandLine), asks for what init was not told, ThInit       *)
(* writes the project file with the writer of include/rapidjson/writer.h,    *)
(* and ThInfo, in a later run inside the package, reads it back (JsonReader).*)
(* Here every file can be written; what happens otherwise, and with several  *)
(* processes, is module Package's.                                           *)
(***************************************************************************)
EXTENDS CommandLine, JsonReader

CONSTANT
    Starts   \* what may be done: [line, meant, typed, project], where typed are
             \* the lines on standard input, project is a file written by hand or
             \* NoProject, and meant is what a line was spelled from, or NoMeaning

ASSUME StartsAssumption ==
    \A s \in Starts : s.line \in Seq(Seq(STRING)) /\ s.typed \in Seq(Seq(STRING))

VARIABLES
    phase,    \* what main is at
    typed,    \* the lines not yet read
    answers,  \* main's strings
    project,  \* ThlangProject.json
    seen,     \* what info ended with
    shown,    \* the strings it showed
    line,     \* history: the arguments of this run
    meant     \* history: what they were spelled from

tvars == <<cvars, jvars, phase, typed, answers, project, seen, shown, line, meant>>
mainvars == <<typed, answers, project, seen, shown, line, meant>>

NoProject == <<"no project">>
NoMeaning == [command |-> "none"]

\* the members of the project file, and the option each comes from
Member == <<"package_name", "version", "description", "entry_point", "author",
            "git_repository", "url", "license">>
Field == <<"package_name", "version", "description", "entry-point", "author",
           "git-repository", "url", "license">>
Default(f) == CASE f = "version" -> <<"1.0.0">> [] f = "entry-point" -> <<"main.th">>
                [] f = "license" -> <<"MIT">> [] OTHER -> <<>>

\* c_str(): up to the first NUL
CStr(chars) == LET n == FirstOf(chars, Nul) IN IF n = 0 THEN chars ELSE SubSeq(chars, 1, n - 1)

Idle(t) == /\ text = t /\ at = 1 /\ frames = <<>> /\ expect = "nothing" /\ token = <<>>
           /\ stack = <<>> /\ error = kParseErrorNone

Init ==
    \E s \in Starts :
        /\ CInit(s.line) /\ Idle(<<>>)
        /\ phase = "line" /\ typed = s.typed /\ project = s.project
        /\ answers = [f \in Range(Field) |-> <<>>] /\ seen = "nothing" /\ shown = <<>>
        /\ line = s.line /\ meant = s.meant

-----------------------------------------------------------------------------
ParseLine == phase = "line" /\ CNext /\ UNCHANGED <<jvars, phase, mainvars>>

\* CLI11_PARSE returns from main after an error; then the first command given acts
Dispatch ==
    /\ phase = "line" /\ outcome # "parsing"
    /\ phase' = IF outcome = "parsed" /\ Acting \in {"init", "info"} THEN Acting ELSE "ended"
    /\ answers' = IF outcome = "parsed" /\ Acting = "init"
                  THEN [f \in Range(Field) |-> IF results["init"][f] = <<>> THEN <<>> ELSE results["init"][f][1]]
                  ELSE answers
    /\ UNCHANGED <<cvars, jvars, typed, project, seen, shown, line, meant>>

\* an empty string is asked for, in the order of the members; at the end of the
\* input the line is empty
Unasked == {i \in DOMAIN Field : i > 1 /\ answers[Field[i]] = <<>>}

Ask ==
    /\ phase = "init"
    /\ answers' = [f \in Range(Field) |->
          LET lacking(i) == Cardinality({j \in Unasked : j <= i})
              i == CHOOSE k \in DOMAIN Field : Field[k] = f
              said == IF i \in Unasked /\ lacking(i) <= Len(typed) THEN typed[lacking(i)] ELSE answers[f]
          IN IF said = <<>> THEN Default(f) ELSE said]
    /\ typed' = SubSeq(typed, Cardinality(Unasked) + 1, Len(typed))
    /\ phase' = "write"
    /\ UNCHANGED <<cvars, jvars, project, seen, shown, line, meant>>

\* Writer: StartObject, then names and values in turn, each with its Prefix, and
\* EndObject
\* slip: a backslash is written as it is
EscapedPlain(c) ==
    CASE c = Quote -> <<Backslash, c>>
      [] c = "us" -> <<Backslash, "u", "0", "0", "1", "F">>
      [] c \in Control \ {"us"} -> <<Backslash, CHOOSE e \in DOMAIN Escape : Escape[e] = c>>
      [] OTHER -> <<c>>
Escaped(c) ==
    CASE c \in {Quote, Backslash} -> <<Backslash, c>>
      [] c = "us" -> <<Backslash, "u", "0", "0", "1", "F">>
      [] c \in Control \ {"us"} -> <<Backslash, CHOOSE e \in DOMAIN Escape : Escape[e] = c>>
      [] OTHER -> <<c>>
WriteString(chars) == <<Quote>> \o FlattenSeq([i \in DOMAIN chars |-> Escaped(chars[i])]) \o <<Quote>>
Prefix(count) == IF count = 0 THEN <<>> ELSE IF count % 2 = 0 THEN <<",">> ELSE <<":">>
Written(strings) ==
    <<"{">> \o FlattenSeq([i \in DOMAIN strings |-> Prefix(i - 1) \o WriteString(strings[i])]) \o <<"}">>

\* the strings ThInit writes
Told == [i \in 1..(2 * Len(Member)) |->
            IF i % 2 = 1 THEN <<Member[(i + 1) \div 2]>> ELSE CStr(answers[Field[i \div 2]])]

\* The program of a new package goes into the file the entry point names.  This
\* may be the project file: in any case if the entry point is its name, and maybe
\* (the path may lead to the package or elsewhere) if it ends in its name.
ProjectFile == <<"ThlangProject", ".", "json">>
Program == <<"int", " ", "main()", "{", "return", " ", "0", ";", "}">>
EntryPoint == CStr(answers["entry-point"])
LastPart(path) == From(path, SelectLastInSeq(path, LAMBDA piece : piece = "/") + 1)

\* ThInit writes the project file, then the program
Write ==
    /\ phase = "write"
    /\ \/ EntryPoint # ProjectFile /\ project' = Written(Told)
       \/ LastPart(EntryPoint) = ProjectFile /\ project' = Program
    /\ phase' = "written"
    /\ UNCHANGED <<cvars, jvars, typed, answers, seen, shown, line, meant>>

\* the user goes into the package and runs info there
Again ==
    /\ phase = "written"
    /\ CAgain(<< <<"info">> >>) /\ line' = << <<"info">> >> /\ meant' = NoMeaning
    /\ phase' = "line"
    /\ UNCHANGED <<jvars, typed, answers, project, seen, shown>>

-----------------------------------------------------------------------------
OpenProject ==
    /\ phase = "info"
    /\ UNCHANGED project
    /\ IF project = NoProject THEN phase' = "ended" /\ seen' = "missing" /\ UNCHANGED jvars
       ELSE phase' = "reading" /\ Parse(project) /\ UNCHANGED seen
    /\ UNCHANGED <<cvars, typed, answers, shown, line, meant>>

Read == phase = "reading" /\ JNext /\ UNCHANGED <<cvars, phase, mainvars>>

\* operator[] and GetString: the first member of that name, which must be there
\* and a string
Named(root, name) == {i \in 1..(Len(root.parts) \div 2) : root.parts[2 * i - 1].chars = <<name>>}
Found(root, name) == root.parts[2 * CHOOSE i \in Named(root, name) : \A j \in Named(root, name) : i <= j]
Showable(root) ==
    root.kind = "object" /\ \A m \in Range(Member) : Named(root, m) # {} /\ Found(root, m).kind = "string"

Show ==
    /\ phase = "reading" /\ ~ Reading
    /\ phase' = "ended"
    /\ seen' = IF error # kParseErrorNone THEN "error" ELSE IF Showable(stack[1]) THEN "shown" ELSE "aborted"
    /\ shown' = IF error = kParseErrorNone /\ Showable(stack[1])
                THEN [i \in DOMAIN Member |-> CStr(Found(stack[1], Member[i]).chars)] ELSE <<>>
    /\ UNCHANGED <<cvars, jvars, typed, answers, project, line, meant>>

Next == ParseLine \/ Dispatch \/ Ask \/ Write \/ Again \/ OpenProject \/ Read \/ Show
Spec == Init /\ [][Next]_tvars /\ WF_tvars(Next)

-----------------------------------------------------------------------------
\* What an option is given for what was meant: _add_result takes the brackets off
\* [[..]] and, where more than one value is wanted, off [..].
Named1(cmd, name) == CHOOSE o \in Range(Options[cmd]) : o.name = name
Arrives(cmd, given) ==
    [n \in DOMAIN given |->
        FlattenSeq([i \in DOMAIN given[n] |-> Result(Named1(cmd, n), given[n][i])])]

\* Two ways to say something else: --url= with nothing behind it, and a file
\* called like a command that was not given yet.
Bare(words) == {i \in DOMAIN words : IsLong(words[i]) /\ FirstOf(words[i], "=") = Len(words[i])}
Commands(m) == IF m.command = "build" THEN {<<"init">>, <<"info">>} \cap Range(m.given["file"]) ELSE {}

\* A line that says what is meant in the documented way, whatever the order and
\* the form of its options and whatever their values look like, is understood:
\* the command acts and every option and file arrives, no other one does.  But
\* --url= takes the word behind it for its value, whatever it is; and a build of a
\* file called init or info never happens: that command acts instead, or the line
\* is refused.
Understood ==
    meant # NoMeaning /\ outcome # "parsing" =>
        /\ Bare(line) = {} /\ Commands(meant) = {} =>
              /\ outcome = "parsed" /\ Acting = meant.command
              /\ results[meant.command] = Arrives(meant.command, meant.given)
        /\ Bare(line) = {} /\ Commands(meant) # {} => outcome # "parsed" \/ Acting # "build"
        /\ outcome = "parsed" => \A i \in Bare(line) :
              \E o \in Range(Options[meant.command]) :
                  /\ <<o.long>> = Name(line[i])
                  /\ i < Len(line) /\ results[meant.command][o.name] = Result(o, line[i + 1])

\* No word of an accepted line is lost and none is taken twice: what looks like
\* no option or command is in the results exactly as often as on the line.
Pieces(words) == FlattenSeq(words)
Occurs(piece, words) == Len(SelectSeq(Pieces(words), LAMBDA p : p = piece))
GivenTo(a) == FlattenSeq([i \in DOMAIN Options[a] |-> results[a][Options[a][i].name]])
Given == GivenTo("root") \o GivenTo("init") \o GivenTo("build") \o GivenTo("info")
ValuesKept ==
    outcome = "parsed" => \A piece \in {"x", "y"} : Occurs(piece, Given) = Occurs(piece, line)

\* info shows what init was told, typed or filled in, whatever characters are in
\* it: writer and reader agree.  Only when the entry point names the project file
\* itself, the program has replaced it, and info ends with a parse error.
RoundTrip ==
    phase = "ended" /\ answers["license"] # <<>> =>
        \/ /\ EntryPoint # ProjectFile
           /\ seen = "shown" /\ shown = [i \in DOMAIN Field |-> CStr(answers[Field[i]])]
        \/ LastPart(EntryPoint) = ProjectFile /\ seen = "error"

\* The tool always ends: the parser of the command line, which goes back to the
\* program that called it without taking a word, goes back once and no more.
Ends == <>[](phase = "ended")
=============================================================================
