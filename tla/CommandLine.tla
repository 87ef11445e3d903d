------------------------------ MODULE CommandLine ------------------------------
(***************************************************************************)
(* The command line of the package tool: main of src/src/acli.cpp declares  *)
(* three subcommands and their options, App::parse of include/CLI reads the *)
(* arguments.  A word is a sequence of pieces, single characters or longer  *)
(* text without a special character; the programs are the root and its      *)
(* subcommands, and calls is the stack of App::_parse calls under way.      *)
(* Of the library only what main's declarations can reach is modelled, and  *)
(* a list in brackets has no brackets and no quotes in it.                  *)
(***************************************************************************)
EXTENDS Naturals, Sequences, SequencesExt

VARIABLES
    args,                \* the words left, the next one first
    calls,               \* the calls of _parse: <<app, positional_only>>
    results,             \* what each option was given
    missing,             \* the words nobody wanted
    parsed,              \* how often each program was entered
    parsed_subcommands,  \* the subcommands the root has entered
    outcome              \* "parsing", "parsed", or the error that was thrown

cvars == <<args, calls, results, missing, parsed, parsed_subcommands, outcome>>

\* main declares these, in this order; each program has the help flag first
Unlimited == 1000
Option(name, short, long, max) == [name |-> name, short |-> short, long |-> long, max |-> max]
Text(short, long) == Option(long, short, long, 1)
Help == Option("help", "h", "help", 0)
package_name == Option("package_name", "", "", 1)
file == Option("file", "", "", Unlimited)
output == Text("o", "output")
InitOptions == <<Text("v", "version"), Text("d", "description"), Text("e", "entry-point"),
                 Text("a", "author"), Text("", "git-repository"), Text("", "url"), Text("", "license")>>
Options == [root  |-> <<Help>>,
            init  |-> <<Help, package_name>> \o InitOptions,
            build |-> <<Help, file, output>>,
            info  |-> <<Help>>]
App == DOMAIN Options
Subcommand == App \ {"root"}
Required == {package_name}
Positional(o) == o.short = "" /\ o.long = ""
Count(app, o) == Len(results[app][o.name])

NoResults == [a \in App |-> [n \in {Options[a][i].name : i \in DOMAIN Options[a]} |-> <<>>]]
NoneMissing == [a \in App |-> <<>>]
OnlyRoot == [a \in App |-> IF a = "root" THEN 1 ELSE 0]

\* parse of a list of arguments, in a process of its own
CInit(words) ==
    /\ args = words /\ calls = << <<"root", FALSE>> >> /\ results = NoResults
    /\ missing = NoneMissing /\ parsed = OnlyRoot /\ parsed_subcommands = <<>> /\ outcome = "parsing"
CAgain(words) ==
    /\ args' = words /\ calls' = << <<"root", FALSE>> >> /\ results' = NoResults
    /\ missing' = NoneMissing /\ parsed' = OnlyRoot /\ parsed_subcommands' = <<>> /\ outcome' = "parsing"

-----------------------------------------------------------------------------
\* The parts of a word.
Digit1 == {"0", "1", "5"}
Letter1 == {"a", "b", "d", "e", "h", "n", "o", "p", "r", "t", "u", "v", "x"} \cup Digit1
From(w, i) == SubSeq(w, i, Len(w))
FirstOf(w, c) == SelectInSeq(w, LAMBDA piece : piece = c)
ValidFirst(c) == c \notin {"-", "!", " "}

IsShort(w) == Len(w) > 1 /\ w[1] = "-" /\ ValidFirst(w[2])
IsLong(w) == Len(w) > 2 /\ w[1] = "-" /\ w[2] = "-" /\ ValidFirst(w[3])
Name(w) ==
    IF IsLong(w) THEN LET e == FirstOf(w, "=") IN IF e = 0 THEN From(w, 3) ELSE SubSeq(w, 3, e - 1)
    ELSE <<w[2]>>
Attached(w) ==
    IF IsLong(w) THEN LET e == FirstOf(w, "=") IN IF e = 0 THEN <<>> ELSE From(w, e + 1)
    ELSE From(w, 3)

\* _find_subcommand: only the root has any
Find(app, w, ignore_used) ==
    {s \in Subcommand : app = "root" /\ w = <<s>> /\ (parsed[s] = 0 \/ ~ ignore_used)}

\* a word init.rest where rest names a subcommand as well
Dotted(app, w) ==
    LET dot == FirstOf(w, ".") IN
    IF dot > 0 /\ Find("root", From(w, dot + 1), TRUE) # {} THEN Find(app, SubSeq(w, 1, dot - 1), TRUE)
    ELSE {}

\* _recognize; a subcommand asks its parent whether a word names one
\* slip: a subcommand is recognised however often it was used
ClassifierUsed(app, w) ==
    CASE w = <<"-", "-">> -> "mark"
      [] Find("root", w, FALSE) # {} -> "subcommand"
      [] IsLong(w) -> "option"
      [] IsShort(w) -> IF w[2] \in Digit1 THEN "none" ELSE "option"
      [] w = <<"+", "+">> /\ app # "root" -> "terminator"
      [] Dotted(app, w) # {} -> "subcommand"
      [] OTHER -> "none"
Classifier(app, w) ==
    CASE w = <<"-", "-">> -> "mark"
      [] Find("root", w, TRUE) # {} -> "subcommand"
      [] IsLong(w) -> "option"
      [] IsShort(w) -> IF w[2] \in Digit1 THEN "none" ELSE "option"
      [] w = <<"+", "+">> /\ app # "root" -> "terminator"
      [] Dotted(app, w) # {} -> "subcommand"
      [] OTHER -> "none"

-----------------------------------------------------------------------------
\* _add_result: [[..]] with everything doubled is one odd word, [a,b] is a list
\* where one is wanted
Doubled(w) ==
    /\ Len(w) >= 4 /\ SubSeq(w, 1, 2) = <<"[", "[">> /\ SubSeq(w, Len(w) - 1, Len(w)) = <<"]", "]">>
    /\ \A i \in 3..(Len(w) - 2) : i % 2 = 1 => w[i] = w[i + 1]
Halved(w) == [i \in 1..(Len(w) - 2) \div 2 + 1 |-> IF i = 1 THEN "[" ELSE
              IF i = (Len(w) - 2) \div 2 + 1 THEN "]" ELSE w[2 * i - 1]]
SplitUp(w) ==
    LET inner == SubSeq(w, 2, Len(w) - 1)
        cuts == {0, Len(inner) + 1} \cup {i \in DOMAIN inner : inner[i] = ","}
        Item(i) == SubSeq(inner, i + 1, (CHOOSE j \in cuts : j > i /\ \A k \in cuts : k <= i \/ k >= j) - 1)
    IN SelectSeq([n \in 1..(Len(inner) + 1) |-> IF n - 1 \in cuts THEN Item(n - 1) ELSE <<>>],
                 LAMBDA item : item # <<>>)
Listed(w) == Len(w) > 1 /\ w[1] = "[" /\ w[Len(w)] = "]"
Result(o, w) ==
    IF Doubled(w) THEN << Halved(w) >>
    ELSE IF o.max > 1 /\ Listed(w) THEN SplitUp(w)
    ELSE <<w>>

Add(app, o, w) == results' = [results EXCEPT ![app][o.name] = @ \o Result(o, w)]

-----------------------------------------------------------------------------
app == calls[Len(calls)][1]
Running == outcome = "parsing" /\ args # <<>>
Word == Head(args)
Kind == IF calls[Len(calls)][2] THEN "none" ELSE Classifier(app, Word)

Throw(error) ==
    /\ outcome' = error
    /\ UNCHANGED <<args, calls, results, missing, parsed, parsed_subcommands>>
Enter(s) == calls' = Append(calls, <<s, FALSE>>) /\ parsed' = [parsed EXCEPT ![s] = @ + 1]
Leave == calls' = Front(calls)
Miss(w) == missing' = [missing EXCEPT ![app] = Append(@, w)]

\* the positional that takes the next word
Open(a) == {o \in Range(Options[a]) : Positional(o) /\ Count(a, o) < o.max}
Unfilled(a) == {o \in Range(Options[a]) : Positional(o) /\ Count(a, o) = 0}
Needs(a) == Unfilled(a) \cap Required # {}

\* _parse_single: --; behind it words are positional, and a subcommand that
\* needs none returns
PositionalMark ==
    /\ Running /\ Kind = "mark"
    /\ args' = Tail(args)
    /\ IF Unfilled(app) = {} /\ app # "root" THEN Leave
       ELSE calls' = [calls EXCEPT ![Len(calls)][2] = TRUE]
    /\ UNCHANGED <<results, missing, parsed, parsed_subcommands, outcome>>

SubcommandTerminator ==
    /\ Running /\ Kind = "terminator"
    /\ args' = Tail(args) /\ Leave
    /\ UNCHANGED <<results, missing, parsed, parsed_subcommands, outcome>>

\* _parse_positional: a value if one is wanted; else a subcommand once more, for
\* which a subcommand returns to the root; else nobody wants it
ParsePositional ==
    /\ IF Open(app) # {} THEN
          /\ \E o \in Open(app) : Add(app, o, Word)
          /\ args' = Tail(args) /\ UNCHANGED <<calls, missing, parsed>>
       ELSE IF Find("root", Word, FALSE) # {} THEN
          /\ IF app = "root" THEN (\E s \in Find("root", Word, FALSE) : Enter(s)) /\ args' = Tail(args)
             ELSE Leave /\ UNCHANGED <<args, parsed>>
          /\ UNCHANGED <<results, missing>>
       ELSE Miss(Word) /\ args' = Tail(args) /\ UNCHANGED <<calls, results, parsed>>
    /\ UNCHANGED <<parsed_subcommands, outcome>>

PositionalWord == Running /\ Kind = "none" /\ ParsePositional

\* _parse_subcommand: a required positional goes first; a subcommand knows none
\* and returns; init.rest is init and rest
ParseSubcommand ==
    /\ Running /\ Kind = "subcommand"
    /\ IF Needs(app) THEN ParsePositional
       ELSE IF app # "root" THEN
          Leave /\ UNCHANGED <<args, results, missing, parsed, parsed_subcommands, outcome>>
       ELSE
          /\ \E s \in Find("root", Word, TRUE) \cup Dotted("root", Word) :
                /\ Enter(s)
                /\ parsed_subcommands' = Append(parsed_subcommands, s)
                /\ args' = IF Word = <<s>> THEN Tail(args)
                           ELSE << From(Word, FirstOf(Word, ".") + 1) >> \o Tail(args)
          /\ UNCHANGED <<results, missing, outcome>>

-----------------------------------------------------------------------------
Known(a, w) ==
    {o \in Range(Options[a]) : ~ Positional(o) /\ Name(w) = <<IF IsLong(w) THEN o.long ELSE o.short>>}

\* The second half of _parse_arg: a flag takes nothing, and what is attached to
\* its short name is options again; an option takes what is attached, or the
\* next word whatever it is.
\* slip: the next word is looked at and left
TakeKeeping(a, o, w, rest) ==
    IF o.max = 0 THEN
        /\ Add(a, o, IF IsLong(w) /\ Attached(w) # <<>> THEN Attached(w) ELSE <<"true">>)
        /\ args' = IF IsLong(w) \/ Attached(w) = <<>> THEN rest ELSE << <<"-">> \o Attached(w) >> \o rest
        /\ UNCHANGED outcome
    ELSE IF Attached(w) # <<>> THEN Add(a, o, Attached(w)) /\ args' = rest /\ UNCHANGED outcome
    ELSE IF rest # <<>> THEN Add(a, o, Head(rest)) /\ args' = rest /\ UNCHANGED outcome
    ELSE outcome' = "ArgumentMismatch" /\ args' = rest /\ UNCHANGED results
Take(a, o, w, rest) ==
    IF o.max = 0 THEN
        /\ Add(a, o, IF IsLong(w) /\ Attached(w) # <<>> THEN Attached(w) ELSE <<"true">>)
        /\ args' = IF IsLong(w) \/ Attached(w) = <<>> THEN rest ELSE << <<"-">> \o Attached(w) >> \o rest
        /\ UNCHANGED outcome
    ELSE IF Attached(w) # <<>> THEN Add(a, o, Attached(w)) /\ args' = rest /\ UNCHANGED outcome
    ELSE IF rest # <<>> THEN Add(a, o, Head(rest)) /\ args' = Tail(rest) /\ UNCHANGED outcome
    ELSE outcome' = "ArgumentMismatch" /\ args' = rest /\ UNCHANGED results

OwnOption ==
    /\ Running /\ Kind = "option" /\ Known(app, Word) # {}
    /\ \E o \in Known(app, Word) : Take(app, o, Word, Tail(args))
    /\ UNCHANGED <<calls, missing, parsed, parsed_subcommands>>

\* --init.url=x is the option --url=x of init, given to it without entering it,
\* and --init.v=x becomes -v x; the dot is looked for behind the first character
DotOf(w) == IF IsLong(w) /\ Len(Name(w)) > 1 THEN FirstOf(From(Name(w), 2), ".") ELSE 0
Owner(w) == IF DotOf(w) = 0 THEN {} ELSE Find(app, SubSeq(w, 3, 2 + DotOf(w)), FALSE)
Inner(w) == From(w, 4 + DotOf(w))
InnerName(w) == From(Name(w), DotOf(w) + 2)
OneLetter(name) == name = <<>> \/ (Len(name) = 1 /\ name[1] \in Letter1)
Undotted(w) == IF ~ OneLetter(InnerName(w)) THEN <<"-", "-">> \o Inner(w)
               ELSE IF Inner(w) = <<>> THEN <<"-">> ELSE <<"-", Inner(w)[1]>>
Beyond(w) == IF OneLetter(InnerName(w)) /\ Len(Inner(w)) > 1 THEN << From(Inner(w), 3) >> ELSE <<>>

DottedOption ==
    /\ Running /\ Kind = "option" /\ Known(app, Word) = {}
    /\ \E s \in Owner(Word), w \in {Undotted(Word)}, rest \in {Beyond(Word) \o Tail(args)} :
          IF w = <<"-">> THEN Throw("HorribleError")
          ELSE IF Known(s, w) # {} THEN
              /\ \E o \in Known(s, w) : Take(s, o, w, rest)
              /\ parsed_subcommands' = Append(parsed_subcommands, s)
              /\ parsed' = [parsed EXCEPT !["root"] = @ + 1]
              /\ UNCHANGED <<calls, missing>>
          ELSE
              /\ Miss(Word) /\ args' = rest
              /\ UNCHANGED <<calls, results, parsed, parsed_subcommands, outcome>>

UnknownOption ==
    /\ Running /\ Kind = "option" /\ Known(app, Word) = {} /\ Owner(Word) = {}
    /\ Miss(Word) /\ args' = Tail(args)
    /\ UNCHANGED <<calls, results, parsed, parsed_subcommands, outcome>>

ParseSingle ==
    \/ PositionalMark \/ SubcommandTerminator \/ PositionalWord \/ ParseSubcommand
    \/ OwnOption \/ DottedOption \/ UnknownOption

\* the loop of _parse ends with the arguments
Return ==
    /\ outcome = "parsing" /\ args = <<>> /\ Len(calls) > 1
    /\ Leave
    /\ UNCHANGED <<args, results, missing, parsed, parsed_subcommands, outcome>>

-----------------------------------------------------------------------------
\* _process and _process_extras: help, options given too often, required
\* options, words left over, in this order
CallsForHelp ==
    LET asked(a) == Count(a, Help) > 0 IN
    IF parsed_subcommands = <<>> THEN asked("root")
    ELSE \E s \in Range(parsed_subcommands) : asked("root") \/ asked(s)
TooMany == \E a \in App : \E o \in Range(Options[a]) : o.max > 0 /\ Count(a, o) > o.max
Lacking == \E a \in App : parsed[a] > 0 /\ Needs(a)
LeftOver == \E a \in App : parsed[a] > 0 /\ missing[a] # <<>>

Verdict ==
    IF CallsForHelp THEN "CallForHelp"
    ELSE IF TooMany THEN "ArgumentMismatch"
    ELSE IF Lacking THEN "RequiredError"
    ELSE IF LeftOver THEN "ExtrasError"
    ELSE "parsed"

Process ==
    /\ outcome = "parsing" /\ args = <<>> /\ Len(calls) = 1
    /\ outcome' = Verdict
    /\ UNCHANGED <<args, calls, results, missing, parsed, parsed_subcommands>>

CNext == ParseSingle \/ Return \/ Process

\* main: which command acts
Acting ==
    IF parsed["init"] > 0 THEN "init" ELSE IF parsed["info"] > 0 THEN "info"
    ELSE IF parsed["build"] > 0 THEN "build" ELSE "none"
=============================================================================
