-------------------------------- MODULE Session --------------------------------
(***************************************************************************)
(* A process that has loaded libthlang and calls its C interface            *)
(* (src/src/libthlang.cpp) again and again, as the ctypes client in src/bin *)
(* can.  What outlives a call: the scanner the lexer keeps in a global, the *)
(* FILE objects that were opened, and lld's global state.  The scanner is   *)
(* told of a new input by its address only (src/src/lex.yy.cpp, yylex), and *)
(* fclose gives addresses back.                                             *)
(***************************************************************************)
EXTENDS Naturals, FiniteSets

CONSTANTS
    Addr,      \* the addresses FILE objects can have
    NoAddr,    \* the null pointer
    MaxCalls   \* how many calls the client makes

ASSUME SessionAssumption == NoAddr \notin Addr /\ MaxCalls \in Nat

VARIABLES
    alive,     \* the process runs
    opened,    \* temporary files compile_toir has opened and not closed
    client,    \* FILE objects the client has open
    input,     \* YY_SCANNER.in(): the address of the scanner's FILE
    place,     \* where in it the scanner stands
    lld,       \* is lld's global state usable?
    calls,     \* how many calls were made
    threw,     \* history: how many of them ended in an exception of the parser
    last       \* history: the last call and what came of it

vars == <<alive, opened, client, input, place, lld, calls, threw, last>>

-----------------------------------------------------------------------------
\* What a program does when the compiler reads it from its first byte: it
\* compiles, it is a syntax error, std::stod throws on one of its literals, or
\* the generator follows a null pointer.
Program == {"valid", "syntax", "throws", "crash"}

\* What the parser is given: the program, nothing at all, or what the scanner
\* had buffered of a program before.
Heard == {"own", "nothing", "stale", "none"}

Answer == {"none", "text", "null", "true", "false", "exit"}

Outcome == [op : {"none", "ir", "link"}, program : Program \cup {"none"},
            heard : Heard, lld : {"usable", "corrupt"},
            answer : Answer]

Quiet == [op |-> "none", program |-> "none", heard |-> "none",
          lld |-> "usable", answer |-> "none"]

Ir(program, heard, answer) ==
    [Quiet EXCEPT !.op = "ir", !.program = program, !.heard = heard,
                  !.answer = answer]

Init ==
    /\ alive = TRUE
    /\ opened = {} /\ client = {}
    /\ input = NoAddr /\ place = "start"
    /\ lld = "usable"
    /\ calls = 0 /\ threw = 0
    /\ last = Quiet

Calling == alive /\ calls < MaxCalls /\ calls' = calls + 1

-----------------------------------------------------------------------------
(* malloc and fclose: a FILE object gets any free address.                  *)

Free(a) == a \notin opened \cup client

ClientOpens(a) ==
    /\ alive /\ Free(a)
    /\ client' = client \cup {a}
    /\ UNCHANGED <<alive, opened, input, place, lld, calls, threw, last>>

ClientCloses(a) ==
    /\ alive /\ a \in client
    /\ client' = client \ {a}
    /\ UNCHANGED <<alive, opened, input, place, lld, calls, threw, last>>

-----------------------------------------------------------------------------
(* compile_code_to_ir and compile_code_to_ir_from_file.                     *)

\* slip: the scanner is given an input only when it has none
OnlyTheFirst(a) == IF input = NoAddr THEN "own"
                   ELSE IF place = "end" THEN "nothing" ELSE "stale"

\* yylex compares addresses: the scanner is reset for another one
Hears(a) == IF input # a THEN "own"
            ELSE IF place = "end" THEN "nothing" ELSE "stale"

\* what the text the parser is given does: nothing at all is no program
Behaviours(program, heard) ==
    CASE heard = "own" -> {program}
      [] heard = "nothing" -> {"syntax"}
      [] heard = "stale" -> Program

\* the file, or tmpfile(), cannot be opened: an exception, caught
CompileUnopened(program) ==
    /\ Calling
    /\ last' = Ir(program, "none", "null")
    /\ UNCHANGED <<alive, opened, client, input, place, lld, threw>>

\* slip: the file stays open
CompileKeepsFile(program, a) ==
    /\ Calling /\ Free(a)
    /\ "valid" \in Behaviours(program, Hears(a))
    /\ input' = a /\ place' = "end"
    /\ last' = Ir(program, Hears(a), "text")
    /\ opened' = opened \cup {a}
    /\ UNCHANGED <<alive, client, lld, threw>>

\* the end of a program is read to be recognised; the file is closed
Compile(program, a) ==
    /\ Calling /\ Free(a)
    /\ "valid" \in Behaviours(program, Hears(a))
    /\ input' = a /\ place' = "end"
    /\ last' = Ir(program, Hears(a), "text")
    /\ UNCHANGED <<alive, opened, client, lld, threw>>

\* slip: the file is closed on the way out, the scanner not told
ThrowsAndCloses(program, a) ==
    /\ Calling /\ Free(a)
    /\ "throws" \in Behaviours(program, Hears(a))
    /\ input' = a /\ place' = "middle"
    /\ threw' = threw + 1
    /\ last' = Ir(program, Hears(a), "null")
    /\ UNCHANGED <<alive, opened, client, lld>>

\* the exception passes yyparse and compile_toir: the file stays open, the
\* scanner in the middle of it
CompileThrows(program, a) ==
    /\ Calling /\ Free(a)
    /\ "throws" \in Behaviours(program, Hears(a))
    /\ opened' = opened \cup {a}
    /\ input' = a /\ place' = "middle"
    /\ threw' = threw + 1
    /\ last' = Ir(program, Hears(a), "null")
    /\ UNCHANGED <<alive, client, lld>>

\* yyerror exits, or the generator crashes
CompileExits(program, a) ==
    /\ Calling /\ Free(a)
    /\ Behaviours(program, Hears(a)) \cap {"syntax", "crash"} # {}
    /\ alive' = FALSE
    /\ last' = Ir(program, Hears(a), "exit")
    /\ UNCHANGED <<opened, client, input, place, lld, threw>>

-----------------------------------------------------------------------------
(* The linker.  (compile_code_fir_to_obj and compile_code_fir_to_asm keep    *)
(* nothing from one call to the next.)                                      *)

\* lldMain says whether it may be called again; link() looks at the code only
Link(answer, again) ==
    /\ Calling
    /\ again \/ answer = "false"
    /\ lld' = IF again THEN lld ELSE "corrupt"
    /\ last' = [Quiet EXCEPT !.op = "link", !.lld = lld, !.answer = answer]
    /\ UNCHANGED <<alive, opened, client, input, place, threw>>

\* with its state corrupt lld may do anything, crash included
LinkCrashes ==
    /\ Calling /\ lld = "corrupt"
    /\ alive' = FALSE
    /\ last' = [Quiet EXCEPT !.op = "link", !.lld = lld, !.answer = "exit"]
    /\ UNCHANGED <<opened, client, input, place, lld, threw>>

\* the client has made its calls, or its process is gone
Finished == (~alive \/ calls = MaxCalls) /\ UNCHANGED vars

Next ==
    \/ \E a \in Addr : ClientOpens(a) \/ ClientCloses(a)
    \/ \E program \in Program :
          \/ CompileUnopened(program)
          \/ \E a \in Addr :
                \/ Compile(program, a) \/ CompileThrows(program, a)
                \/ CompileExits(program, a)
    \/ \E answer \in {"true", "false"}, again \in BOOLEAN : Link(answer, again)
    \/ LinkCrashes
    \/ Finished

Spec == Init /\ [][Next]_vars

-----------------------------------------------------------------------------
(* Properties.                                                             *)

TypeOK ==
    /\ alive \in BOOLEAN
    /\ opened \subseteq Addr /\ client \subseteq Addr
    /\ input \in Addr \cup {NoAddr}
    /\ place \in {"start", "middle", "end"} /\ (place = "start" <=> input = NoAddr)
    /\ lld \in {"usable", "corrupt"}
    /\ calls \in 0..MaxCalls /\ threw \in 0..calls
    /\ last \in Outcome

\* No call ever compiles a piece of another call's program: the scanner stops
\* in the middle of a file only when an exception passes, and then the file,
\* left open, keeps its address from being used again.
NoForeignText == last.heard # "stale"

\* The exception is the only way to leave a temporary file open, one for each,
\* and no other FILE object shares its address.
OpenOnlyAfterThrow ==
    /\ Cardinality(opened) = threw
    /\ opened \cap client = {}

\* A process ends on a program it should compile only when its temporary file
\* got the address of the file compiled last: a call that threw, or one that
\* failed to open its file, never does harm to the next.
ExitHasCause ==
    last.op = "ir" /\ last.answer = "exit" =>
        \/ last.program \in {"syntax", "crash"}
        \/ last.heard = "nothing" /\ input \notin opened

\* libthlang.cpp:410: compile_code_to_ir will "compile the code and return a C
\* string": a program that compiles never ends the process.
ValidReturns == last.op = "ir" /\ last.program = "valid" => last.answer # "exit"
=============================================================================
