--------------------------------- MODULE Build ---------------------------------
(***************************************************************************)
(* The build driver of src/src/libthlang.cpp: compile_from_files_to_exe     *)
(* (op "files") and compile_fir_to_exe (op "fir").  Every process performs  *)
(* one call; the processes share the directory of temporary files, which is *)
(* all they share.  A process is sequential, but each of its calls of the   *)
(* operating system, of llc and of lld is a step of its own that may fail,  *)
(* and steps of other processes come in between.                            *)
(*                                                                         *)
(* Object code is abstracted to where it comes from: <<p, i>> is the code   *)
(* of the i-th input of p's call.  A file's content is a set of those, the  *)
(* empty set being an empty file, which lld takes for an empty linker       *)
(* script and links without complaint.                                      *)
(***************************************************************************)
EXTENDS Naturals, Sequences, FiniteSets

CONSTANTS
    Proc,       \* the processes that build at the same time
    Name,       \* the file names "temp-%%%%%%.o" can become
    NoProc,     \* nobody
    NoName,     \* no file
    MaxInputs,  \* how many inputs a call is given
    Requests,   \* what the processes are asked: a call for each of them
    Promised    \* processes that are never asked for an ll file

VARIABLES
    call,     \* what each process was asked: the operation and its inputs
    pc,       \* where the call stands
    pos,      \* the loop variable: the input, later the IR, that is next
    irs,      \* llvm_ir_files: the inputs whose IR is still to be compiled
    objs,     \* object_files / objs: what the linker will be given
    temp,     \* temp_obj / temp_path of this round of the loop
    fds,      \* the temporary files the process has open
    scratch,  \* is the tmpfile() of compile_toir open
    owner,    \* who created each temporary file, NoProc when there is none
    code,     \* the contents of the files
    stuck,    \* history: files that could not be removed
    given,    \* what the linker read, argument by argument
    linker,   \* what the linker answered
    result    \* what the call returned

vars == <<call, pc, pos, irs, objs, temp, fds, scratch, owner, code, stuck, given, linker,
          result>>

-----------------------------------------------------------------------------
\* th and thlang; ll; bc; o and obj; any other or no extension.  A "text" is an
\* element of compile_fir_to_exe's vector of IR texts.  LLVM's parser refuses the
\* IR generated from a "badsource", and a "badtext".
Source == {"source", "badsource"}
Text == {"text", "badtext"}
FileKind == Source \cup {"ir", "bitcode", "object", "unknown"}

SeqUpTo(S) == UNION {[1..n -> S] : n \in 0..MaxInputs}
Call == [op : {"files"}, inputs : SeqUpTo(FileKind)]
            \cup [op : {"fir"}, inputs : SeqUpTo(Text)]

ASSUME BuildAssumption ==
    /\ NoName \notin Name /\ NoProc \notin Proc
    /\ MaxInputs \in Nat
    /\ Requests \subseteq [Proc -> Call] /\ Promised \subseteq Proc
    /\ \A r \in Requests : \A p \in Promised : \A i \in DOMAIN r[p].inputs :
           r[p].inputs[i] # "ir"

\* input 0 stands for _start.o
Path == [input : 0..MaxInputs, name : Name \cup {NoName}]
Code == Proc \X (0..MaxInputs)

At(p, label) == pc[p] = label
Goto(p, label) == pc' = [pc EXCEPT ![p] = label]
Op(p) == call[p].op
Inputs(p) == call[p].inputs
Advance(p) == pos' = [pos EXCEPT ![p] = @ + 1]

Fail(p) == /\ Goto(p, "returned")
           /\ result' = [result EXCEPT ![p] = "false"]
Die(p) == Goto(p, "exited") /\ UNCHANGED result

AddObject(p, i, n) ==
    objs' = [objs EXCEPT ![p] = Append(@, [input |-> i, name |-> n])]

\* compile_fir_to_exe starts at its only loop, over its argument
InitialIrs(c) == IF c.op = "fir" THEN [i \in 1..Len(c.inputs) |-> i] ELSE <<>>

Init ==
    /\ call \in Requests
    /\ pc = [p \in Proc |-> IF Op(p) = "files" THEN "inputs" ELSE "tempdir"]
    /\ pos = [p \in Proc |-> 1]
    /\ irs = [p \in Proc |-> InitialIrs(call[p])]
    /\ objs = [p \in Proc |-> <<>>]
    /\ temp = [p \in Proc |-> NoName]
    /\ fds = [p \in Proc |-> {}]
    /\ scratch = [p \in Proc |-> FALSE]
    /\ owner = [n \in Name |-> NoProc]
    /\ code = [n \in Name |-> {}]
    /\ stuck = {}
    /\ given = [p \in Proc |-> <<>>]
    /\ linker = [p \in Proc |-> "none"]
    /\ result = [p \in Proc |-> "none"]

-----------------------------------------------------------------------------
(* The file system and LLVM, as the driver uses them.                       *)

\* createUniqueFile: O_EXCL, so the name is nobody's
Shared(n) == TRUE                              \* slip: an existing file will do
Exists(n) == owner[n] # NoProc
Unused(n) == ~Exists(n)
CreateUnique(p, n) ==
    /\ Unused(n)
    /\ owner' = [owner EXCEPT ![n] = p]
    /\ code' = [code EXCEPT ![n] = {}]
    /\ temp' = [temp EXCEPT ![p] = n]
    /\ UNCHANGED stuck

\* remove: when it fails the file stays, nobody tries again
Leave(n) == UNCHANGED <<owner, code, stuck>>             \* slip: forgotten
Remove(n) ==
    \/ /\ owner' = [owner EXCEPT ![n] = NoProc]
       /\ code' = [code EXCEPT ![n] = {}]
       /\ UNCHANGED stuck
    \/ stuck' = stuck \cup {n} /\ UNCHANGED <<owner, code>>

KeepOpen(p) == UNCHANGED fds                             \* slip: forgotten
Close(p) == fds' = [fds EXCEPT ![p] = @ \ {temp[p]}]

-----------------------------------------------------------------------------
(* compile_from_files_to_exe, the loop over the inputs.                     *)

Present(p) == Inputs(p)[pos[p]]
HasInput(p, kind) == At(p, "inputs") /\ pos[p] <= Len(Inputs(p)) /\ Present(p) = kind
HasSource(p) == \E kind \in Source : HasInput(p, kind)

\* compile_toir_from_file: the text goes through a tmpfile()
OpenSource(p) ==
    /\ HasSource(p)
    /\ scratch' = [scratch EXCEPT ![p] = TRUE]
    /\ Goto(p, "parse")
    /\ UNCHANGED <<call, pos, irs, objs, temp, fds, owner, code, stuck, given, linker, result>>

\* the file, or tmpfile(), cannot be opened: an exception, caught here
SourceNotOpened(p) ==
    /\ HasSource(p)
    /\ Fail(p)
    /\ UNCHANGED <<call, pos, irs, objs, temp, fds, scratch, owner, code, stuck, given, linker>>

\* yyparse is through, the file is closed, and whatever the generator thought
\* there is some text
CompileSource(p) ==
    /\ At(p, "parse")
    /\ scratch' = [scratch EXCEPT ![p] = FALSE]
    /\ irs' = [irs EXCEPT ![p] = Append(@, pos[p])]
    /\ Advance(p)
    /\ Goto(p, "inputs")
    /\ UNCHANGED <<call, objs, temp, fds, owner, code, stuck, given, linker, result>>

\* a number out of range (parser.y:94): the exception passes compile_toir, which
\* does not get to its fclose, and is caught here
ParserThrows(p) ==
    /\ At(p, "parse")
    /\ Fail(p)
    /\ UNCHANGED <<call, pos, irs, objs, temp, fds, scratch, owner, code, stuck, given, linker>>

\* yyerror exits the process; the generator may crash it
SourceExits(p) ==
    /\ At(p, "parse")
    /\ Die(p)
    /\ UNCHANGED <<call, pos, irs, objs, temp, fds, scratch, owner, code, stuck, given, linker>>

\* the name of the file is put where the texts are
AddIrFile(p) ==
    /\ HasInput(p, "ir")
    /\ irs' = [irs EXCEPT ![p] = Append(@, pos[p])]
    /\ Advance(p)
    /\ UNCHANGED <<call, pc, objs, temp, fds, scratch, owner, code, stuck, given, linker, result>>

CreateForBitcode(p, n) ==
    /\ HasInput(p, "bitcode")
    /\ CreateUnique(p, n)
    /\ Goto(p, "llc")
    /\ UNCHANGED <<call, pos, irs, objs, fds, scratch, given, linker, result>>

ConvertBitcode(p) ==
    /\ At(p, "llc")
    /\ code' = [code EXCEPT ![temp[p]] = {<<p, pos[p]>>}]
    /\ AddObject(p, pos[p], temp[p])
    /\ Advance(p)
    /\ Goto(p, "inputs")
    /\ UNCHANGED <<call, irs, temp, fds, scratch, owner, stuck, given, linker, result>>

\* llc is missing or fails
ConversionFails(p) ==
    /\ At(p, "llc")
    /\ Remove(temp[p])
    /\ Fail(p)
    /\ UNCHANGED <<call, pos, irs, objs, temp, fds, scratch, given, linker>>

AddObjectFile(p) ==
    /\ HasInput(p, "object")
    /\ AddObject(p, pos[p], NoName)
    /\ Advance(p)
    /\ UNCHANGED <<call, pc, irs, temp, fds, scratch, owner, code, stuck, given, linker, result>>

UnknownType(p) ==
    /\ HasInput(p, "unknown")
    /\ Fail(p)
    /\ UNCHANGED <<call, pos, irs, objs, temp, fds, scratch, owner, code, stuck, given, linker>>

EndOfInputs(p) ==
    /\ At(p, "inputs") /\ pos[p] > Len(Inputs(p))
    /\ pos' = [pos EXCEPT ![p] = 1]
    /\ Goto(p, "irs")
    /\ UNCHANGED <<call, irs, objs, temp, fds, scratch, owner, code, stuck, given, linker, result>>

-----------------------------------------------------------------------------
(* The loop over the IR texts, in both operations.                          *)

HasIr(p) == At(p, "irs") /\ pos[p] <= Len(irs[p])
NeedsTemp(p) == HasIr(p) \/ HasInput(p, "bitcode")

\* compile_fir_to_exe asks for the directory once, before anything else
FindTempDirectory(p) ==
    /\ At(p, "tempdir")
    /\ Goto(p, "irs")
    /\ UNCHANGED <<call, pos, irs, objs, temp, fds, scratch, owner, code, stuck, given, linker,
                   result>>

\* temp_directory_path() throws: compile_code_fir_to_exe catches it; "files" asks
\* in every round, and nothing catches it on the way to the command line's main
NoTempDirectory(p) ==
    /\ \/ At(p, "tempdir") /\ Fail(p)
       \/ Op(p) = "files" /\ NeedsTemp(p) /\ Die(p)
    /\ UNCHANGED <<call, pos, irs, objs, temp, fds, scratch, owner, code, stuck, given, linker>>

CreateFails(p) ==
    /\ NeedsTemp(p)
    /\ Fail(p)
    /\ UNCHANGED <<call, pos, irs, objs, temp, fds, scratch, owner, code, stuck, given, linker>>

CreateForIr(p, n) ==
    /\ HasIr(p)
    /\ CreateUnique(p, n)
    /\ Goto(p, "open")
    /\ UNCHANGED <<call, pos, irs, objs, fds, scratch, given, linker, result>>

\* openFileForWrite; "files" truncates what it opens, which is empty already
OpenTemp(p) ==
    /\ At(p, "open")
    /\ fds' = [fds EXCEPT ![p] = @ \cup {temp[p]}]
    /\ owner' = IF Exists(temp[p]) THEN owner ELSE [owner EXCEPT ![temp[p]] = p]
    /\ code' = IF Op(p) = "files" THEN [code EXCEPT ![temp[p]] = {}] ELSE code
    /\ Goto(p, "fdopen")
    /\ UNCHANGED <<call, pos, irs, objs, temp, scratch, stuck, given, linker, result>>

\* slip: the early return is forgotten, the loop goes on with the next IR
OpenFailsAndOn(p) ==
    /\ At(p, "open")
    /\ Advance(p)
    /\ Goto(p, "irs")
    /\ UNCHANGED <<call, irs, objs, temp, fds, scratch, owner, code, stuck, given, linker, result>>

\* only compile_fir_to_exe removes the file it created
OpenFails(p) ==
    /\ At(p, "open")
    /\ IF Op(p) = "fir" THEN Remove(temp[p]) ELSE UNCHANGED <<owner, code, stuck>>
    /\ Fail(p)
    /\ UNCHANGED <<call, pos, irs, objs, temp, fds, scratch, given, linker>>

FdopenFails(p) ==
    /\ At(p, "fdopen")
    /\ Close(p)
    /\ IF Op(p) = "fir" THEN Remove(temp[p]) ELSE UNCHANGED <<owner, code, stuck>>
    /\ Fail(p)
    /\ UNCHANGED <<call, pos, irs, objs, temp, scratch, given, linker>>

FdopenTemp(p) ==
    /\ At(p, "fdopen")
    /\ Goto(p, "emit")
    /\ UNCHANGED <<call, pos, irs, objs, temp, fds, scratch, owner, code, stuck, given, linker, result>>

\* compile_fir_to_obj, which does not say whether it wrote anything: a text that
\* LLVM refuses yields nothing, and so does the name of an ll file.
Parses(p) == Inputs(p)[irs[p][pos[p]]] \in {"source", "text"}
EmitObject(p) ==
    /\ At(p, "emit")
    /\ code' = IF Parses(p)
               THEN [code EXCEPT ![temp[p]] = @ \cup {<<p, irs[p][pos[p]]>>}]
               ELSE code
    /\ Goto(p, "fclose")
    /\ UNCHANGED <<call, pos, irs, objs, temp, fds, scratch, owner, stuck, given, linker, result>>

\* a write that fails: the stream's destructor aborts the process
EmitAborts(p) ==
    /\ At(p, "emit") /\ Parses(p)
    /\ Die(p)
    /\ UNCHANGED <<call, pos, irs, objs, temp, fds, scratch, owner, code, stuck, given, linker>>

CloseTemp(p) ==
    /\ At(p, "fclose")
    /\ Close(p)
    /\ AddObject(p, irs[p][pos[p]], temp[p])
    /\ Advance(p)
    /\ Goto(p, "irs")
    /\ UNCHANGED <<call, irs, temp, scratch, owner, code, stuck, given, linker, result>>

\* strdup fails
PathFails(p) ==
    /\ At(p, "fclose") /\ Op(p) = "fir"
    /\ Close(p)
    /\ Remove(temp[p])
    /\ Fail(p)
    /\ UNCHANGED <<call, pos, irs, objs, temp, scratch, given, linker>>

\* "files" refuses to link nothing, "fir" appends _start.o
EndOfIrs(p) ==
    /\ At(p, "irs") /\ pos[p] > Len(irs[p])
    /\ IF Op(p) = "files" /\ objs[p] = <<>>
       THEN Fail(p) /\ UNCHANGED objs
       ELSE /\ Goto(p, "link") /\ UNCHANGED result
            /\ IF Op(p) = "fir" THEN AddObject(p, 0, NoName) ELSE UNCHANGED objs
    /\ UNCHANGED <<call, pos, irs, temp, fds, scratch, owner, code, stuck, given, linker>>

-----------------------------------------------------------------------------
(* The linker, and the end of the call.                                     *)

\* what lld finds in one of its arguments
Content(p, path) ==
    IF path.name = NoName THEN {<<p, path.input>>}
    ELSE IF Exists(path.name) THEN code[path.name] ELSE {}

\* lldMain comes back with a code even when lld gives up or crashes
Link(p, answer) ==
    /\ At(p, "link")
    /\ given' = [given EXCEPT ![p] =
                    [k \in 1..Len(objs[p]) |-> Content(p, objs[p][k])]]
    /\ linker' = [linker EXCEPT ![p] = answer]
    /\ Goto(p, "clean")
    /\ pos' = [pos EXCEPT ![p] = 1]
    /\ UNCHANGED <<call, irs, objs, temp, fds, scratch, owner, code, stuck, result>>

\* compile_fir_to_exe removes its files one by one, going on when one remains
\* (the last element of objs is _start.o)
HasTemp(p) == At(p, "clean") /\ Op(p) = "fir" /\ pos[p] < Len(objs[p])

\* slip: what was linked is kept when the linker has failed
CleanUnlessFailed(p) ==
    /\ HasTemp(p)
    /\ IF linker[p] = "false" THEN UNCHANGED <<owner, code, stuck>>
       ELSE Remove(objs[p][pos[p]].name)
    /\ Advance(p)
    /\ UNCHANGED <<call, pc, irs, objs, temp, fds, scratch, given, linker, result>>

CleanTemp(p) ==
    /\ HasTemp(p)
    /\ Remove(objs[p][pos[p]].name)
    /\ Advance(p)
    /\ UNCHANGED <<call, pc, irs, objs, temp, fds, scratch, given, linker, result>>

Return(p) ==
    /\ At(p, "clean") /\ ~HasTemp(p)
    /\ result' = [result EXCEPT ![p] = linker[p]]
    /\ Goto(p, "returned")
    /\ UNCHANGED <<call, pos, irs, objs, temp, fds, scratch, owner, code, stuck, given, linker>>

Over(p) == pc[p] \in {"returned", "exited"}

Step(p) ==
    \/ OpenSource(p) \/ SourceNotOpened(p) \/ CompileSource(p) \/ ParserThrows(p)
    \/ SourceExits(p) \/ AddIrFile(p)
    \/ \E n \in Name : CreateForBitcode(p, n)
    \/ ConvertBitcode(p) \/ ConversionFails(p) \/ AddObjectFile(p)
    \/ UnknownType(p) \/ EndOfInputs(p)
    \/ FindTempDirectory(p) \/ NoTempDirectory(p) \/ CreateFails(p)
    \/ \E n \in Name : CreateForIr(p, n)
    \/ OpenTemp(p) \/ OpenFails(p) \/ FdopenFails(p) \/ FdopenTemp(p)
    \/ EmitObject(p) \/ EmitAborts(p) \/ CloseTemp(p) \/ PathFails(p) \/ EndOfIrs(p)
    \/ \E answer \in {"true", "false"} : Link(p, answer)
    \/ CleanTemp(p) \/ Return(p)

AllOver == (\A p \in Proc : Over(p)) /\ UNCHANGED vars

Next == (\E p \in Proc : Step(p)) \/ AllOver

\* A process runs its call to the end: the operating system schedules it and
\* llc and lld come back.
Fairness == \A p \in Proc : WF_vars(Step(p))
Spec == Init /\ [][Next]_vars
FairSpec == Spec /\ Fairness

-----------------------------------------------------------------------------
(* Properties.                                                             *)

Label == {"inputs", "parse", "llc", "tempdir", "irs", "open", "fdopen", "emit", "fclose",
          "link", "clean", "returned", "exited"}

TypeOK ==
    /\ call \in [Proc -> Call]
    /\ pc \in [Proc -> Label]
    /\ pos \in [Proc -> Nat]
    /\ irs \in [Proc -> Seq(1..MaxInputs)]
    /\ objs \in [Proc -> Seq(Path)]
    /\ temp \in [Proc -> Name \cup {NoName}]
    /\ fds \in [Proc -> SUBSET Name]
    /\ scratch \in [Proc -> BOOLEAN]
    /\ owner \in [Name -> Proc \cup {NoProc}]
    /\ code \in [Name -> SUBSET Code]
    /\ stuck \subseteq Name
    /\ given \in [Proc -> Seq(SUBSET Code)]
    /\ linker \in [Proc -> {"none", "true", "false"}]
    /\ result \in [Proc -> {"none", "true", "false"}]

\* The file of the current round, and the input it is for.
HoldsTemp(p) == pc[p] \in {"llc", "open", "fdopen", "emit", "fclose"}
Current(p) == IF At(p, "llc") THEN pos[p] ELSE irs[p][pos[p]]
ObjectNames(p) == {objs[p][k].name : k \in 1..Len(objs[p])} \ {NoName}
Linking(p) == ~Over(p) /\ ~At(p, "clean")

\* Whatever other processes build in the same directory, until its linker has
\* run a call is the owner of the file it is working on and of every object it
\* has made, and each holds code of its own input and of nothing else.
Isolation ==
    \A p \in Proc :
        /\ HoldsTemp(p) => /\ owner[temp[p]] = p
                           /\ code[temp[p]] \subseteq {<<p, Current(p)>>}
                           /\ temp[p] \notin ObjectNames(p)
        /\ Linking(p) =>
               \A k \in 1..Len(objs[p]) :
                   LET object == objs[p][k] IN
                   object.name # NoName =>
                       /\ owner[object.name] = p
                       /\ code[object.name] \subseteq {<<p, object.input>>}
                       /\ \A j \in 1..(k - 1) : objs[p][j].name # object.name

\* No return leaks the descriptor of an object file, and no linker reads a file
\* that some process still has open for writing.  The text of a program is not
\* always closed: it stays open, and the call has returned, when the parser has
\* thrown on the source the loop was at.
DescriptorsClosed ==
    \A p \in Proc :
        /\ fds[p] # {} => pc[p] \in {"fdopen", "emit", "fclose", "exited"}
        /\ scratch[p] => \/ pc[p] \in {"parse", "exited"}
                         \/ At(p, "returned") /\ Present(p) \in Source /\ result[p] = "false"
        /\ At(p, "link") => \A q \in Proc : fds[q] \cap ObjectNames(p) = {}

\* What a call leaves in the directory when it has returned, files that could
\* not be removed aside: compile_fir_to_exe, after an error in a later round,
\* the objects of the earlier rounds, and nothing once it has linked;
\* compile_from_files_to_exe all its objects and, when the last file could not
\* be opened, that empty file.
Leftovers ==
    \A n \in Name : \A p \in Proc :
        owner[n] = p /\ n \notin stuck /\ At(p, "returned") =>
            \/ Op(p) = "fir" /\ n \in ObjectNames(p) /\ linker[p] = "none"
            \/ Op(p) = "files" /\ n \in ObjectNames(p)
            \/ Op(p) = "files" /\ n = temp[p] /\ code[n] = {}

\* Every object compile_fir_to_exe hands to the linker is removed in the end,
\* whatever the linker answers, unless its removal fails.
FirObjectsRemoved ==
    \A p \in Proc :
        Op(p) = "fir" /\ At(p, "link")
            ~> \A n \in Name : owner[n] = p => n \in stuck

\* Every ll file of a call that was linked has reached the linker as code.
IrFilesCompiled ==
    \A p \in Proc : \A i \in DOMAIN Inputs(p) :
        linker[p] # "none" /\ Inputs(p)[i] = "ir" =>
            \E k \in DOMAIN given[p] : <<p, i>> \in given[p][k]

-----------------------------------------------------------------------------
(* What a caller is promised.                                              *)

Promise(f) == [p \in Promised |-> f[p]]
Phase == [p \in Promised |-> CASE pc[p] = "clean" -> "linked"
                               [] Over(p) -> pc[p]
                               [] OTHER -> "busy"]
Contract == INSTANCE BuildContract WITH
                Proc <- Promised, phase <- Phase, call <- Promise(call),
                given <- Promise(given), linker <- Promise(linker), result <- Promise(result)

\* However many processes build in one directory, a call that names no ll file
\* gives its linker the code of each of its inputs, in order, but for those
\* whose IR text LLVM refuses, and answers what the linker said.  What becomes
\* of ll files is the matter of IrFilesCompiled.
KeepsPromise == Contract!Spec

\* The driver keeps the contract, its promise to come to an end included.
KeepsContract == Contract!FairSpec
=============================================================================
