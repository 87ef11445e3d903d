------------------------------ MODULE BuildProofs ------------------------------
(***************************************************************************)
(* Build, for every set of processes and names and every number of inputs.  *)
(* A process only touches files that are its own or nobody's (OthersKeep),  *)
(* so each invariant is one of a single process: what the step of another   *)
(* one leaves of it is shown once, what its own step does action by action. *)
(***************************************************************************)
EXTENDS Build, TLAPS

\* What a call is.
LEMMA CallFacts ==
    ASSUME TypeOK, NEW p \in Proc
    PROVE  /\ Op(p) \in {"files", "fir"}
           /\ Inputs(p) \in Seq(FileKind \cup Text) /\ Len(Inputs(p)) \in 0..MaxInputs
           /\ Op(p) = "files" => \A i \in 1..Len(Inputs(p)) : Inputs(p)[i] \in FileKind
           /\ Op(p) = "fir" => \A i \in 1..Len(Inputs(p)) : Inputs(p)[i] \in Text
<1>1. call[p] \in Call
  BY DEF TypeOK
<1>2. CASE call[p] \in [op : {"files"}, inputs : SeqUpTo(FileKind)]
  <2>1. PICK n \in 0..MaxInputs : Inputs(p) \in [1..n -> FileKind]
    BY <1>2 DEF SeqUpTo, Inputs
  <2>2. Len(Inputs(p)) = n /\ Inputs(p) \in Seq(FileKind)
    BY <2>1, BuildAssumption
  <2> QED
    BY <1>2, <2>1, <2>2, BuildAssumption DEF Op
<1>3. CASE call[p] \in [op : {"fir"}, inputs : SeqUpTo(Text)]
  <2>1. PICK n \in 0..MaxInputs : Inputs(p) \in [1..n -> Text]
    BY <1>3 DEF SeqUpTo, Inputs
  <2>2. Len(Inputs(p)) = n /\ Inputs(p) \in Seq(Text)
    BY <2>1, BuildAssumption
  <2> QED
    BY <1>3, <2>1, <2>2, BuildAssumption DEF Op
<1> QED
  BY <1>1, <1>2, <1>3 DEF Call

-----------------------------------------------------------------------------
\* Where a call stands: which operation can be there, how far its loop is, and
\* that a round which works on a file has one.
Collecting(p) == pc[p] \in {"inputs", "parse", "llc"}
Control(p) ==
    /\ pos[p] >= 1
    /\ Collecting(p) => Op(p) = "files" /\ pos[p] <= Len(Inputs(p)) + 1
    /\ At(p, "parse") => pos[p] <= Len(Inputs(p)) /\ Present(p) \in Source
    /\ At(p, "llc") => pos[p] <= Len(Inputs(p)) /\ Present(p) = "bitcode"
    /\ At(p, "tempdir") => Op(p) = "fir"
    /\ pc[p] \in {"tempdir", "irs"} => pos[p] <= Len(irs[p]) + 1
    /\ pc[p] \in {"open", "fdopen", "emit", "fclose"} => pos[p] <= Len(irs[p])
    /\ HoldsTemp(p) => temp[p] \in Name

\* compile_fir_to_exe makes every object itself, but _start.o at the end.
FirObjects(p) ==
    Op(p) = "fir" =>
        /\ pc[p] \in {"tempdir", "irs", "open", "fdopen", "emit", "fclose"} =>
               \A k \in 1..Len(objs[p]) : objs[p][k].name \in Name
        /\ pc[p] \in {"link", "clean"} =>
               /\ Len(objs[p]) >= 1 /\ objs[p][Len(objs[p])].name = NoName
               /\ \A k \in 1..(Len(objs[p]) - 1) : objs[p][k].name \in Name

TypeInv == TypeOK /\ \A p \in Proc : Control(p) /\ FirObjects(p)

LEMMA TypeInit == Init => TypeInv
<1> SUFFICES ASSUME Init PROVE TypeInv
  OBVIOUS
<1>1. TypeOK
  <2>1. irs \in [Proc -> Seq(1..MaxInputs)]
    <3> SUFFICES ASSUME NEW p \in Proc PROVE InitialIrs(call[p]) \in Seq(1..MaxInputs)
      BY DEF Init
    <3>1. call[p] \in Call
      BY BuildAssumption DEF Init
    <3>2. PICK n \in 0..MaxInputs : \E S : call[p].inputs \in [1..n -> S]
      BY <3>1 DEF Call, SeqUpTo
    <3>3. Len(call[p].inputs) = n
      BY <3>2, BuildAssumption
    <3>4. \A i \in 1..n : i \in 1..MaxInputs
      BY BuildAssumption
    <3>5. [i \in 1..n |-> i] \in Seq(1..MaxInputs) /\ <<>> \in Seq(1..MaxInputs)
      BY <3>4
    <3> QED
      BY <3>3, <3>5 DEF InitialIrs
  <2>2. <<>> \in Seq(Path) /\ <<>> \in Seq(SUBSET Code)
    OBVIOUS
  <2> QED
    BY <2>1, <2>2, BuildAssumption DEF Init, TypeOK, Label
<1>2. ASSUME NEW p \in Proc PROVE Control(p) /\ FirObjects(p)
  <2>1. Len(Inputs(p)) \in Nat /\ Len(irs[p]) \in Nat /\ Op(p) \in {"files", "fir"}
    BY <1>1, CallFacts DEF TypeOK
  <2> QED
    BY <2>1 DEF Init, Control, Collecting, FirObjects, At, HoldsTemp
<1> QED
  BY <1>1, <1>2 DEF TypeInv

LEMMA Advanced ==
    ASSUME pos \in [Proc -> Nat], NEW p \in Proc, Advance(p) PROVE pos' \in [Proc -> Nat]
BY DEF Advance

LEMMA ObjectAdded ==
    ASSUME objs \in [Proc -> Seq(Path)], NEW p \in Proc, NEW i, NEW n,
           [input |-> i, name |-> n] \in Path, AddObject(p, i, n)
    PROVE  objs' \in [Proc -> Seq(Path)]
BY DEF AddObject

LEMMA Removed ==
    ASSUME TypeOK, NEW n \in Name, Remove(n)
    PROVE  /\ owner' \in [Name -> Proc \cup {NoProc}] /\ code' \in [Name -> SUBSET Code]
           /\ stuck' \subseteq Name
BY DEF Remove, TypeOK

\* The steps that only keep books keep the types.
LEMMA TypeBooks ==
    ASSUME TypeInv, NEW p \in Proc,
           \/ OpenSource(p) \/ SourceNotOpened(p) \/ CompileSource(p) \/ ParserThrows(p)
           \/ SourceExits(p) \/ AddIrFile(p) \/ AddObjectFile(p) \/ UnknownType(p)
           \/ EndOfInputs(p) \/ FindTempDirectory(p) \/ NoTempDirectory(p)
           \/ CreateFails(p) \/ FdopenTemp(p) \/ EmitAborts(p) \/ Return(p)
    PROVE  TypeOK'
<1> USE DEF TypeInv, Fail, Die, Goto, Advance, Label
<1>0. /\ Len(Inputs(p)) \in 0..MaxInputs /\ Control(p)
      /\ \A i \in 1..Len(Inputs(p)) : i \in 1..MaxInputs
  BY CallFacts, BuildAssumption
<1>1. CASE CompileSource(p) \/ AddIrFile(p)
  <2>1. pos[p] \in 1..MaxInputs
    BY <1>0, <1>1, BuildAssumption DEF CompileSource, AddIrFile, HasInput, At, Control, TypeOK
  <2>2. irs' \in [Proc -> Seq(1..MaxInputs)]
    <3>1. irs \in [Proc -> Seq(1..MaxInputs)] /\ irs' = [irs EXCEPT ![p] = Append(@, pos[p])]
      BY <1>1 DEF CompileSource, AddIrFile, TypeOK
    <3> QED
      BY <2>1, <3>1
  <2> QED
    <3>1. /\ pos' = [pos EXCEPT ![p] = @ + 1]
          /\ pc' = pc \/ pc' = [pc EXCEPT ![p] = "inputs"]
          /\ scratch' = scratch \/ scratch' = [scratch EXCEPT ![p] = FALSE]
          /\ UNCHANGED <<call, objs, temp, fds, owner, code, stuck, given, linker, result>>
      BY <1>1 DEF CompileSource, AddIrFile
    <3>2. pc' \in [Proc -> Label] /\ scratch' \in [Proc -> BOOLEAN]
      BY <3>1 DEF TypeOK
    <3>3. pos' \in [Proc -> Nat]
      BY <3>1, Advanced DEF TypeOK
    <3>4. UNCHANGED <<call, objs, temp, fds, owner, code, stuck, given, linker, result>>
      BY <3>1
    <3> QED
      BY <2>2, <3>2, <3>3, <3>4 DEF TypeOK
<1>2. CASE SourceNotOpened(p) \/ ParserThrows(p) \/ SourceExits(p) \/ UnknownType(p)
  BY <1>2 DEF SourceNotOpened, ParserThrows, SourceExits, UnknownType, TypeOK
<1>7. CASE OpenSource(p) \/ FindTempDirectory(p)
  BY <1>7 DEF OpenSource, FindTempDirectory, TypeOK
<1>6. CASE EndOfInputs(p)
  BY <1>6 DEF EndOfInputs, TypeOK
<1>3. CASE AddObjectFile(p)
  <2>1. [input |-> pos[p], name |-> NoName] \in Path
    BY <1>0, <1>3, BuildAssumption DEF AddObjectFile, HasInput, Control, TypeOK, Path
  <2> QED
    <3>1. objs' \in [Proc -> Seq(Path)]
      BY <1>3, <2>1, ObjectAdded DEF AddObjectFile, TypeOK
    <3> QED
      BY <1>3, <3>1, Advanced DEF AddObjectFile, TypeOK
<1>4. CASE NoTempDirectory(p) \/ CreateFails(p)
  BY <1>4 DEF NoTempDirectory, CreateFails, TypeOK
<1>5. CASE FdopenTemp(p) \/ EmitAborts(p) \/ Return(p)
  BY <1>5, ZenonT(40) DEF FdopenTemp, EmitAborts, Return, TypeOK
<1> QED
  BY <1>1, <1>2, <1>3, <1>4, <1>5, <1>6, <1>7

LEMMA TypeFiles ==
    ASSUME TypeInv, NEW p \in Proc,
           \/ \E n \in Name : CreateForBitcode(p, n) \/ CreateForIr(p, n)
           \/ ConvertBitcode(p) \/ ConversionFails(p) \/ OpenTemp(p) \/ OpenFails(p)
           \/ FdopenFails(p) \/ EmitObject(p) \/ CloseTemp(p) \/ PathFails(p)
           \/ EndOfIrs(p) \/ (\E answer \in {"true", "false"} : Link(p, answer)) \/ CleanTemp(p)
    PROVE  TypeOK'
<1> USE DEF TypeInv, Fail, Goto, Advance, Label, At
<1>0. /\ Len(Inputs(p)) \in 0..MaxInputs /\ Control(p) /\ FirObjects(p)
      /\ (\A i \in 1..Len(irs[p]) : irs[p][i] \in 1..MaxInputs) /\ Op(p) \in {"files", "fir"}
  BY CallFacts, BuildAssumption DEF TypeOK
<1>1. ASSUME NEW n \in Name, CreateForBitcode(p, n) \/ CreateForIr(p, n) PROVE TypeOK'
  <2>1. /\ owner' = [owner EXCEPT ![n] = p] /\ code' = [code EXCEPT ![n] = {}]
        /\ temp' = [temp EXCEPT ![p] = n]
        /\ pc' = [pc EXCEPT ![p] = "llc"] \/ pc' = [pc EXCEPT ![p] = "open"]
        /\ UNCHANGED <<stuck, call, pos, irs, objs, fds, scratch, given, linker, result>>
    BY <1>1 DEF CreateForBitcode, CreateForIr, CreateUnique
  <2>2. /\ owner' \in [Name -> Proc \cup {NoProc}] /\ code' \in [Name -> SUBSET Code]
        /\ temp' \in [Proc -> Name \cup {NoName}]
    BY <2>1 DEF TypeOK
  <2>3. pc' \in [Proc -> Label]
    BY <2>1 DEF TypeOK
  <2>4. UNCHANGED <<stuck, call, pos, irs, objs, fds, scratch, given, linker, result>>
    BY <2>1
  <2> QED
    BY <2>2, <2>3, <2>4 DEF TypeOK
<1>2. CASE ConvertBitcode(p)
  <2>1. [input |-> pos[p], name |-> temp[p]] \in Path /\ <<p, pos[p]>> \in Code /\ temp[p] \in Name
    BY <1>0, <1>2, BuildAssumption DEF ConvertBitcode, Control, TypeOK, Path, Code, HoldsTemp
  <2>2. objs' \in [Proc -> Seq(Path)]
    BY <1>2, <2>1, ObjectAdded DEF ConvertBitcode, TypeOK
  <2> QED
    <3>1. code' \in [Name -> SUBSET Code]
      BY <1>2, <2>1 DEF ConvertBitcode, TypeOK
    <3>2. pc' \in [Proc -> Label] /\ pos' \in [Proc -> Nat]
      BY <1>2 DEF ConvertBitcode, TypeOK
    <3>3. UNCHANGED <<call, irs, temp, fds, scratch, owner, stuck, given, linker, result>>
      BY <1>2 DEF ConvertBitcode
    <3> QED
      BY <2>2, <3>1, <3>2, <3>3 DEF TypeOK
<1>3. CASE ConversionFails(p) \/ OpenFails(p) \/ FdopenFails(p) \/ PathFails(p)
  <2>1. temp[p] \in Name
    BY <1>0, <1>3 DEF ConversionFails, OpenFails, FdopenFails, PathFails, Control, HoldsTemp
  <2>2. /\ owner' \in [Name -> Proc \cup {NoProc}] /\ code' \in [Name -> SUBSET Code]
        /\ stuck' \subseteq Name
    BY <1>3, <2>1, Removed DEF ConversionFails, OpenFails, FdopenFails, PathFails, TypeOK
  <2>3. /\ pc' = [pc EXCEPT ![p] = "returned"] /\ result' = [result EXCEPT ![p] = "false"]
        /\ UNCHANGED <<call, pos, irs, objs, temp, scratch, given, linker>>
        /\ fds' = fds \/ fds' = [fds EXCEPT ![p] = @ \ {temp[p]}]
    BY <1>3 DEF ConversionFails, OpenFails, FdopenFails, PathFails, Close
  <2>4. fds' \in [Proc -> SUBSET Name]
    <3>1. fds \in [Proc -> SUBSET Name] /\ fds[p] \ {temp[p]} \in SUBSET Name
      BY DEF TypeOK
    <3> QED
      BY <2>3, <3>1
  <2>5. pc' \in [Proc -> Label] /\ result' \in [Proc -> {"none", "true", "false"}]
    BY <2>3 DEF TypeOK
  <2>6. UNCHANGED <<call, pos, irs, objs, temp, scratch, given, linker>>
    BY <2>3
  <2> QED
    BY <2>2, <2>4, <2>5, <2>6 DEF TypeOK
<1>4. CASE OpenTemp(p)
  <2>1. temp[p] \in Name
    BY <1>0, <1>4 DEF OpenTemp, Control, HoldsTemp
  <2> QED
    BY <1>4, <2>1 DEF OpenTemp, TypeOK
<1>5. CASE EmitObject(p)
  <2>1. temp[p] \in Name /\ <<p, irs[p][pos[p]]>> \in Code
    BY <1>0, <1>5, BuildAssumption DEF EmitObject, Control, HoldsTemp, Code, TypeOK
  <2> QED
    BY <1>5, <2>1 DEF EmitObject, TypeOK
<1>6. CASE CloseTemp(p)
  <2>1. [input |-> irs[p][pos[p]], name |-> temp[p]] \in Path
    BY <1>0, <1>6, BuildAssumption DEF CloseTemp, Control, HoldsTemp, Path, TypeOK
  <2> QED
    BY <1>6, <2>1, ObjectAdded DEF CloseTemp, Close, TypeOK
<1>7. CASE EndOfIrs(p)
  <2>1. [input |-> 0, name |-> NoName] \in Path
    BY BuildAssumption DEF Path
  <2> QED
    BY <1>7, <2>1, ObjectAdded DEF EndOfIrs, TypeOK
<1>8. ASSUME NEW answer \in {"true", "false"}, Link(p, answer) PROVE TypeOK'
  <2>1. [k \in 1..Len(objs[p]) |-> Content(p, objs[p][k])] \in Seq(SUBSET Code)
    <3>1. \A k \in 1..Len(objs[p]) : objs[p][k] \in Path
      BY DEF TypeOK
    <3>2. \A k \in 1..Len(objs[p]) : Content(p, objs[p][k]) \in SUBSET Code
      BY <3>1 DEF Content, Path, Code, TypeOK
    <3> QED
      BY <3>2 DEF TypeOK
  <2> QED
    BY <1>8, <2>1 DEF Link, TypeOK
<1>9. CASE CleanTemp(p)
  <2>1. objs[p][pos[p]].name \in Name
    BY <1>0, <1>9 DEF CleanTemp, HasTemp, FirObjects, Control, TypeOK
  <2> QED
    BY <1>9, <2>1, Removed DEF CleanTemp, TypeOK
<1> QED
  BY <1>1, <1>2, <1>3, <1>4, <1>5, <1>6, <1>7, <1>8, <1>9

-----------------------------------------------------------------------------
\* A process works on its own files only: the one of this round, and those of
\* its objects, until each is removed.
First(p) == IF At(p, "clean") THEN pos[p] ELSE 1

\* The code that comes of an input: none when LLVM takes its text for no IR.
Emitted(p, i) ==
    IF i # 0 /\ Inputs(p)[i] \in {"ir", "badsource", "badtext"} THEN {} ELSE {<<p, i>>}
Holds(p, n, i) == owner[n] = p /\ code[n] = Emitted(p, i)

OwnObject(p, k) ==
    /\ Holds(p, objs[p][k].name, objs[p][k].input)
    /\ \A j \in 1..(k - 1) : objs[p][j].name # objs[p][k].name

Isolated(p) ==
    /\ HoldsTemp(p) => owner[temp[p]] = p /\ temp[p] \notin ObjectNames(p)
    /\ pc[p] \in {"llc", "open", "fdopen", "emit"} => code[temp[p]] = {}
    /\ At(p, "fclose") => code[temp[p]] = Emitted(p, irs[p][pos[p]])
    /\ ~ Over(p) =>
           \A k \in First(p)..Len(objs[p]) : objs[p][k].name # NoName => OwnObject(p, k)

\* What a process has open is the file of its round, which it has not removed,
\* and the text of the source that it parses, or that its parser has thrown on.
Opened(p) ==
    /\ fds[p] # {} =>
           /\ pc[p] \in {"fdopen", "emit", "fclose", "exited"}
           /\ fds[p] = {temp[p]} /\ owner[temp[p]] = p
    /\ scratch[p] => \/ pc[p] \in {"parse", "exited"}
                     \/ At(p, "returned") /\ Present(p) \in Source /\ result[p] = "false"

\* Where the files are that a process owns.
Kept(p, n) ==
    CASE pc[p] = "clean" /\ Op(p) = "fir" ->
             \E k \in pos[p]..Len(objs[p]) : objs[p][k].name = n
      [] pc[p] = "clean" /\ Op(p) = "files" -> n \in ObjectNames(p)
      [] pc[p] = "returned" ->
             \/ Op(p) = "fir" /\ n \in ObjectNames(p) /\ linker[p] = "none"
             \/ Op(p) = "files" /\ n \in ObjectNames(p)
             \/ Op(p) = "files" /\ n = temp[p] /\ code[n] = {}
      [] pc[p] = "exited" -> TRUE
      [] OTHER -> n \in ObjectNames(p) \/ (HoldsTemp(p) /\ n = temp[p])

Accounted(p) ==
    /\ pc[p] \notin {"clean", "returned"} => linker[p] = "none"
    /\ \A n \in Name : owner[n] = p /\ n \notin stuck => Kept(p, n)

\* How the arguments of the linker come together: the objects of a call come in
\* the order the linker is given them,
Ordered(c, o) ==
    \A k \in 1..Len(o) :
        /\ o[k].input \in Contract!Position(c)
        /\ o[k].input = 0 => o[k].name = NoName
        /\ o[k].name = NoName => o[k].input = 0 \/ c.inputs[o[k].input] = "object"
        /\ \A j \in 1..(k - 1) : Contract!InFront(c, o[j].input, o[k].input)

\* its texts t in the order of the inputs,
Texts(c, t) ==
    \A k \in 1..Len(t) :
        /\ t[k] \in 1..Len(c.inputs) /\ c.inputs[t[k]] \notin Contract!Ready
        /\ \A j \in 1..(k - 1) : t[j] < t[k]

\* and the objects so far in front of the texts still to be compiled.
AllInFront(c, o, t, from) ==
    /\ \A k \in 1..Len(o) : o[k].input # 0
    /\ \A j \in 1..Len(o), k \in from..Len(t) : Contract!InFront(c, o[j].input, t[k])

\* Each of the first n inputs was understood and became an object or a text.
Understood(c, n) == \A i \in 1..n : c.inputs[i] # "unknown"
Sorted(c, o, t, n) ==
    /\ \A k \in 1..Len(o) : o[k].input <= n /\ c.inputs[o[k].input] \in Contract!Ready
    /\ \A k \in 1..Len(t) : t[k] <= n
    /\ Len(o) + Len(t) = n /\ Understood(c, n)

Rest(p) == IF Collecting(p) THEN 1 ELSE pos[p]
Lines(p) ==
    /\ pc[p] \notin {"clean", "returned", "exited"} =>
           Ordered(call[p], objs[p]) /\ Texts(call[p], irs[p])
    /\ pc[p] \notin {"link", "clean", "returned", "exited"} =>
           AllInFront(call[p], objs[p], irs[p], Rest(p))
    /\ Collecting(p) => Sorted(call[p], objs[p], irs[p], pos[p] - 1)
    /\ pc[p] \in {"tempdir", "irs", "open", "fdopen", "emit", "fclose"} =>
           /\ Len(objs[p]) + Len(irs[p]) + 1 = Len(Inputs(p)) + pos[p]
           /\ Understood(call[p], Len(Inputs(p)))
    /\ At(p, "link") =>
           /\ Len(objs[p]) = Contract!Count(call[p]) /\ objs[p] # <<>>
           /\ Understood(call[p], Len(Inputs(p)))

\* What a process of Promised was asked.
Asked(p) == p \in Promised => \A i \in 1..Len(Inputs(p)) : Inputs(p)[i] # "ir"

OwnInv(p) ==
    /\ Control(p) /\ FirObjects(p) /\ Isolated(p) /\ Opened(p) /\ Accounted(p) /\ Lines(p)
    /\ Asked(p)
BuildInv == TypeOK /\ \A p \in Proc : OwnInv(p)

-----------------------------------------------------------------------------
\* Everything about q that is not a file is as it was.
Same(q) ==
    /\ call'[q] = call[q] /\ pc'[q] = pc[q] /\ pos'[q] = pos[q] /\ irs'[q] = irs[q]
    /\ objs'[q] = objs[q] /\ temp'[q] = temp[q] /\ fds'[q] = fds[q]
    /\ scratch'[q] = scratch[q]
    /\ given'[q] = given[q] /\ linker'[q] = linker[q] /\ result'[q] = result[q]

\* The files of the others are as they were: what p touches is its own or nobody's.
Touches(p) ==
    /\ \A n \in Name : owner[n] \notin {p, NoProc} => owner'[n] = owner[n] /\ code'[n] = code[n]
    /\ \A n \in Name : owner'[n] # owner[n] => owner'[n] \in {p, NoProc}
    /\ stuck \subseteq stuck'

LEMMA OthersSame ==
    ASSUME TypeOK, NEW p \in Proc, NEW q \in Proc, p # q, Step(p)
    PROVE  Same(q)
<1> USE DEF TypeOK, Same, Fail, Die, Goto, Advance, AddObject, CreateUnique, Close
<1>1. CASE OpenSource(p) \/ SourceNotOpened(p) \/ CompileSource(p) \/ ParserThrows(p)
  BY <1>1 DEF OpenSource, SourceNotOpened, CompileSource, ParserThrows
<1>10. CASE SourceExits(p) \/ AddIrFile(p) \/ FindTempDirectory(p)
  BY <1>10 DEF SourceExits, AddIrFile, FindTempDirectory
<1>2. ASSUME NEW n \in Name, CreateForBitcode(p, n) \/ CreateForIr(p, n) PROVE Same(q)
  BY <1>2 DEF CreateForBitcode, CreateForIr
<1>3. CASE ConvertBitcode(p) \/ ConversionFails(p) \/ AddObjectFile(p)
  BY <1>3 DEF ConvertBitcode, ConversionFails, AddObjectFile
<1>4. CASE UnknownType(p) \/ EndOfInputs(p)
  BY <1>4 DEF UnknownType, EndOfInputs
<1>5. CASE NoTempDirectory(p) \/ CreateFails(p) \/ OpenTemp(p) \/ FdopenTemp(p)
  BY <1>5 DEF NoTempDirectory, CreateFails, OpenTemp, FdopenTemp
<1>6. CASE OpenFails(p) \/ FdopenFails(p) \/ PathFails(p)
  BY <1>6 DEF OpenFails, FdopenFails, PathFails
<1>7. CASE EmitObject(p) \/ EmitAborts(p) \/ CloseTemp(p)
  BY <1>7 DEF EmitObject, EmitAborts, CloseTemp
<1>8. CASE EndOfIrs(p)
  BY <1>8 DEF EndOfIrs
<1>9. CASE (\E answer \in {"true", "false"} : Link(p, answer)) \/ CleanTemp(p) \/ Return(p)
  BY <1>9 DEF Link, CleanTemp, Return
<1> QED
  BY <1>1, <1>2, <1>3, <1>4, <1>5, <1>6, <1>7, <1>8, <1>9, <1>10 DEF Step

\* A removal touches the one file.
LEMMA RemoveTouches ==
    ASSUME TypeOK, NEW p \in Proc, NEW n \in Name, owner[n] = p, Remove(n)
    PROVE  Touches(p)
BY DEF Remove, Touches, TypeOK

\* What is left of the files that p removes: at most one, which is stuck.
LEMMA StepTouches ==
    ASSUME TypeOK, NEW p \in Proc, OwnInv(p), Step(p)
    PROVE  Touches(p)
<1> USE DEF TypeOK
<1>1. HoldsTemp(p) => temp[p] \in Name /\ owner[temp[p]] = p
  BY DEF OwnInv, Control, Isolated
<1>2. CASE UNCHANGED <<owner, code, stuck>>
  BY <1>2 DEF Touches
<1>3. ASSUME NEW n \in Name, CreateUnique(p, n) PROVE Touches(p)
  BY <1>3 DEF CreateUnique, Unused, Exists, Touches
<1>4. CASE HoldsTemp(p) /\ Remove(temp[p])
  BY <1>1, <1>4, RemoveTouches
<1>5. CASE CleanTemp(p)
  <2>1. /\ Op(p) = "fir" /\ At(p, "clean") /\ pos[p] \in 1..(Len(objs[p]) - 1)
        /\ Remove(objs[p][pos[p]].name)
    BY <1>5 DEF CleanTemp, HasTemp, OwnInv, Control
  <2>2. objs[p][pos[p]].name \in Name
    BY <2>1 DEF OwnInv, FirObjects, At
  <2>3. ~ Over(p) /\ pos[p] \in First(p)..Len(objs[p])
    BY <2>1 DEF Over, At, First
  <2>4. owner[objs[p][pos[p]].name] = p
    BY <2>2, <2>3, BuildAssumption DEF OwnInv, Isolated, OwnObject, Holds
  <2> QED
    BY <2>1, <2>2, <2>4, RemoveTouches
<1>6. CASE ConvertBitcode(p)
  BY <1>1, <1>6, BuildAssumption DEF ConvertBitcode, Touches, HoldsTemp, At
<1>7. CASE OpenTemp(p)
  BY <1>1, <1>7, BuildAssumption DEF OpenTemp, Touches, HoldsTemp, At, Exists
<1>8. CASE EmitObject(p)
  BY <1>1, <1>8, BuildAssumption DEF EmitObject, Touches, HoldsTemp, At
<1>9. CASE ConversionFails(p) \/ OpenFails(p) \/ FdopenFails(p) \/ PathFails(p)
  BY <1>2, <1>4, <1>9 DEF ConversionFails, OpenFails, FdopenFails, PathFails, HoldsTemp, At
<1>10. CASE \E n \in Name : CreateForBitcode(p, n) \/ CreateForIr(p, n)
  BY <1>3, <1>10 DEF CreateForBitcode, CreateForIr
<1>11. CASE \/ OpenSource(p) \/ SourceNotOpened(p) \/ CompileSource(p) \/ ParserThrows(p)
            \/ SourceExits(p) \/ AddIrFile(p) \/ AddObjectFile(p) \/ UnknownType(p)
            \/ EndOfInputs(p) \/ FindTempDirectory(p) \/ NoTempDirectory(p)
            \/ CreateFails(p) \/ FdopenTemp(p) \/ EmitAborts(p) \/ CloseTemp(p)
            \/ EndOfIrs(p) \/ Return(p)
            \/ (\E answer \in {"true", "false"} : Link(p, answer))
  <2>1. UNCHANGED <<owner, code, stuck>>
    BY <1>11 DEF OpenSource, SourceNotOpened, CompileSource, ParserThrows, SourceExits,
       AddIrFile, AddObjectFile, UnknownType, EndOfInputs, FindTempDirectory,
       NoTempDirectory, CreateFails, FdopenTemp, EmitAborts, CloseTemp, EndOfIrs, Return, Link
  <2> QED
    BY <1>2, <2>1
<1> QED
  BY <1>5, <1>6, <1>7, <1>8, <1>9, <1>10, <1>11 DEF Step

\* So the step of one process leaves the invariant of another alone.
LEMMA OthersKeep ==
    ASSUME TypeOK, NEW p \in Proc, NEW q \in Proc, p # q, Same(q), Touches(p), OwnInv(q)
    PROVE  OwnInv(q)'
<1>1. \A n \in Name : owner[n] = q => owner'[n] = q /\ code'[n] = code[n]
  BY BuildAssumption DEF Touches
<1>2. \A n \in Name : owner'[n] = q => owner[n] = q
  BY BuildAssumption DEF Touches
<1>3. stuck \subseteq stuck'
  BY DEF Touches
<1> USE DEF Same, At, Op, Inputs, Present, HoldsTemp, OwnInv
<1>4. Control(q)' /\ FirObjects(q)' /\ Asked(q)'
  BY DEF Control, Collecting, FirObjects, Asked
<1>5. Isolated(q)'
  <2>1. ObjectNames(q)' = ObjectNames(q) /\ First(q)' = First(q) /\ (Over(q)' <=> Over(q))
        /\ \A i : Emitted(q, i)' = Emitted(q, i)
    BY DEF ObjectNames, First, Over, Emitted
  <2>2. HoldsTemp(q) => /\ owner'[temp[q]] = q /\ temp[q] \notin ObjectNames(q)
                        /\ code'[temp[q]] = code[temp[q]]
    BY <1>1 DEF Isolated, Control
  <2>3. /\ (pc[q] \in {"llc", "open", "fdopen", "emit"} => code[temp[q]] = {})'
        /\ (At(q, "fclose") => code[temp[q]] = Emitted(q, irs[q][pos[q]]))'
    BY <2>1, <2>2 DEF Isolated
  <2>4. ASSUME ~ Over(q), NEW k \in First(q)..Len(objs[q]), objs[q][k].name # NoName
        PROVE  OwnObject(q, k)'
    <3>1. OwnObject(q, k)
      BY <2>4 DEF Isolated
    <3>2. objs[q][k].name \in Name
      <4>1. objs[q] \in Seq(Path) /\ k \in 1..Len(objs[q])
        BY <2>4 DEF TypeOK, First, Control
      <4>2. objs[q][k] \in Path
        BY <4>1
      <4> QED
        BY <2>4, <4>2 DEF Path
    <3> QED
      BY <1>1, <2>1, <3>1, <3>2 DEF OwnObject, Holds
  <2> QED
    BY <2>1, <2>2, <2>3, <2>4 DEF Isolated
<1>6. Opened(q)'
  <2>1. fds[q] \in SUBSET Name
    BY DEF TypeOK
  <2> QED
    BY <1>1, <2>1 DEF Opened
<1>7. Accounted(q)'
  <2>1. ASSUME NEW n \in Name, owner'[n] = q, n \notin stuck' PROVE Kept(q, n)'
    <3>1. Kept(q, n) /\ code'[n] = code[n]
      BY <1>1, <1>2, <1>3, <2>1 DEF Accounted
    <3> QED
      BY <3>1 DEF Kept, ObjectNames
  <2> QED
    BY <2>1 DEF Accounted
<1>8. Lines(q)'
  BY DEF Lines, Rest, Collecting
<1> QED
  BY <1>4, <1>5, <1>6, <1>7, <1>8

-----------------------------------------------------------------------------
\* What is appended to a sequence is its last element.
LEMMA Appended ==
    ASSUME NEW S, NEW s \in Seq(S), NEW e \in S
    PROVE  /\ Append(s, e) \in Seq(S) /\ Len(Append(s, e)) = Len(s) + 1
           /\ Append(s, e)[Len(s) + 1] = e
           /\ \A k \in 1..Len(s) : Append(s, e)[k] = s[k]
OBVIOUS

LEMMA ElementsOf ==
    ASSUME NEW S, NEW s \in Seq(S) PROVE Len(s) \in Nat /\ \A k \in 1..Len(s) : s[k] \in S
OBVIOUS

\* Elements of the sequences the driver keeps.
LEMMA Elements ==
    ASSUME NEW o \in Seq(Path), NEW t \in Seq(1..MaxInputs)
    PROVE  /\ Len(o) \in Nat /\ \A k \in 1..Len(o) : o[k] \in Path /\ o[k].input \in Nat
           /\ Len(t) \in Nat /\ \A k \in 1..Len(t) : t[k] \in 1..MaxInputs /\ t[k] \in Nat /\ t[k] # 0
<1>1. \A k \in 1..Len(o) : o[k] \in Path
  OBVIOUS
<1>2. \A e \in Path : e.input \in Nat
  BY BuildAssumption DEF Path
<1>3. \A k \in 1..Len(t) : t[k] \in 1..MaxInputs
  BY ElementsOf
<1>4. \A i \in 1..MaxInputs : i \in Nat /\ i # 0
  BY BuildAssumption
<1> QED
  BY <1>1, <1>2, <1>3, <1>4

\* The lines of the linker, as values: the next input that is a text goes behind
\* everything,
LEMMA TextNext ==
    ASSUME NEW c \in Call, NEW o \in Seq(Path), NEW t \in Seq(1..MaxInputs), NEW n \in Nat,
           Texts(c, t), AllInFront(c, o, t, 1), Sorted(c, o, t, n),
           n + 1 \in 1..Len(c.inputs), n + 1 \in 1..MaxInputs, c.inputs[n + 1] \in Source \cup {"ir"}
    PROVE  /\ Texts(c, Append(t, n + 1)) /\ AllInFront(c, o, Append(t, n + 1), 1)
           /\ Sorted(c, o, Append(t, n + 1), n + 1)
<1> DEFINE t2 == Append(t, n + 1)
<1>1. /\ Len(t) \in Nat /\ Len(t2) = Len(t) + 1 /\ t2[Len(t) + 1] = n + 1
      /\ \A k \in 1..Len(t) : t2[k] = t[k] /\ t[k] \in 1..MaxInputs /\ t[k] \in Nat
      /\ Len(o) \in Nat /\ \A k \in 1..Len(o) : o[k] \in Path /\ o[k].input \in Nat
  BY Elements, Appended
<1> HIDE DEF t2
<1>2. c.inputs[n + 1] \notin Contract!Ready /\ c.inputs[n + 1] # "unknown"
  BY DEF Contract!Ready, Source
<1>3. Texts(c, t2)
  <2>1. ASSUME NEW k \in 1..Len(t)
        PROVE  /\ t2[k] \in 1..Len(c.inputs) /\ c.inputs[t2[k]] \notin Contract!Ready
               /\ \A j \in 1..(k - 1) : t2[j] < t2[k]
    <3>1. \A j \in 1..(k - 1) : j \in 1..Len(t)
      BY <1>1
    <3> QED
      BY <1>1, <3>1 DEF Texts
  <2>2. \A j \in 1..(Len(t) + 1 - 1) : t2[j] < n + 1
    <3>1. \A j \in 1..Len(t) : t[j] <= n
      BY DEF Sorted
    <3>2. Len(t) + 1 - 1 = Len(t)
      BY <1>1
    <3>3. ASSUME NEW j \in 1..Len(t) PROVE t2[j] < n + 1
      <4>1. t2[j] \in Nat /\ t2[j] <= n
        BY <1>1, <3>1
      <4> QED
        BY <4>1
    <3> QED
      BY <3>2, <3>3
  <2>3. \A k \in 1..Len(t2) : k \in 1..Len(t) \/ k = Len(t) + 1
    BY <1>1
  <2> QED
    BY <1>1, <1>2, <2>1, <2>2, <2>3 DEF Texts
<1>4. AllInFront(c, o, t2, 1)
  <2>1. ASSUME NEW j \in 1..Len(o) PROVE Contract!InFront(c, o[j].input, n + 1)
    <3>1. o[j].input # 0 /\ c.inputs[o[j].input] \in Contract!Ready
      BY DEF Sorted, AllInFront
    <3> QED
      BY <1>2, <3>1 DEF Contract!InFront
  <2>2. ASSUME NEW j \in 1..Len(o), NEW k \in 1..Len(t2)
        PROVE  Contract!InFront(c, o[j].input, t2[k])
    <3>1. k \in 1..Len(t) \/ k = Len(t) + 1
      BY <1>1
    <3> QED
      BY <1>1, <2>1, <3>1 DEF AllInFront
  <2> QED
    BY <2>2 DEF AllInFront
<1>5. Sorted(c, o, t2, n + 1)
  <2>1. \A i \in 1..(n + 1) : i = n + 1 \/ i \in 1..n
    OBVIOUS
  <2>2. \A k \in 1..Len(o) : o[k].input <= n + 1 /\ c.inputs[o[k].input] \in Contract!Ready
    BY <1>1 DEF Sorted
  <2>3. \A k \in 1..Len(t2) : t2[k] <= n + 1
    BY <1>1 DEF Sorted
  <2>4. Understood(c, n + 1)
    BY <1>2, <2>1 DEF Sorted, Understood
  <2> QED
    BY <1>1, <2>2, <2>3, <2>4 DEF Sorted
<1> QED
  BY <1>3, <1>4, <1>5 DEF t2

\* the next one that is an object behind the objects and in front of the texts,
LEMMA ObjectNext ==
    ASSUME NEW c \in Call, NEW o \in Seq(Path), NEW t \in Seq(1..MaxInputs), NEW n \in Nat,
           NEW e \in Path, e.input = n + 1,
           Ordered(c, o), Texts(c, t), AllInFront(c, o, t, 1), Sorted(c, o, t, n),
           n + 1 \in 1..Len(c.inputs), Len(c.inputs) \in Nat, c.inputs[n + 1] \in Contract!Ready,
           e.name = NoName => c.inputs[n + 1] = "object"
    PROVE  /\ Ordered(c, Append(o, e)) /\ AllInFront(c, Append(o, e), t, 1)
           /\ Sorted(c, Append(o, e), t, n + 1)
<1> DEFINE o2 == Append(o, e)
<1>1. /\ Len(o) \in Nat /\ Len(o2) = Len(o) + 1 /\ o2[Len(o) + 1] = e
      /\ \A k \in 1..Len(o) : o2[k] = o[k] /\ o[k].input \in Nat
      /\ Len(t) \in Nat /\ \A k \in 1..Len(t) : t[k] \in Nat
  BY Elements, Appended
<1> HIDE DEF o2
<1>2. \A j \in 1..Len(o) : Contract!InFront(c, o[j].input, n + 1)
  <2>1. ASSUME NEW j \in 1..Len(o) PROVE Contract!InFront(c, o[j].input, n + 1)
    <3>1. o[j].input # 0 /\ c.inputs[o[j].input] \in Contract!Ready /\ o[j].input <= n
      BY DEF Sorted, AllInFront
    <3> QED
      BY <1>1, <3>1 DEF Contract!InFront
  <2> QED
    BY <2>1
<1>3. \A k \in 1..Len(o2) : k \in 1..Len(o) \/ (k = Len(o) + 1 /\ o2[k] = e)
  BY <1>1
<1>4. Ordered(c, o2)
  <2>1. n + 1 \in Contract!Position(c)
    BY DEF Contract!Position
  <2>2. ASSUME NEW k \in 1..Len(o) PROVE \A j \in 1..(k - 1) : j \in 1..Len(o)
    BY <1>1
  <2>3. \A j \in 1..Len(o) : Contract!InFront(c, o2[j].input, n + 1)
    BY <1>1, <1>2
  <2>4. ASSUME NEW k \in 1..Len(o)
        PROVE  /\ o2[k].input \in Contract!Position(c) /\ (o2[k].input = 0 => o2[k].name = NoName)
               /\ o2[k].name = NoName => o2[k].input = 0 \/ c.inputs[o2[k].input] = "object"
               /\ \A j \in 1..(k - 1) : Contract!InFront(c, o2[j].input, o2[k].input)
    BY <1>1, <2>2 DEF Ordered
  <2>5. /\ e.input \in Contract!Position(c) /\ e.input # 0
        /\ \A j \in 1..(Len(o) + 1 - 1) : Contract!InFront(c, o2[j].input, e.input)
    BY <1>1, <2>1, <2>3
  <2> QED
    BY <1>3, <2>4, <2>5 DEF Ordered
<1>5. AllInFront(c, o2, t, 1)
  <2>1. ASSUME NEW k \in 1..Len(t) PROVE Contract!InFront(c, n + 1, t[k])
    BY <1>1 DEF Contract!InFront, Texts
  <2>2. \A j \in 1..Len(o) : o2[j].input # 0
                /\ \A k \in 1..Len(t) : Contract!InFront(c, o2[j].input, t[k])
    BY <1>1 DEF AllInFront
  <2> QED
    <3>1. ASSUME NEW j \in 1..Len(o2)
          PROVE  o2[j].input # 0 /\ \A k \in 1..Len(t) : Contract!InFront(c, o2[j].input, t[k])
      <4>1. CASE j \in 1..Len(o)
        BY <2>2, <4>1
      <4>2. CASE o2[j] = e
        BY <2>1, <4>2
      <4> QED
        BY <1>3, <4>1, <4>2
    <3> QED
      BY <3>1 DEF AllInFront
<1>6. Sorted(c, o2, t, n + 1)
  <2>1. \A i \in 1..(n + 1) : i = n + 1 \/ i \in 1..n
    OBVIOUS
  <2>2. \A k \in 1..Len(t) : t[k] <= n + 1
    <3>1. \A k \in 1..Len(t) : t[k] <= n
      BY DEF Sorted
    <3> QED
      BY <1>1, <3>1, SMTT(30)
  <2>3. \A k \in 1..Len(o2) : o2[k].input <= n + 1 /\ c.inputs[o2[k].input] \in Contract!Ready
    BY <1>1, <1>3, SMTT(30) DEF Sorted
  <2>4. Understood(c, n + 1)
    BY <2>1 DEF Sorted, Understood, Contract!Ready
  <2> QED
    BY <1>1, <2>2, <2>3, <2>4 DEF Sorted
<1> QED
  BY <1>4, <1>5, <1>6 DEF o2

\* the first text that is not compiled yet, once it is, behind the objects,
LEMMA TextCompiled ==
    ASSUME NEW c \in Call, NEW o \in Seq(Path), NEW t \in Seq(1..MaxInputs), NEW from \in Nat,
           NEW e \in Path, from \in 1..Len(t), e.input = t[from], e.name # NoName,
           Len(c.inputs) \in Nat,
           Ordered(c, o), Texts(c, t), AllInFront(c, o, t, from)
    PROVE  Ordered(c, Append(o, e)) /\ AllInFront(c, Append(o, e), t, from + 1)
<1> DEFINE o2 == Append(o, e)
<1>1. /\ Len(o) \in Nat /\ Len(o2) = Len(o) + 1 /\ o2[Len(o) + 1] = e
      /\ \A k \in 1..Len(o) : o2[k] = o[k]
      /\ Len(t) \in Nat /\ \A k \in 1..Len(t) : t[k] \in Nat /\ t[k] # 0
  BY Elements, Appended
<1> HIDE DEF o2
<1>2. \A j \in 1..Len(o) : Contract!InFront(c, o[j].input, e.input)
  BY <1>1 DEF AllInFront
<1>3. \A k \in 1..Len(o2) : k \in 1..Len(o) \/ (k = Len(o) + 1 /\ o2[k] = e)
  BY <1>1
<1>4. Ordered(c, o2)
  <2>1. e.input \in Contract!Position(c)
    BY <1>1 DEF Contract!Position, Texts
  <2>2. ASSUME NEW k \in 1..Len(o) PROVE \A j \in 1..(k - 1) : j \in 1..Len(o)
    BY <1>1
  <2>3. \A j \in 1..Len(o) : Contract!InFront(c, o2[j].input, e.input)
    BY <1>1, <1>2
  <2>4. ASSUME NEW k \in 1..Len(o)
        PROVE  /\ o2[k].input \in Contract!Position(c) /\ (o2[k].input = 0 => o2[k].name = NoName)
               /\ o2[k].name = NoName => o2[k].input = 0 \/ c.inputs[o2[k].input] = "object"
               /\ \A j \in 1..(k - 1) : Contract!InFront(c, o2[j].input, o2[k].input)
    BY <1>1, <2>2 DEF Ordered
  <2>5. /\ e.input # 0
        /\ \A j \in 1..(Len(o) + 1 - 1) : Contract!InFront(c, o2[j].input, e.input)
    BY <1>1, <2>3
  <2> QED
    BY <1>3, <2>1, <2>4, <2>5 DEF Ordered
<1>5. AllInFront(c, o2, t, from + 1)
  <2>1. ASSUME NEW k \in (from + 1)..Len(t) PROVE Contract!InFront(c, e.input, t[k])
    <3>1. k \in 1..Len(t) /\ from \in 1..(k - 1) /\ k \in from..Len(t)
      BY <1>1
    <3>2. t[from] < t[k] /\ c.inputs[t[from]] \notin Contract!Ready /\ c.inputs[t[k]] \notin Contract!Ready
      BY <3>1 DEF Texts
    <3> QED
      BY <1>1, <3>2 DEF Contract!InFront
  <2>2. ASSUME NEW j \in 1..Len(o), NEW k \in (from + 1)..Len(t)
        PROVE  Contract!InFront(c, o2[j].input, t[k])
    <3>1. k \in from..Len(t)
      BY <1>1
    <3> QED
      BY <1>1, <3>1 DEF AllInFront
  <2>3. \A k \in 1..Len(o2) : o2[k].input # 0
    BY <1>1, <1>3 DEF AllInFront
  <2> QED
    BY <1>3, <2>1, <2>2, <2>3 DEF AllInFront
<1> QED
  BY <1>4, <1>5 DEF o2

\* and _start.o at the very end.
LEMMA StartAdded ==
    ASSUME NEW c \in Call, NEW o \in Seq(Path), NEW e \in Path, e.input = 0, e.name = NoName,
           c.op = "fir", Len(c.inputs) \in Nat, Ordered(c, o), \A k \in 1..Len(o) : o[k].input # 0
    PROVE  Ordered(c, Append(o, e))
<1> DEFINE o2 == Append(o, e)
<1>1. /\ Len(o) \in Nat /\ Len(o2) = Len(o) + 1 /\ o2[Len(o) + 1] = e
      /\ \A k \in 1..Len(o) : o2[k] = o[k]
  BY Appended
<1> HIDE DEF o2
<1>2. \A k \in 1..Len(o2) : k \in 1..Len(o) \/ (k = Len(o) + 1 /\ o2[k] = e)
  BY <1>1
<1>3. 0 \in Contract!Position(c)
  BY DEF Contract!Position
<1>4. \A j \in 1..(Len(o) + 1 - 1) : Contract!InFront(c, o2[j].input, 0)
  BY <1>1 DEF Contract!InFront
<1>5. ASSUME NEW k \in 1..Len(o)
      PROVE  /\ o2[k].input \in Contract!Position(c) /\ (o2[k].input = 0 => o2[k].name = NoName)
             /\ o2[k].name = NoName => o2[k].input = 0 \/ c.inputs[o2[k].input] = "object"
             /\ \A j \in 1..(k - 1) : Contract!InFront(c, o2[j].input, o2[k].input)
  <2>1. \A j \in 1..(k - 1) : j \in 1..Len(o)
    BY <1>1
  <2> QED
    BY <1>1, <2>1 DEF Ordered
<1> QED
  BY <1>2, <1>3, <1>4, <1>5 DEF Ordered, o2

\* The ends of a call that leave the directory as it is.
LEMMA EndsQuietly ==
    ASSUME TypeOK, NEW p \in Proc, OwnInv(p),
           \/ SourceNotOpened(p) \/ ParserThrows(p) \/ SourceExits(p) \/ UnknownType(p)
           \/ NoTempDirectory(p) \/ CreateFails(p) \/ EmitAborts(p)
    PROVE  OwnInv(p)'
<1> USE DEF OwnInv, Over, At, HoldsTemp, Op, Inputs
<1>1. /\ pc'[p] \in {"returned", "exited"} /\ pos'[p] = pos[p] /\ objs'[p] = objs[p]
      /\ call'[p] = call[p] /\ temp'[p] = temp[p] /\ fds'[p] = fds[p] /\ linker'[p] = linker[p]
      /\ scratch'[p] = scratch[p] /\ (pc'[p] = "returned" => result'[p] = "false")
      /\ UNCHANGED <<owner, code, stuck>>
      /\ \/ pc[p] \in {"inputs", "parse", "tempdir", "irs"}
         \/ pc[p] = "emit" /\ pc'[p] = "exited"
  BY DEF SourceNotOpened, ParserThrows, SourceExits, UnknownType, NoTempDirectory, CreateFails,
     EmitAborts, HasSource, HasInput, NeedsTemp, HasIr, Fail, Die, Goto, TypeOK
<1>2. Control(p)' /\ FirObjects(p)' /\ Isolated(p)' /\ Lines(p)' /\ Asked(p)'
  BY <1>1 DEF Control, FirObjects, Isolated, Lines, Collecting, Asked
<1>3. Opened(p)'
  <2>1. scratch[p] => pc[p] = "parse" /\ Present(p) \in Source
    BY <1>1 DEF Opened, Control
  <2> QED
    BY <1>1, <2>1 DEF Opened, Present
<1>4. Accounted(p)'
  <2>1. ASSUME NEW n \in Name, owner'[n] = p, n \notin stuck' PROVE Kept(p, n)'
    <3>1. CASE pc'[p] = "exited"
      BY <3>1 DEF Kept
    <3>2. CASE pc'[p] = "returned"
      <4>1. n \in ObjectNames(p) /\ linker[p] = "none" /\ Op(p) \in {"files", "fir"}
        BY <1>1, <2>1, <3>2, CallFacts DEF Accounted, Kept
      <4> QED
        BY <1>1, <3>2, <4>1 DEF Kept, ObjectNames
    <3> QED
      BY <1>1, <3>1, <3>2
  <2> QED
    BY <1>1, <2>1 DEF Accounted
<1> QED
  BY <1>2, <1>3, <1>4

\* The ends of a call that has a file of its round: compile_fir_to_exe removes
\* it, compile_from_files_to_exe leaves it empty.
LEMMA EndsWithTemp ==
    ASSUME TypeOK, NEW p \in Proc, OwnInv(p),
           ConversionFails(p) \/ OpenFails(p) \/ FdopenFails(p) \/ PathFails(p)
    PROVE  OwnInv(p)'
<1> USE DEF OwnInv, Over, At, HoldsTemp, Op, Inputs
<1>1. /\ pc'[p] = "returned" /\ pos'[p] = pos[p] /\ objs'[p] = objs[p]
      /\ call'[p] = call[p] /\ temp'[p] = temp[p] /\ linker'[p] = linker[p]
      /\ scratch'[p] = scratch[p] /\ pc[p] \in {"llc", "open", "fdopen", "fclose"}
  BY DEF ConversionFails, OpenFails, FdopenFails, PathFails, Fail, Goto, TypeOK
<1>2. Control(p)' /\ FirObjects(p)' /\ Isolated(p)' /\ Lines(p)' /\ Asked(p)'
  BY <1>1 DEF Control, FirObjects, Isolated, Lines, Collecting, Asked
<1>3. Opened(p)'
  <2>3. ~ scratch'[p]
    BY <1>1 DEF Opened
  <2>1. CASE ConversionFails(p) \/ OpenFails(p)
    <3>1. fds[p] = {} /\ fds' = fds
      BY <2>1 DEF ConversionFails, OpenFails, Opened
    <3> QED
      BY <2>3, <3>1 DEF Opened
  <2>2. CASE FdopenFails(p) \/ PathFails(p)
    <3>1. fds'[p] = fds[p] \ {temp[p]}
      BY <2>2 DEF FdopenFails, PathFails, Close, TypeOK
    <3>2. fds[p] \subseteq {temp[p]}
      BY DEF Opened
    <3> QED
      BY <2>3, <3>1, <3>2 DEF Opened
  <2> QED
    BY <2>1, <2>2
<1>4. Accounted(p)'
  <2>1. ASSUME NEW n \in Name, owner'[n] = p, n \notin stuck' PROVE Kept(p, n)'
    <3>1. /\ linker[p] = "none" /\ Op(p) \in {"files", "fir"} /\ temp[p] \in Name
          /\ pc[p] = "llc" => Op(p) = "files"
      BY <1>1, CallFacts DEF Accounted, Control, Collecting
    <3>2. CASE Remove(temp[p])
      <4>1. n # temp[p] /\ owner[n] = p /\ n \notin stuck
        BY <2>1, <3>1, <3>2, BuildAssumption DEF Remove, TypeOK
      <4>2. n \in ObjectNames(p)
        BY <1>1, <4>1 DEF Accounted, Kept
      <4> QED
        BY <1>1, <3>1, <4>2 DEF Kept, ObjectNames
    <3>3. CASE /\ Op(p) = "files" /\ pc[p] \in {"open", "fdopen"}
               /\ UNCHANGED <<owner, code, stuck>>
      <4>1. code'[temp[p]] = {}
        BY <3>3 DEF Isolated
      <4>2. n \in ObjectNames(p) \/ n = temp[p]
        BY <1>1, <2>1, <3>3 DEF Accounted, Kept
      <4> QED
        BY <1>1, <3>3, <4>1, <4>2 DEF Kept, ObjectNames
    <3> QED
      BY <3>1, <3>2, <3>3 DEF ConversionFails, OpenFails, FdopenFails, PathFails
  <2> QED
    BY <1>1, <2>1 DEF Accounted
<1> QED
  BY <1>2, <1>3, <1>4

\* The text of a source is opened, the directory of the temporary files found.
LEMMA Prepares ==
    ASSUME TypeOK, NEW p \in Proc, OwnInv(p), OpenSource(p) \/ FindTempDirectory(p)
    PROVE  OwnInv(p)'
<1> USE DEF OwnInv, Over, At, HoldsTemp, Op, Inputs, Present
<1>1. /\ pos'[p] = pos[p] /\ objs'[p] = objs[p] /\ irs'[p] = irs[p] /\ call'[p] = call[p]
      /\ temp'[p] = temp[p] /\ fds'[p] = fds[p] /\ linker'[p] = linker[p]
      /\ UNCHANGED <<owner, code, stuck>>
      /\ \/ /\ pc[p] = "inputs" /\ pc'[p] = "parse" /\ pos[p] <= Len(Inputs(p))
            /\ Present(p) \in Source
         \/ pc[p] = "tempdir" /\ pc'[p] = "irs" /\ scratch'[p] = scratch[p]
  BY DEF OpenSource, FindTempDirectory, HasSource, HasInput, Goto, TypeOK
<1>2. Control(p)' /\ FirObjects(p)' /\ Asked(p)'
  BY <1>1 DEF Control, Collecting, FirObjects, Asked
<1>3. Isolated(p)'
  <2>1. \A k \in 1..Len(objs[p]) : objs[p][k].name # NoName => OwnObject(p, k)
    BY <1>1 DEF Isolated, First
  <2>2. \A k \in 1..Len(objs[p]) : objs[p][k].name # NoName => OwnObject(p, k)'
    BY <1>1, <2>1 DEF OwnObject, Holds, Emitted
  <2> QED
    BY <1>1, <2>2 DEF Isolated, First
<1>4. Opened(p)' /\ Accounted(p)'
  BY <1>1 DEF Opened, Accounted, Kept, ObjectNames
<1>5. Lines(p)'
  BY <1>1 DEF Lines, Rest, Collecting
<1> QED
  BY <1>2, <1>3, <1>4, <1>5

\* The next input is a text: it comes after those that are there.
LEMMA AddsText ==
    ASSUME TypeOK, NEW p \in Proc, OwnInv(p), CompileSource(p) \/ AddIrFile(p)
    PROVE  OwnInv(p)'
<1> USE DEF OwnInv, Over, At, HoldsTemp, Op, Inputs
<1>1. /\ pc[p] \in {"inputs", "parse"} /\ pc'[p] = "inputs" /\ pos'[p] = pos[p] + 1
      /\ objs'[p] = objs[p] /\ call'[p] = call[p] /\ temp'[p] = temp[p] /\ fds'[p] = fds[p]
      /\ linker'[p] = linker[p] /\ UNCHANGED <<owner, code, stuck>>
      /\ irs'[p] = Append(irs[p], pos[p])
      /\ pos[p] \in 1..Len(Inputs(p)) /\ Inputs(p)[pos[p]] \in Source \cup {"ir"}
  BY DEF CompileSource, AddIrFile, HasInput, Present, Advance, Goto, TypeOK, Control
<1>2. /\ Len(irs[p]) \in Nat /\ Len(irs'[p]) = Len(irs[p]) + 1
      /\ \A k \in 1..Len(irs[p]) : irs'[p][k] = irs[p][k]
      /\ irs'[p][Len(irs[p]) + 1] = pos[p]
      /\ Len(Inputs(p)) \in 0..MaxInputs /\ pos[p] \in 1..MaxInputs
  <2>1. irs[p] \in Seq(1..MaxInputs) /\ Len(Inputs(p)) \in 0..MaxInputs
    BY CallFacts DEF TypeOK
  <2>2. pos[p] \in 1..MaxInputs
    BY <1>1, <2>1, BuildAssumption
  <2> QED
    BY <1>1, <2>1, <2>2, Appended
<1>3. Control(p)' /\ FirObjects(p)' /\ Asked(p)'
  BY <1>1, <1>2, BuildAssumption DEF Control, Collecting, FirObjects, Asked, TypeOK
<1>4. Isolated(p)'
  <2>1. ASSUME NEW k \in 1..Len(objs[p]), objs[p][k].name # NoName PROVE OwnObject(p, k)'
    <3>1. OwnObject(p, k)
      BY <1>1, <2>1 DEF Isolated, First
    <3> QED
      BY <1>1, <1>2, <3>1 DEF OwnObject, Holds, Emitted
  <2> QED
    BY <1>1, <2>1 DEF Isolated, First
<1>5. Opened(p)'
  <2>1. ~ scratch'[p]
    <3>1. scratch[p] => pc[p] = "parse"
      BY <1>1 DEF Opened
    <3> QED
      BY <1>1, <3>1 DEF CompileSource, AddIrFile, HasInput, TypeOK
  <2> QED
    BY <1>1, <2>1 DEF Opened
<1>6. Accounted(p)'
  <2>1. \A n \in Name : (Kept(p, n) => n \in ObjectNames(p)) /\ (n \in ObjectNames(p) => Kept(p, n)')
    BY <1>1 DEF Kept, ObjectNames
  <2> QED
    BY <1>1, <2>1 DEF Accounted
<1>7. Lines(p)'
  <2>1. /\ Texts(call[p], irs[p]) /\ AllInFront(call[p], objs[p], irs[p], 1)
        /\ Sorted(call[p], objs[p], irs[p], pos[p] - 1) /\ Ordered(call[p], objs[p])
    BY <1>1 DEF Lines, Collecting, Rest
  <2>2. /\ Texts(call[p], Append(irs[p], pos[p]))
        /\ AllInFront(call[p], objs[p], Append(irs[p], pos[p]), 1)
        /\ Sorted(call[p], objs[p], Append(irs[p], pos[p]), pos[p])
    <3>1. pos[p] - 1 \in Nat /\ pos[p] - 1 + 1 = pos[p] /\ pos[p] \in 1..MaxInputs
      BY <1>1, <1>2
    <3>2. call[p] \in Call /\ objs[p] \in Seq(Path) /\ irs[p] \in Seq(1..MaxInputs)
      BY DEF TypeOK
    <3> QED
      BY <1>1, <2>1, <3>1, <3>2, TextNext
  <2>3. pos[p] + 1 - 1 = pos[p]
    BY <1>1
  <2> QED
    BY <1>1, <2>1, <2>2, <2>3 DEF Lines, Collecting, Rest
<1> QED
  BY <1>3, <1>4, <1>5, <1>6, <1>7

LEMMA NamesOfObjects == ASSUME TypeOK, NEW p \in Proc PROVE ObjectNames(p) \subseteq Name
<1> SUFFICES ASSUME NEW k \in 1..Len(objs[p]), objs[p][k].name # NoName
             PROVE  objs[p][k].name \in Name
  BY DEF ObjectNames
<1>1. objs[p][k] \in Path
  BY ElementsOf DEF TypeOK
<1> QED
  BY <1>1 DEF Path

\* The objects a process has stay its own as long as their files are left alone.
LEMMA ObjectsStay ==
    ASSUME TypeOK, NEW p \in Proc, OwnInv(p), Linking(p),
           \A n \in ObjectNames(p) : owner'[n] = owner[n] /\ code'[n] = code[n],
           \A k \in 1..Len(objs[p]) : objs'[p][k] = objs[p][k],
           call'[p] = call[p]
    PROVE  \A k \in 1..Len(objs[p]) : objs[p][k].name # NoName => OwnObject(p, k)'
<1> SUFFICES ASSUME NEW k \in 1..Len(objs[p]), objs[p][k].name # NoName PROVE OwnObject(p, k)'
  OBVIOUS
<1>1. OwnObject(p, k)
  BY DEF OwnInv, Isolated, Linking, First
<1>2. objs[p][k].name \in ObjectNames(p)
  BY DEF ObjectNames
<1>3. \A j \in 1..(k - 1) : j \in 1..Len(objs[p])
  BY DEF TypeOK
<1> QED
  BY <1>1, <1>2, <1>3, ZenonT(40) DEF OwnObject, Holds, Emitted, Inputs

\* An object is appended.
LEMMA ObjectsGrow ==
    ASSUME TypeOK, NEW p \in Proc, NEW e \in Path, objs'[p] = Append(objs[p], e)
    PROVE  /\ Len(objs[p]) \in Nat /\ Len(objs'[p]) = Len(objs[p]) + 1
           /\ objs'[p][Len(objs[p]) + 1] = e
           /\ \A k \in 1..Len(objs[p]) : objs'[p][k] = objs[p][k]
           /\ \A k \in 1..Len(objs'[p]) : k \in 1..Len(objs[p]) \/ k = Len(objs[p]) + 1
           /\ ObjectNames(p)' = ObjectNames(p) \cup ({e.name} \ {NoName})
<1>1. objs[p] \in Seq(Path)
  BY DEF TypeOK
<1>2. /\ Len(objs[p]) \in Nat /\ Len(objs'[p]) = Len(objs[p]) + 1
      /\ objs'[p][Len(objs[p]) + 1] = e
      /\ \A k \in 1..Len(objs[p]) : objs'[p][k] = objs[p][k]
  BY <1>1, Appended
<1>3. \A k \in 1..(Len(objs[p]) + 1) : k \in 1..Len(objs[p]) \/ k = Len(objs[p]) + 1
  BY <1>2
<1>4. \A k \in 1..Len(objs[p]) : k \in 1..Len(objs'[p])
  BY <1>2
<1>5. Len(objs[p]) + 1 \in 1..Len(objs'[p])
  BY <1>2
<1> QED
  BY <1>2, <1>3, <1>4, <1>5 DEF ObjectNames

LEMMA AddsObjectFile ==
    ASSUME TypeOK, NEW p \in Proc, OwnInv(p), AddObjectFile(p)
    PROVE  OwnInv(p)'
<1> USE DEF OwnInv, Over, At, HoldsTemp, Op, Inputs
<1> DEFINE e == [input |-> pos[p], name |-> NoName]
<1>1. /\ pc[p] = "inputs" /\ pc'[p] = "inputs" /\ pos'[p] = pos[p] + 1 /\ irs'[p] = irs[p]
      /\ call'[p] = call[p] /\ temp'[p] = temp[p] /\ fds'[p] = fds[p] /\ linker'[p] = linker[p]
      /\ scratch'[p] = scratch[p]
      /\ UNCHANGED <<owner, code, stuck>>
      /\ objs'[p] = Append(objs[p], e)
      /\ pos[p] \in 1..Len(Inputs(p)) /\ Inputs(p)[pos[p]] = "object"
  BY DEF AddObjectFile, AddObject, HasInput, Present, Advance, TypeOK, Control
<1>2. Len(Inputs(p)) \in 0..MaxInputs /\ Op(p) = "files" /\ pos[p] \in Nat
  BY <1>1, CallFacts DEF Control, Collecting, TypeOK
<1>3. e \in Path
  BY <1>1, <1>2, BuildAssumption DEF Path
<1>4. /\ Len(objs[p]) \in Nat /\ Len(objs'[p]) = Len(objs[p]) + 1
      /\ objs'[p][Len(objs[p]) + 1] = e
      /\ \A k \in 1..Len(objs[p]) : objs'[p][k] = objs[p][k]
      /\ \A k \in 1..Len(objs'[p]) : k \in 1..Len(objs[p]) \/ k = Len(objs[p]) + 1
      /\ ObjectNames(p)' = ObjectNames(p)
  BY <1>1, <1>3, ObjectsGrow, ZenonT(40)
<1>5. Control(p)' /\ FirObjects(p)' /\ Asked(p)'
  BY <1>1, <1>2 DEF Control, Collecting, FirObjects, Asked
<1>6. Isolated(p)'
  <2>1. \A k \in 1..Len(objs[p]) : objs[p][k].name # NoName => OwnObject(p, k)'
    BY <1>1, <1>4, ObjectsStay DEF Linking
  <2>2. \A k \in 1..Len(objs'[p]) : objs'[p][k].name # NoName => OwnObject(p, k)'
    BY <1>4, <2>1
  <2> QED
    BY <1>1, <2>2 DEF Isolated, First
<1>7. Opened(p)'
  BY <1>1 DEF Opened
<1>8. Accounted(p)'
  BY <1>1, <1>4 DEF Accounted, Kept
<1>9. Lines(p)'
  <2>1. /\ Texts(call[p], irs[p]) /\ AllInFront(call[p], objs[p], irs[p], 1)
        /\ Sorted(call[p], objs[p], irs[p], pos[p] - 1) /\ Ordered(call[p], objs[p])
    BY <1>1 DEF Lines, Collecting, Rest
  <2>2. /\ Ordered(call[p], Append(objs[p], e))
        /\ AllInFront(call[p], Append(objs[p], e), irs[p], 1)
        /\ Sorted(call[p], Append(objs[p], e), irs[p], pos[p])
    <3>1. pos[p] - 1 \in Nat /\ pos[p] - 1 + 1 = pos[p] /\ Len(Inputs(p)) \in Nat
      BY <1>2, BuildAssumption DEF Control
    <3>2. call[p] \in Call /\ objs[p] \in Seq(Path) /\ irs[p] \in Seq(1..MaxInputs)
      BY DEF TypeOK
    <3>3. /\ Inputs(p)[pos[p]] \in Contract!Ready /\ e.input = pos[p]
          /\ e.name = NoName => Inputs(p)[pos[p]] = "object"
      BY <1>1, <1>3 DEF Contract!Ready
    <3> QED
      BY <1>1, <1>3, <2>1, <3>1, <3>2, <3>3, ObjectNext
  <2>3. pos[p] + 1 - 1 = pos[p]
    BY <1>1
  <2> QED
    BY <1>1, <2>1, <2>2, <2>3 DEF Lines, Collecting, Rest
<1> QED
  BY <1>5, <1>6, <1>7, <1>8, <1>9

LEMMA InputsEnd ==
    ASSUME TypeOK, NEW p \in Proc, OwnInv(p), EndOfInputs(p)
    PROVE  OwnInv(p)'
<1> USE DEF OwnInv, Over, At, HoldsTemp, Op, Inputs
<1>1. /\ pc[p] = "inputs" /\ pc'[p] = "irs" /\ pos'[p] = 1 /\ irs'[p] = irs[p]
      /\ call'[p] = call[p] /\ temp'[p] = temp[p] /\ fds'[p] = fds[p] /\ linker'[p] = linker[p]
      /\ scratch'[p] = scratch[p]
      /\ UNCHANGED <<owner, code, stuck>> /\ objs'[p] = objs[p] /\ pos[p] > Len(Inputs(p))
  BY DEF EndOfInputs, Goto, TypeOK
<1>2. Op(p) = "files" /\ pos[p] = Len(Inputs(p)) + 1 /\ Len(Inputs(p)) \in Nat /\ pos[p] \in Nat
  BY <1>1, CallFacts, BuildAssumption DEF Control, Collecting, TypeOK
<1>3. Len(irs[p]) \in Nat /\ Len(objs[p]) \in Nat
  BY DEF TypeOK
<1>4. Control(p)' /\ FirObjects(p)' /\ Asked(p)'
  BY <1>1, <1>2, <1>3 DEF Control, Collecting, FirObjects, Asked
<1>5. Isolated(p)'
  <2>1. \A k \in 1..Len(objs[p]) : objs[p][k].name # NoName => OwnObject(p, k)'
    BY <1>1, ObjectsStay DEF Linking
  <2> QED
    BY <1>1, <2>1 DEF Isolated, First
<1>6. Opened(p)' /\ Accounted(p)'
  BY <1>1 DEF Opened, Accounted, Kept, ObjectNames
<1>7. Lines(p)'
  <2>1. pos[p] - 1 = Len(Inputs(p))
    BY <1>2
  <2>2. Len(objs[p]) + Len(irs[p]) = Len(Inputs(p)) /\ Understood(call[p], Len(Inputs(p)))
    BY <1>1, <2>1 DEF Lines, Collecting, Sorted
  <2> QED
    BY <1>1, <1>2, <1>3, <2>2 DEF Lines, Collecting, Rest
<1> QED
  BY <1>4, <1>5, <1>6, <1>7

\* A file that is created was nobody's, so it is none of the objects.
LEMMA Creates ==
    ASSUME TypeOK, NEW p \in Proc, OwnInv(p), NEW n \in Name,
           CreateForBitcode(p, n) \/ CreateForIr(p, n)
    PROVE  OwnInv(p)'
<1> USE DEF OwnInv, Over, At, HoldsTemp, Op, Inputs
<1>1. /\ (pc[p] = "inputs" /\ pc'[p] = "llc") \/ (pc[p] = "irs" /\ pc'[p] = "open")
      /\ pos'[p] = pos[p] /\ irs'[p] = irs[p] /\ objs'[p] = objs[p] /\ call'[p] = call[p]
      /\ temp'[p] = n /\ fds'[p] = fds[p] /\ linker'[p] = linker[p] /\ stuck' = stuck
      /\ scratch'[p] = scratch[p]
      /\ owner[n] = NoProc /\ owner'[n] = p /\ code'[n] = {}
      /\ \A m \in Name : m # n => owner'[m] = owner[m] /\ code'[m] = code[m]
  BY DEF CreateForBitcode, CreateForIr, CreateUnique, Unused, Exists, HasInput, HasIr, Goto, TypeOK
<1>2. /\ pc'[p] = "llc" => pos[p] <= Len(Inputs(p)) /\ Present(p) = "bitcode"
      /\ pc'[p] = "open" => pos[p] <= Len(irs[p])
      /\ Present(p)' = Present(p)
  BY <1>1 DEF CreateForBitcode, CreateForIr, HasInput, HasIr, Goto, Present
<1>3. \A m \in ObjectNames(p) : m \in Name /\ owner[m] = p
  <2>1. ASSUME NEW k \in 1..Len(objs[p]), objs[p][k].name # NoName
        PROVE  objs[p][k].name \in Name /\ owner[objs[p][k].name] = p
    <3>1. OwnObject(p, k)
      BY <1>1, <2>1 DEF Isolated, First
    <3>2. objs[p][k] \in Path
      BY ElementsOf DEF TypeOK
    <3> QED
      BY <2>1, <3>1, <3>2 DEF OwnObject, Holds, Path
  <2> QED
    BY <2>1 DEF ObjectNames
<1>4. n \notin ObjectNames(p) /\ ObjectNames(p)' = ObjectNames(p)
  BY <1>1, <1>3, BuildAssumption DEF ObjectNames
<1>5. Control(p)' /\ FirObjects(p)' /\ Asked(p)'
  BY <1>1, <1>2 DEF Control, Collecting, FirObjects, Asked
<1>6. Isolated(p)'
  <2>1. \A k \in 1..Len(objs[p]) : objs[p][k].name # NoName => OwnObject(p, k)'
    <3>1. \A m \in ObjectNames(p) : owner'[m] = owner[m] /\ code'[m] = code[m]
      BY <1>1, <1>3, <1>4
    <3> QED
      BY <1>1, <3>1, ObjectsStay DEF Linking
  <2> QED
    BY <1>1, <1>4, <2>1 DEF Isolated, First
<1>7. Opened(p)'
  BY <1>1 DEF Opened
<1>8. Accounted(p)'
  BY <1>1, <1>4 DEF Accounted, Kept
<1>9. Lines(p)'
  BY <1>1 DEF Lines, Collecting, Rest
<1> QED
  BY <1>5, <1>6, <1>7, <1>8, <1>9

\* llc has written the file of the round, which becomes an object.
LEMMA Converts ==
    ASSUME TypeOK, NEW p \in Proc, OwnInv(p), ConvertBitcode(p)
    PROVE  OwnInv(p)'
<1> USE DEF OwnInv, Over, At, HoldsTemp, Op, Inputs
<1> DEFINE e == [input |-> pos[p], name |-> temp[p]]
<1>1. /\ pc[p] = "llc" /\ pc'[p] = "inputs" /\ pos'[p] = pos[p] + 1 /\ irs'[p] = irs[p]
      /\ call'[p] = call[p] /\ temp'[p] = temp[p] /\ fds'[p] = fds[p] /\ linker'[p] = linker[p]
      /\ scratch'[p] = scratch[p]
      /\ UNCHANGED <<owner, stuck>>
      /\ objs'[p] = Append(objs[p], e)
      /\ pos[p] \in 1..Len(Inputs(p)) /\ Inputs(p)[pos[p]] = "bitcode" /\ temp[p] \in Name
  BY DEF ConvertBitcode, AddObject, Advance, Goto, Present, TypeOK, Control
<1>2. Len(Inputs(p)) \in 0..MaxInputs /\ Op(p) = "files" /\ pos[p] \in Nat
  BY <1>1, CallFacts DEF Control, Collecting, TypeOK
<1>3. e \in Path /\ temp[p] # NoName
  BY <1>1, <1>2, BuildAssumption DEF Path
<1>4. /\ Len(objs[p]) \in Nat /\ Len(objs'[p]) = Len(objs[p]) + 1
      /\ objs'[p][Len(objs[p]) + 1] = e
      /\ \A k \in 1..Len(objs[p]) : objs'[p][k] = objs[p][k]
      /\ \A k \in 1..Len(objs'[p]) : k \in 1..Len(objs[p]) \/ k = Len(objs[p]) + 1
      /\ ObjectNames(p)' = ObjectNames(p) \cup {temp[p]}
  BY <1>1, <1>3, ObjectsGrow
<1>5. /\ code'[temp[p]] = Emitted(p, pos[p]) /\ owner[temp[p]] = p
      /\ temp[p] \notin ObjectNames(p) /\ \A m \in Name : m # temp[p] => code'[m] = code[m]
  BY <1>1 DEF ConvertBitcode, TypeOK, Isolated, Emitted
<1>6. Control(p)' /\ FirObjects(p)' /\ Asked(p)'
  BY <1>1, <1>2 DEF Control, Collecting, FirObjects, Asked
<1>7. Isolated(p)'
  <2>1. \A k \in 1..Len(objs[p]) : objs[p][k].name # NoName => OwnObject(p, k)'
    <3>1. \A m \in ObjectNames(p) : m \in Name
      BY NamesOfObjects
    <3> QED
      BY <1>1, <1>4, <1>5, <3>1, ObjectsStay DEF Linking
  <2>2. ASSUME NEW k, k = Len(objs[p]) + 1 PROVE OwnObject(p, k)'
    <3>1. \A j \in 1..Len(objs[p]) : objs'[p][j].name # temp[p]
      BY <1>3, <1>4, <1>5 DEF ObjectNames
    <3>2. /\ k - 1 = Len(objs[p])
             /\ objs'[p][k].name = temp[p] /\ objs'[p][k].input = pos[p]
      BY <1>4, <2>2
    <3>3. Holds(p, objs[p][k].name, objs[p][k].input)'
      BY <1>1, <1>5, <3>2 DEF Holds, Emitted
    <3> QED
      BY <3>1, <3>2, <3>3 DEF OwnObject
  <2> QED
    BY <1>1, <1>4, <2>1, <2>2 DEF Isolated, First
<1>8. Opened(p)'
  BY <1>1 DEF Opened
<1>9. Accounted(p)'
  BY <1>1, <1>4 DEF Accounted, Kept
<1>10. Lines(p)'
  <2>1. /\ Texts(call[p], irs[p]) /\ AllInFront(call[p], objs[p], irs[p], 1)
        /\ Sorted(call[p], objs[p], irs[p], pos[p] - 1) /\ Ordered(call[p], objs[p])
    BY <1>1 DEF Lines, Collecting, Rest
  <2>2. /\ Ordered(call[p], Append(objs[p], e))
        /\ AllInFront(call[p], Append(objs[p], e), irs[p], 1)
        /\ Sorted(call[p], Append(objs[p], e), irs[p], pos[p])
    <3>1. pos[p] - 1 \in Nat /\ pos[p] - 1 + 1 = pos[p] /\ Len(Inputs(p)) \in Nat
      BY <1>2, BuildAssumption DEF Control
    <3>2. call[p] \in Call /\ objs[p] \in Seq(Path) /\ irs[p] \in Seq(1..MaxInputs)
      BY DEF TypeOK
    <3>3. /\ Inputs(p)[pos[p]] \in Contract!Ready /\ e.input = pos[p]
          /\ e.name = NoName => Inputs(p)[pos[p]] = "object"
      BY <1>1, <1>3 DEF Contract!Ready
    <3> QED
      BY <1>1, <1>3, <2>1, <3>1, <3>2, <3>3, ObjectNext
  <2>3. pos[p] + 1 - 1 = pos[p]
    BY <1>1
  <2> QED
    BY <1>1, <2>1, <2>2, <2>3 DEF Lines, Collecting, Rest
<1> QED
  BY <1>6, <1>7, <1>8, <1>9, <1>10

\* What the IR of a round was made from.
LEMMA TextKinds ==
    ASSUME TypeOK, NEW p \in Proc, OwnInv(p), pc[p] \in {"emit", "fclose"}
    PROVE  /\ irs[p][pos[p]] # 0
           /\ Inputs(p)[irs[p][pos[p]]] \in Source \cup Text \cup {"ir"}
<1> DEFINE i == irs[p][pos[p]]
<1>1. pos[p] \in 1..Len(irs[p]) /\ irs[p] \in Seq(1..MaxInputs)
  BY DEF OwnInv, Control, TypeOK
<1>2. /\ i \in 1..Len(Inputs(p)) /\ Inputs(p)[i] \notin Contract!Ready
      /\ Inputs(p)[i] # "unknown"
  BY <1>1 DEF OwnInv, Lines, Texts, Understood, Inputs
<1>3. i # 0
  <2>1. i \in 1..MaxInputs
    BY <1>1, ElementsOf
  <2> QED
    BY <2>1, BuildAssumption
<1> QED
  BY <1>2, <1>3, CallFacts DEF Contract!Ready, FileKind

\* The steps of a round on the file it holds.
LEMMA WorksOnTemp ==
    ASSUME TypeOK, NEW p \in Proc, OwnInv(p),
           OpenTemp(p) \/ FdopenTemp(p) \/ EmitObject(p)
    PROVE  OwnInv(p)'
<1> USE DEF OwnInv, Over, At, HoldsTemp, Op, Inputs
<1>1. /\ \/ pc[p] = "open" /\ pc'[p] = "fdopen"
         \/ pc[p] = "fdopen" /\ pc'[p] = "emit"
         \/ pc[p] = "emit" /\ pc'[p] = "fclose"
      /\ pos'[p] = pos[p] /\ irs'[p] = irs[p] /\ objs'[p] = objs[p] /\ call'[p] = call[p]
      /\ temp'[p] = temp[p] /\ linker'[p] = linker[p] /\ stuck' = stuck /\ scratch' = scratch
  BY DEF OpenTemp, FdopenTemp, EmitObject, Goto, TypeOK
<1>2. /\ temp[p] \in Name /\ owner[temp[p]] = p /\ temp[p] \notin ObjectNames(p)
      /\ code[temp[p]] = {}
  BY <1>1 DEF Control, Isolated
<1>3. owner' = owner
  BY <1>2, BuildAssumption DEF OpenTemp, FdopenTemp, EmitObject, Exists, TypeOK
<1>4. \A m \in Name : m # temp[p] => code'[m] = code[m]
  BY <1>2 DEF OpenTemp, FdopenTemp, EmitObject, TypeOK
<1>5. IF pc'[p] = "fclose" THEN code'[temp[p]] = Emitted(p, irs[p][pos[p]])
                          ELSE code'[temp[p]] = {}
  <2>1. CASE EmitObject(p)
    <3>1. code'[temp[p]] = IF Parses(p) THEN {<<p, irs[p][pos[p]]>>} ELSE {}
      BY <1>2, <2>1 DEF EmitObject, TypeOK
    <3>2. pc[p] = "emit"
      BY <2>1 DEF EmitObject
    <3>3. pc'[p] = "fclose"
      BY <1>1, <3>2
    <3>4. /\ irs[p][pos[p]] # 0
          /\ Parses(p) <=> Inputs(p)[irs[p][pos[p]]] \notin {"ir", "badsource", "badtext"}
      BY <3>2, TextKinds DEF Parses, Source, Text
    <3> QED
      BY <3>1, <3>3, <3>4 DEF Emitted
  <2>2. CASE OpenTemp(p) \/ FdopenTemp(p)
    BY <1>1, <1>2, <2>2 DEF OpenTemp, FdopenTemp, TypeOK
  <2> QED
    BY <2>1, <2>2
<1>6. Control(p)' /\ FirObjects(p)' /\ Asked(p)'
  BY <1>1 DEF Control, Collecting, FirObjects, Asked
<1>7. Isolated(p)'
  <2>1. \A k \in 1..Len(objs[p]) : objs[p][k].name # NoName => OwnObject(p, k)'
    <3>1. \A m \in ObjectNames(p) : m \in Name
      BY NamesOfObjects
    <3> QED
      BY <1>1, <1>2, <1>3, <1>4, <3>1, ObjectsStay DEF Linking
  <2>2. ObjectNames(p)' = ObjectNames(p) /\ Emitted(p, irs[p][pos[p]])' = Emitted(p, irs[p][pos[p]])
    BY <1>1 DEF ObjectNames, Emitted
  <2> QED
    BY <1>1, <1>2, <1>3, <1>5, <2>1, <2>2 DEF Isolated, First
<1>8. Opened(p)'
  <2>3. ~ scratch'[p]
    BY <1>1 DEF Opened
  <2>1. CASE OpenTemp(p)
    <3>1. fds'[p] = fds[p] \cup {temp[p]} /\ fds[p] = {} /\ pc'[p] = "fdopen"
      BY <2>1 DEF OpenTemp, Goto, TypeOK, Opened
    <3> QED
      BY <1>1, <1>2, <1>3, <2>3, <3>1 DEF Opened
  <2>2. CASE FdopenTemp(p) \/ EmitObject(p)
    BY <1>1, <1>3, <2>2, <2>3 DEF FdopenTemp, EmitObject, Opened
  <2> QED
    BY <2>1, <2>2
<1>9. Accounted(p)'
  BY <1>1, <1>3 DEF Accounted, Kept, ObjectNames
<1>10. Lines(p)'
  BY <1>1 DEF Lines, Collecting, Rest
<1> QED
  BY <1>6, <1>7, <1>8, <1>9, <1>10

\* The file of the round is closed and becomes an object.
LEMMA Closes ==
    ASSUME TypeOK, NEW p \in Proc, OwnInv(p), CloseTemp(p)
    PROVE  OwnInv(p)'
<1> USE DEF OwnInv, Over, At, HoldsTemp, Op, Inputs
<1> DEFINE i == irs[p][pos[p]]
           e == [input |-> i, name |-> temp[p]]
<1>1. /\ pc[p] = "fclose" /\ pc'[p] = "irs" /\ pos'[p] = pos[p] + 1 /\ irs'[p] = irs[p]
      /\ call'[p] = call[p] /\ temp'[p] = temp[p] /\ linker'[p] = linker[p]
      /\ scratch'[p] = scratch[p]
      /\ fds'[p] = fds[p] \ {temp[p]} /\ UNCHANGED <<owner, code, stuck>>
      /\ objs'[p] = Append(objs[p], e) /\ temp[p] \in Name
  BY DEF CloseTemp, AddObject, Close, Advance, Goto, TypeOK, Control
<1>2. /\ Len(irs[p]) \in Nat /\ pos[p] \in Nat /\ pos[p] \in 1..Len(irs[p])
      /\ i \in 1..MaxInputs
  <2>1. Len(irs[p]) \in Nat /\ pos[p] \in Nat /\ pos[p] \in 1..Len(irs[p])
    BY <1>1 DEF Control, TypeOK
  <2>2. irs[p] \in Seq(1..MaxInputs)
    BY DEF TypeOK
  <2> QED
    BY <2>1, <2>2, ElementsOf
<1>3. e \in Path /\ temp[p] # NoName
  BY <1>1, <1>2, BuildAssumption DEF Path
<1>4. /\ Len(objs[p]) \in Nat /\ Len(objs'[p]) = Len(objs[p]) + 1
      /\ objs'[p][Len(objs[p]) + 1] = e
      /\ \A k \in 1..Len(objs[p]) : objs'[p][k] = objs[p][k]
      /\ \A k \in 1..Len(objs'[p]) : k \in 1..Len(objs[p]) \/ k = Len(objs[p]) + 1
      /\ ObjectNames(p)' = ObjectNames(p) \cup {temp[p]}
  BY <1>1, <1>3, ObjectsGrow
<1>5. Holds(p, temp[p], i) /\ temp[p] \notin ObjectNames(p)
  BY <1>1 DEF Isolated, Holds
<1>6. Control(p)' /\ FirObjects(p)' /\ Asked(p)'
  <2>1. Control(p)' /\ Asked(p)'
    BY <1>1, <1>2 DEF Control, Collecting, Asked
  <2>2. Op(p) = "fir" => \A k \in 1..Len(objs'[p]) : objs'[p][k].name \in Name
    BY <1>1, <1>4 DEF FirObjects
  <2> QED
    BY <1>1, <2>1, <2>2 DEF FirObjects
<1>7. Isolated(p)'
  <2>1. \A k \in 1..Len(objs[p]) : objs[p][k].name # NoName => OwnObject(p, k)'
    BY <1>1, <1>4, ObjectsStay DEF Linking
  <2>2. ASSUME NEW k, k = Len(objs[p]) + 1 PROVE OwnObject(p, k)'
    <3>1. \A j \in 1..Len(objs[p]) : objs'[p][j].name # temp[p]
      BY <1>3, <1>4, <1>5 DEF ObjectNames
    <3>2. /\ k - 1 = Len(objs[p])
             /\ objs'[p][k].name = temp[p] /\ objs'[p][k].input = i
      BY <1>4, <2>2
    <3>3. Holds(p, objs[p][k].name, objs[p][k].input)'
      BY <1>1, <1>5, <3>2 DEF Holds, Emitted
    <3> QED
      BY <3>1, <3>2, <3>3 DEF OwnObject
  <2> QED
    BY <1>1, <1>4, <2>1, <2>2 DEF Isolated, First
<1>8. Opened(p)'
  <2>1. fds[p] \subseteq {temp[p]} /\ ~ scratch[p]
    BY <1>1 DEF Opened
  <2> QED
    BY <1>1, <2>1 DEF Opened
<1>9. Accounted(p)'
  BY <1>1, <1>4 DEF Accounted, Kept
<1>10. Lines(p)'
  <2>1. /\ Texts(call[p], irs[p]) /\ AllInFront(call[p], objs[p], irs[p], pos[p])
        /\ Ordered(call[p], objs[p])
        /\ Len(objs[p]) + Len(irs[p]) + 1 = Len(Inputs(p)) + pos[p]
        /\ Understood(call[p], Len(Inputs(p)))
    BY <1>1 DEF Lines, Collecting, Rest
  <2>2. Len(Inputs(p)) \in Nat
    BY CallFacts, BuildAssumption
  <2>3. /\ Ordered(call[p], Append(objs[p], e))
        /\ AllInFront(call[p], Append(objs[p], e), irs[p], pos[p] + 1)
    <3>1. call[p] \in Call /\ objs[p] \in Seq(Path) /\ irs[p] \in Seq(1..MaxInputs)
      BY DEF TypeOK
    <3>2. e.input = irs[p][pos[p]] /\ e.name # NoName
      BY <1>3
    <3> QED
      BY <1>2, <1>3, <2>1, <2>2, <3>1, <3>2, TextCompiled
  <2>4. Len(objs'[p]) + Len(irs'[p]) + 1 = Len(Inputs(p)) + pos'[p]
    <3>1. /\ Len(objs'[p]) = Len(objs[p]) + 1 /\ pos'[p] = pos[p] + 1 /\ irs'[p] = irs[p]
          /\ Len(objs[p]) \in Nat /\ Len(irs[p]) \in Nat /\ pos[p] \in Nat
      BY <1>1, <1>2, <1>4
    <3>2. Len(objs[p]) + Len(irs[p]) + 1 = Len(Inputs(p)) + pos[p]
      BY <2>1
    <3> DEFINE a == Len(objs[p])
               b == Len(irs[p])
               c == Len(Inputs(p))
               d == pos[p]
               a2 == Len(objs'[p])
               d2 == pos'[p]
    <3>3. Len(irs'[p]) = b
      BY <3>1
    <3>4. /\ a \in Nat /\ b \in Nat /\ c \in Nat /\ d \in Nat
          /\ a2 = a + 1 /\ d2 = d + 1 /\ a + b + 1 = c + d
      BY <2>2, <3>1, <3>2
    <3> HIDE DEF a, b, c, d, a2, d2, e
    <3>5. a2 + b + 1 = c + d2
      BY <3>4
    <3> QED
      BY <3>3, <3>5 DEF a2, d2, c
  <2> QED
    BY <1>1, <2>1, <2>3, <2>4 DEF Lines, Collecting, Rest
<1> QED
  BY <1>6, <1>7, <1>8, <1>9, <1>10

\* No text is left: there is one object for each input.
LEMMA IrsEnd ==
    ASSUME TypeOK, NEW p \in Proc, OwnInv(p), EndOfIrs(p)
    PROVE  OwnInv(p)'
<1> USE DEF OwnInv, Over, At, HoldsTemp, Op, Inputs
<1> DEFINE start == [input |-> 0, name |-> NoName]
<1>1. /\ pc[p] = "irs" /\ pos'[p] = pos[p] /\ irs'[p] = irs[p] /\ pos[p] > Len(irs[p])
      /\ call'[p] = call[p] /\ temp'[p] = temp[p] /\ fds'[p] = fds[p] /\ linker'[p] = linker[p]
      /\ scratch'[p] = scratch[p]
      /\ UNCHANGED <<owner, code, stuck>>
      /\ \/ Op(p) = "files" /\ pc'[p] = "returned" /\ objs'[p] = objs[p]
         \/ Op(p) = "files" /\ objs[p] # <<>> /\ pc'[p] = "link" /\ objs'[p] = objs[p]
         \/ Op(p) = "fir" /\ pc'[p] = "link" /\ objs'[p] = Append(objs[p], start)
  BY CallFacts DEF EndOfIrs, Fail, Goto, AddObject, TypeOK
<1>2. /\ Len(objs[p]) \in Nat /\ Len(irs[p]) \in Nat /\ Len(Inputs(p)) \in Nat /\ pos[p] \in Nat
      /\ start \in Path
  BY CallFacts, BuildAssumption DEF TypeOK, Path
<1>3. Len(objs[p]) = Len(Inputs(p)) /\ Understood(call[p], Len(Inputs(p)))
  <2>1. /\ Len(objs[p]) + Len(irs[p]) + 1 = Len(Inputs(p)) + pos[p]
        /\ Understood(call[p], Len(Inputs(p))) /\ pos[p] <= Len(irs[p]) + 1
    BY <1>1 DEF Lines, Control
  <2> DEFINE a == Len(objs[p])
             b == Len(irs[p])
             c == Len(Inputs(p))
             d == pos[p]
  <2>2. /\ a \in Nat /\ b \in Nat /\ c \in Nat /\ d \in Nat /\ a + b + 1 = c + d
        /\ d <= b + 1 /\ d > b
    BY <1>1, <1>2, <2>1
  <2> HIDE DEF a, b, c, d
  <2>3. a = c
    BY <2>2
  <2> QED
    BY <2>1, <2>3 DEF a, c
<1>4. Opened(p)'
  <2>1. ~ scratch[p]
    BY <1>1 DEF Opened
  <2> QED
    BY <1>1, <2>1 DEF Opened
<1>5. linker[p] = "none" /\ \A n \in Name : owner[n] = p /\ n \notin stuck => n \in ObjectNames(p)
  BY <1>1 DEF Accounted, Kept
<1>6. CASE Op(p) = "files" /\ pc'[p] = "returned" /\ objs'[p] = objs[p]
  <2>1. Control(p)' /\ FirObjects(p)' /\ Isolated(p)' /\ Lines(p)' /\ Asked(p)'
    BY <1>1, <1>6 DEF Control, FirObjects, Isolated, Lines, Collecting, Asked
  <2>2. Accounted(p)'
    BY <1>1, <1>5, <1>6 DEF Accounted, Kept, ObjectNames
  <2> QED
    BY <1>4, <2>1, <2>2
<1>7. CASE Op(p) = "files" /\ objs[p] # <<>> /\ pc'[p] = "link" /\ objs'[p] = objs[p]
  <2>1. Control(p)' /\ FirObjects(p)' /\ Asked(p)'
    BY <1>1, <1>7 DEF Control, Collecting, FirObjects, Asked
  <2>2. Isolated(p)'
    <3>1. \A k \in 1..Len(objs[p]) : objs[p][k].name # NoName => OwnObject(p, k)'
      BY <1>1, <1>7, ObjectsStay DEF Linking
    <3> QED
      BY <1>1, <1>7, <3>1 DEF Isolated, First
  <2>3. Accounted(p)'
    BY <1>1, <1>5, <1>7 DEF Accounted, Kept, ObjectNames
  <2>4. Lines(p)'
    <3>1. Contract!Count(call[p]) = Len(Inputs(p))
      BY <1>2, <1>7 DEF Contract!Count
    <3> QED
      BY <1>1, <1>3, <1>7, <3>1 DEF Lines, Collecting, Rest
  <2> QED
    BY <1>4, <2>1, <2>2, <2>3, <2>4
<1>8. CASE Op(p) = "fir" /\ pc'[p] = "link" /\ objs'[p] = Append(objs[p], start)
  <2>1. /\ Len(objs'[p]) = Len(objs[p]) + 1 /\ objs'[p][Len(objs[p]) + 1] = start
        /\ \A k \in 1..Len(objs[p]) : objs'[p][k] = objs[p][k]
        /\ \A k \in 1..Len(objs'[p]) : k \in 1..Len(objs[p]) \/ k = Len(objs[p]) + 1
        /\ ObjectNames(p)' = ObjectNames(p)
    <3>1. ObjectNames(p)' = ObjectNames(p) \cup ({start.name} \ {NoName})
      BY <1>2, <1>8, ObjectsGrow
    <3>2. {start.name} \ {NoName} = {}
      OBVIOUS
    <3>3. ObjectNames(p)' = ObjectNames(p)
      BY <3>1, <3>2
    <3> QED
      BY <1>2, <1>8, <3>3, ObjectsGrow
  <2>2. Control(p)' /\ Asked(p)'
    BY <1>1, <1>8 DEF Control, Collecting, Asked
  <2>3. FirObjects(p)'
    <3>1. \A k \in 1..Len(objs[p]) : objs[p][k].name \in Name
      BY <1>1, <1>8 DEF FirObjects
    <3>2. Len(objs'[p]) - 1 = Len(objs[p]) /\ Len(objs'[p]) >= 1
      BY <1>2, <2>1
    <3> QED
      BY <1>1, <1>8, <2>1, <3>1, <3>2 DEF FirObjects
  <2>4. Isolated(p)'
    <3>1. \A k \in 1..Len(objs[p]) : objs[p][k].name # NoName => OwnObject(p, k)'
      BY <1>1, <2>1, ObjectsStay DEF Linking
    <3>2. \A k \in 1..Len(objs'[p]) : objs'[p][k].name # NoName => OwnObject(p, k)'
      BY <2>1, <3>1
    <3> QED
      BY <1>1, <1>8, <3>2 DEF Isolated, First
  <2>5. Accounted(p)'
    BY <1>1, <1>5, <1>8, <2>1 DEF Accounted, Kept
  <2>6. Lines(p)'
    <3>1. Ordered(call[p], objs[p]) /\ \A k \in 1..Len(objs[p]) : objs[p][k].input # 0
      BY <1>1 DEF Lines, AllInFront
    <3>2. Ordered(call[p], Append(objs[p], start))
      <4>1. call[p] \in Call /\ objs[p] \in Seq(Path)
        BY DEF TypeOK
      <4> QED
        BY <1>2, <1>8, <3>1, <4>1, StartAdded
    <3>3. Contract!Count(call[p]) = Len(objs[p]) + 1
      BY <1>2, <1>3, <1>8 DEF Contract!Count
    <3>4. objs'[p] # <<>>
      BY <1>2, <2>1
    <3>5. Texts(call[p], irs[p])
      BY <1>1 DEF Lines
    <3> QED
      BY <1>1, <1>3, <1>8, <2>1, <3>2, <3>3, <3>4, <3>5 DEF Lines, Collecting
  <2> QED
    BY <1>4, <2>2, <2>3, <2>4, <2>5, <2>6
<1> QED
  BY <1>1, <1>6, <1>7, <1>8

LEMMA Links ==
    ASSUME TypeOK, NEW p \in Proc, OwnInv(p), NEW answer \in {"true", "false"}, Link(p, answer)
    PROVE  OwnInv(p)'
<1> USE DEF OwnInv, Over, At, HoldsTemp, Op, Inputs
<1>1. /\ pc[p] = "link" /\ pc'[p] = "clean" /\ pos'[p] = 1 /\ irs'[p] = irs[p]
      /\ objs'[p] = objs[p] /\ call'[p] = call[p] /\ temp'[p] = temp[p] /\ fds'[p] = fds[p]
      /\ scratch'[p] = scratch[p] /\ UNCHANGED <<owner, code, stuck>>
  BY DEF Link, Goto, TypeOK
<1>2. Control(p)' /\ FirObjects(p)' /\ Asked(p)'
  BY <1>1 DEF Control, Collecting, FirObjects, Asked
<1>3. Isolated(p)'
  <2>1. \A k \in 1..Len(objs[p]) : objs[p][k].name # NoName => OwnObject(p, k)'
    BY <1>1, ObjectsStay DEF Linking
  <2> QED
    BY <1>1, <2>1 DEF Isolated, First
<1>4. Opened(p)'
  BY <1>1 DEF Opened
<1>5. Accounted(p)'
  <2>1. ASSUME NEW n \in Name, owner'[n] = p, n \notin stuck' PROVE Kept(p, n)'
    <3>1. n \in ObjectNames(p) /\ Op(p) \in {"files", "fir"}
      BY <1>1, <2>1, CallFacts DEF Accounted, Kept
    <3>2. \E k \in 1..Len(objs[p]) : objs[p][k].name = n
      BY <3>1 DEF ObjectNames
    <3> QED
      BY <1>1, <3>1, <3>2 DEF Kept, ObjectNames
  <2> QED
    BY <1>1, <2>1 DEF Accounted
<1>6. Lines(p)'
  BY <1>1 DEF Lines, Collecting
<1> QED
  BY <1>2, <1>3, <1>4, <1>5, <1>6

\* One file less: the objects behind it are not the same file.
LEMMA Cleans ==
    ASSUME TypeOK, NEW p \in Proc, OwnInv(p), CleanTemp(p)
    PROVE  OwnInv(p)'
<1> USE DEF OwnInv, Over, At, HoldsTemp, Op, Inputs
<1> DEFINE gone == objs[p][pos[p]].name
<1>1. /\ pc[p] = "clean" /\ pc'[p] = "clean" /\ pos'[p] = pos[p] + 1 /\ irs'[p] = irs[p]
      /\ objs'[p] = objs[p] /\ call'[p] = call[p] /\ temp'[p] = temp[p] /\ fds'[p] = fds[p]
      /\ linker'[p] = linker[p] /\ scratch'[p] = scratch[p] /\ Op(p) = "fir" /\ Remove(gone)
      /\ Len(objs[p]) \in Nat /\ pos[p] \in Nat /\ pos[p] >= 1 /\ pos[p] < Len(objs[p])
  BY DEF CleanTemp, HasTemp, Advance, TypeOK, Control
<1>2. gone \in Name
  BY <1>1 DEF FirObjects
<1>3. /\ \A n \in Name : n # gone => owner'[n] = owner[n] /\ code'[n] = code[n]
      /\ \A n \in Name : owner'[n] = p => owner[n] = p
      /\ stuck \subseteq stuck' /\ (owner'[gone] = p => gone \in stuck')
  BY <1>1, <1>2, BuildAssumption DEF Remove, TypeOK
<1>4. Control(p)' /\ FirObjects(p)' /\ Opened(p)' /\ Lines(p)' /\ Asked(p)'
  <2>1. fds[p] = {} /\ ~ scratch[p]
    BY <1>1 DEF Opened
  <2> QED
    BY <1>1, <2>1 DEF Control, FirObjects, Opened, Lines, Collecting, Asked
<1>5. Isolated(p)'
  <2>1. ASSUME NEW k \in (pos[p] + 1)..Len(objs[p]), objs[p][k].name # NoName
        PROVE  OwnObject(p, k)'
    <3>1. k \in pos[p]..Len(objs[p]) /\ k \in 1..Len(objs[p]) /\ pos[p] \in 1..(k - 1)
      BY <1>1
    <3>2. OwnObject(p, k)
      BY <1>1, <2>1, <3>1 DEF Isolated, First
    <3>3. objs[p][k].name # gone /\ objs[p][k].name \in Name
      <4>1. objs[p][k].name \in ObjectNames(p)
        BY <2>1, <3>1 DEF ObjectNames
      <4> QED
        BY <3>1, <3>2, <4>1, NamesOfObjects DEF OwnObject
    <3> QED
      BY <1>1, <1>3, <3>2, <3>3 DEF OwnObject, Holds, Emitted
  <2> QED
    BY <1>1, <2>1 DEF Isolated, First
<1>6. Accounted(p)'
  <2>1. ASSUME NEW n \in Name, owner'[n] = p, n \notin stuck' PROVE Kept(p, n)'
    <3>1. n # gone /\ owner[n] = p /\ n \notin stuck
      BY <1>3, <2>1
    <3>2. PICK k \in pos[p]..Len(objs[p]) : objs[p][k].name = n
      BY <1>1, <3>1 DEF Accounted, Kept
    <3>3. k \in (pos[p] + 1)..Len(objs[p])
      BY <1>1, <3>1, <3>2
    <3> QED
      BY <1>1, <3>2, <3>3 DEF Kept
  <2> QED
    BY <1>1, <2>1 DEF Accounted
<1> QED
  BY <1>4, <1>5, <1>6

\* compile_fir_to_exe has come to _start.o, which is no file of its own.
LEMMA Returns ==
    ASSUME TypeOK, NEW p \in Proc, OwnInv(p), Return(p)
    PROVE  OwnInv(p)'
<1> USE DEF OwnInv, Over, At, HoldsTemp, Op, Inputs
<1>1. /\ pc[p] = "clean" /\ pc'[p] = "returned" /\ pos'[p] = pos[p] /\ objs'[p] = objs[p]
      /\ call'[p] = call[p] /\ temp'[p] = temp[p] /\ fds'[p] = fds[p]
      /\ scratch'[p] = scratch[p] /\ UNCHANGED <<owner, code, stuck>>
      /\ Len(objs[p]) \in Nat /\ pos[p] \in Nat /\ (Op(p) = "fir" => pos[p] >= Len(objs[p]))
  BY DEF Return, HasTemp, Goto, TypeOK
<1>2. Control(p)' /\ FirObjects(p)' /\ Isolated(p)' /\ Opened(p)' /\ Lines(p)' /\ Asked(p)'
  <2>1. ~ scratch[p]
    BY <1>1 DEF Opened
  <2> QED
    BY <1>1, <2>1 DEF Control, FirObjects, Isolated, Opened, Lines, Collecting, Asked
<1>3. Accounted(p)'
  <2>1. ASSUME NEW n \in Name, owner'[n] = p, n \notin stuck' PROVE Kept(p, n)'
    <3>1. CASE Op(p) = "fir"
      <4>1. PICK k \in pos[p]..Len(objs[p]) : objs[p][k].name = n
        BY <1>1, <2>1, <3>1 DEF Accounted, Kept
      <4>2. k = Len(objs[p])
        BY <1>1, <3>1
      <4> QED
        BY <1>1, <3>1, <4>1, <4>2, BuildAssumption DEF FirObjects
    <3>2. CASE Op(p) = "files"
      <4>1. n \in ObjectNames(p)
        BY <1>1, <2>1, <3>2 DEF Accounted, Kept
      <4> QED
        BY <1>1, <3>2, <4>1 DEF Kept, ObjectNames
    <3> QED
      BY <3>1, <3>2, CallFacts
  <2> QED
    BY <1>1, <2>1 DEF Accounted
<1> QED
  BY <1>2, <1>3

-----------------------------------------------------------------------------
\* The files of the others are left alone and one's own step keeps one's own part.
LEMMA BuildInvInit == Init => BuildInv
<1> SUFFICES ASSUME Init PROVE BuildInv
  OBVIOUS
<1>1. TypeInv
  BY TypeInit
<1>2. ASSUME NEW p \in Proc PROVE OwnInv(p)
  <2>1. /\ pc[p] \in {"inputs", "tempdir"} /\ (pc[p] = "inputs" <=> Op(p) = "files")
        /\ pos[p] = 1 /\ irs[p] = InitialIrs(call[p]) /\ objs[p] = <<>> /\ Len(objs[p]) = 0
        /\ fds[p] = {} /\ ~ scratch[p] /\ linker[p] = "none" /\ \A n \in Name : owner[n] = NoProc
    BY DEF Init
  <2>2. /\ Op(p) \in {"files", "fir"} /\ Len(Inputs(p)) \in Nat
        /\ Op(p) = "fir" => \A i \in 1..Len(Inputs(p)) : Inputs(p)[i] \in Text
    BY <1>1, CallFacts, BuildAssumption DEF TypeInv
  <2>3. Isolated(p) /\ Opened(p) /\ Accounted(p)
    BY <2>1, BuildAssumption DEF Isolated, Opened, Accounted, HoldsTemp, At, First
  <2>4. Lines(p)
    <3>1. CASE Op(p) = "files"
      <4>1. irs[p] = <<>> /\ Len(irs[p]) = 0
        BY <2>1, <3>1 DEF InitialIrs, Op
      <4> QED
        BY <2>1, <2>2, <3>1, <4>1 DEF Lines, Ordered, Texts, AllInFront, Sorted, Understood,
           Collecting, At
    <3>2. CASE Op(p) = "fir"
      <4>1. /\ Len(irs[p]) = Len(Inputs(p))
            /\ \A k \in 1..Len(Inputs(p)) : irs[p][k] = k
        BY <2>1, <2>2, <3>2 DEF InitialIrs, Op, Inputs
      <4>2. Texts(call[p], irs[p])
        BY <2>2, <3>2, <4>1 DEF Texts, Inputs, Contract!Ready, Text
      <4>3. Understood(call[p], Len(Inputs(p)))
        BY <2>2, <3>2 DEF Understood, Inputs, Text
      <4>4. Ordered(call[p], objs[p]) /\ AllInFront(call[p], objs[p], irs[p], 1)
        BY <2>1 DEF Ordered, AllInFront
      <4>5. Len(objs[p]) + Len(irs[p]) + 1 = Len(Inputs(p)) + pos[p]
        BY <2>1, <2>2, <4>1
      <4> QED
        BY <2>1, <2>2, <3>2, <4>2, <4>3, <4>4, <4>5 DEF Lines, Collecting, Rest, At
    <3> QED
      BY <2>2, <3>1, <3>2
  <2>5. Asked(p)
    <3>1. call \in Requests
      BY DEF Init
    <3>2. Inputs(p) \in Seq(FileKind \cup Text)
      BY <1>1, CallFacts DEF TypeInv
    <3> QED
      BY <3>1, <3>2, BuildAssumption DEF Asked, Inputs
  <2> QED
    BY <1>1, <2>3, <2>4, <2>5 DEF OwnInv, TypeInv
<1> QED
  BY <1>1, <1>2 DEF BuildInv, TypeInv

LEMMA BuildInvStep == BuildInv /\ [Next]_vars => BuildInv'
<1> SUFFICES ASSUME BuildInv, [Next]_vars PROVE BuildInv'
  OBVIOUS
<1>1. CASE UNCHANGED vars
  <2>1. TypeOK'
    BY <1>1 DEF vars, BuildInv, TypeOK
  <2>2. ASSUME NEW p \in Proc PROVE OwnInv(p)'
    <3> USE <1>1 DEF vars, OwnInv, BuildInv, At, Op, Inputs, Present, HoldsTemp, Over
    <3>1. Control(p)' /\ FirObjects(p)' /\ Opened(p)' /\ Asked(p)'
      BY DEF Control, Collecting, FirObjects, Opened, Asked
    <3>2. Isolated(p)'
      <4>1. /\ ObjectNames(p)' = ObjectNames(p) /\ First(p)' = First(p)
            /\ \A i : Emitted(p, i)' = Emitted(p, i)
        BY DEF ObjectNames, First, Emitted
      <4>2. \A k : OwnObject(p, k) => OwnObject(p, k)'
        BY <4>1 DEF OwnObject, Holds
      <4> QED
        BY <4>1, <4>2 DEF Isolated
    <3>3. Accounted(p)'
      BY DEF Accounted, Kept, ObjectNames
    <3>4. Lines(p)'
      BY DEF Lines, Rest, Collecting
    <3> QED
      BY <3>1, <3>2, <3>3, <3>4
  <2> QED
    BY <2>1, <2>2 DEF BuildInv
<1>2. ASSUME NEW p \in Proc, Step(p) PROVE BuildInv'
  <2>1. TypeOK /\ OwnInv(p) /\ TypeInv
    BY DEF BuildInv, TypeInv, OwnInv
  <2>2. TypeOK'
    BY <1>2, <2>1, TypeBooks, TypeFiles DEF Step
  <2>3. OwnInv(p)'
    BY <1>2, <2>1, EndsQuietly, EndsWithTemp, Prepares, AddsText, AddsObjectFile, InputsEnd, Creates,
       Converts, WorksOnTemp, Closes, IrsEnd, Links, Cleans, Returns DEF Step
  <2>4. ASSUME NEW q \in Proc, p # q PROVE OwnInv(q)'
    BY <1>2, <2>1, <2>4, OthersSame, StepTouches, OthersKeep DEF BuildInv
  <2> QED
    BY <2>2, <2>3, <2>4 DEF BuildInv
<1> QED
  BY <1>1, <1>2 DEF Next, AllOver

THEOREM BuildInvHolds == Spec => []BuildInv
BY BuildInvInit, BuildInvStep, PTL DEF Spec

\* The types of the driver, whatever interleaves.
THEOREM TypeHolds == Spec => []TypeOK
BY BuildInvHolds, PTL DEF BuildInv

\* What is in the linker's arguments, and in the file of a round, is the
\* process's own code of that input, whatever the others do in the directory.
THEOREM IsolationHolds == Spec => []Isolation
<1>1. BuildInv => Isolation
  <2> SUFFICES ASSUME BuildInv, NEW p \in Proc
               PROVE  /\ HoldsTemp(p) => /\ owner[temp[p]] = p
                                         /\ code[temp[p]] \subseteq {<<p, Current(p)>>}
                                         /\ temp[p] \notin ObjectNames(p)
                      /\ Linking(p) =>
                            \A k \in 1..Len(objs[p]) : objs[p][k].name # NoName =>
                                /\ owner[objs[p][k].name] = p
                                /\ code[objs[p][k].name] \subseteq {<<p, objs[p][k].input>>}
                                /\ \A j \in 1..(k - 1) : objs[p][j].name # objs[p][k].name
    BY DEF Isolation
  <2>1. Isolated(p) /\ \A i : Emitted(p, i) \subseteq {<<p, i>>}
    BY DEF BuildInv, OwnInv, Emitted
  <2>2. HoldsTemp(p) => code[temp[p]] \subseteq {<<p, Current(p)>>}
    BY <2>1 DEF Isolated, HoldsTemp, Current, At
  <2>3. Linking(p) => \A k \in 1..Len(objs[p]) : objs[p][k].name # NoName => OwnObject(p, k)
    BY <2>1 DEF Isolated, Linking, First, Over, At
  <2> QED
    BY <2>1, <2>2, <2>3 DEF Isolated, OwnObject, Holds
<1> QED
  BY <1>1, BuildInvHolds, PTL

\* A file that is open is being worked on by its owner, one that is linked is
\* the linking process's own; the text of a program is open while it is parsed,
\* and after the parser has thrown on it.
THEOREM DescriptorsClosedHolds == Spec => []DescriptorsClosed
<1>1. BuildInv => DescriptorsClosed
  <2> SUFFICES ASSUME BuildInv, NEW p \in Proc
               PROVE  /\ fds[p] # {} => pc[p] \in {"fdopen", "emit", "fclose", "exited"}
                      /\ scratch[p] => \/ pc[p] \in {"parse", "exited"}
                                       \/ /\ At(p, "returned") /\ Present(p) \in Source
                                          /\ result[p] = "false"
                      /\ \A q \in Proc : \A n \in fds[q] : At(p, "link") => n \notin ObjectNames(p)
    BY DEF DescriptorsClosed
  <2>1. /\ fds[p] # {} => pc[p] \in {"fdopen", "emit", "fclose", "exited"}
        /\ scratch[p] => \/ pc[p] \in {"parse", "exited"}
                         \/ At(p, "returned") /\ Present(p) \in Source /\ result[p] = "false"
    BY DEF BuildInv, OwnInv, Opened
  <2>2. ASSUME At(p, "link"), NEW q \in Proc, NEW n \in fds[q], n \in ObjectNames(p)
        PROVE  FALSE
    <3>1. owner[n] = q /\ pc[q] \in {"fdopen", "emit", "fclose", "exited"}
      BY <2>2 DEF BuildInv, OwnInv, Opened
    <3>2. PICK k \in 1..Len(objs[p]) : objs[p][k].name = n /\ n # NoName
      BY <2>2 DEF ObjectNames
    <3>3. OwnObject(p, k)
      BY <2>2, <3>2 DEF BuildInv, OwnInv, Isolated, First, Over, At
    <3> QED
      BY <2>2, <3>1, <3>2, <3>3 DEF OwnObject, Holds, At
  <2> QED
    BY <2>1, <2>2
<1> QED
  BY <1>1, BuildInvHolds, PTL

\* What a call that has returned leaves in the directory.
THEOREM LeftoversHold == Spec => []Leftovers
<1>1. BuildInv => Leftovers
  <2> SUFFICES ASSUME BuildInv, NEW n \in Name, NEW p \in Proc,
                      owner[n] = p, n \notin stuck, At(p, "returned")
               PROVE  \/ Op(p) = "fir" /\ n \in ObjectNames(p) /\ linker[p] = "none"
                      \/ Op(p) = "files" /\ n \in ObjectNames(p)
                      \/ Op(p) = "files" /\ n = temp[p] /\ code[n] = {}
    BY DEF Leftovers
  <2>1. Kept(p, n)
    BY DEF BuildInv, OwnInv, Accounted
  <2> QED
    BY <2>1 DEF Kept, At
<1> QED
  BY <1>1, BuildInvHolds, PTL

-----------------------------------------------------------------------------
(* The driver keeps the contract towards the processes it promises something: *)
(* a step that ends the call refuses or dies, the linker's step links, the    *)
(* last one returns, the rest is not seen, nor is a step of another process.  *)

Seen(label) == CASE label = "clean" -> "linked"
                 [] label \in {"returned", "exited"} -> label
                 [] OTHER -> "busy"

LEMMA PhaseMoves ==
    ASSUME TypeOK, NEW p \in Promised, NEW label, Goto(p, label)
    PROVE  Phase' = [Phase EXCEPT ![p] = Seen(label)]
<1>1. Phase = [q \in Promised |-> Seen(pc[q])] /\ Phase' = [q \in Promised |-> Seen(pc'[q])]
  BY DEF Phase, Seen, Over
<1> QED
  BY <1>1, BuildAssumption DEF Goto, TypeOK

LEMMA PhaseStays ==
    ASSUME TypeOK, TypeOK', NEW p \in Proc, \A q \in Proc : q # p => pc'[q] = pc[q],
           ~ Over(p), ~ Over(p)', At(p, "clean") <=> At(p, "clean")'
    PROVE  Phase' = Phase
<1>1. Phase = [q \in Promised |-> Seen(pc[q])] /\ Phase' = [q \in Promised |-> Seen(pc'[q])]
  BY DEF Phase, Seen, Over
<1>2. \A q \in Promised : Seen(pc'[q]) = Seen(pc[q])
  BY BuildAssumption DEF Seen, Over, At
<1> QED
  BY <1>1, <1>2

\* The part of a variable that the contract is about changes where it does.
LEMMA PromiseMoves ==
    ASSUME NEW S, NEW f \in [Proc -> S], NEW p \in Promised, NEW v
    PROVE  Promise([f EXCEPT ![p] = v]) = [Promise(f) EXCEPT ![p] = v]
BY BuildAssumption DEF Promise

LEMMA Refuses ==
    ASSUME TypeOK, NEW p \in Promised, Phase[p] = "busy", Fail(p),
           UNCHANGED <<call, given, linker>>
    PROVE  Contract!Refuse(p)
<1>1. Promise(result') = [Promise(result) EXCEPT ![p] = "false"]
  BY PromiseMoves DEF Fail, TypeOK
<1>2. Promise(result') = Promise(result)'
  BY DEF Promise
<1>3. UNCHANGED <<Promise(call), Promise(given), Promise(linker)>>
  BY DEF Promise
<1>4. Phase' = [Phase EXCEPT ![p] = "returned"]
  BY PhaseMoves DEF Fail, Seen
<1> QED
  BY <1>1, <1>2, <1>3, <1>4 DEF Contract!Refuse

LEMMA Dies ==
    ASSUME TypeOK, NEW p \in Promised, Phase[p] = "busy", Die(p),
           UNCHANGED <<call, given, linker>>
    PROVE  Contract!Die(p)
<1>1. UNCHANGED <<Promise(call), Promise(given), Promise(linker), Promise(result)>>
  BY DEF Die, Promise
<1>2. Phase' = [Phase EXCEPT ![p] = "exited"]
  BY PhaseMoves DEF Die, Seen
<1> QED
  BY <1>1, <1>2 DEF Contract!Die

\* The linker finds in each of its arguments the code of the argument's input,
\* and nothing when LLVM has refused the input's text.
LEMMA FindsOwnCode ==
    ASSUME BuildInv, NEW p \in Promised, At(p, "link"), NEW k \in 1..Len(objs[p])
    PROVE  Content(p, objs[p][k]) =
               IF Contract!Refused(call[p], objs[p][k].input) THEN {}
               ELSE {<<p, objs[p][k].input>>}
<1> DEFINE path == objs[p][k]
<1>1. p \in Proc /\ OwnInv(p) /\ TypeOK /\ (Over(p) <=> FALSE) /\ First(p) = 1
  BY BuildAssumption DEF BuildInv, Over, At, First
<1>2. /\ path.input \in Contract!Position(call[p])
      /\ path.name = NoName => path.input = 0 \/ Inputs(p)[path.input] = "object"
  BY <1>1 DEF OwnInv, Lines, Ordered, At, Inputs
<1>3. CASE path.name = NoName
  BY <1>2, <1>3 DEF Content, Contract!Refused, Inputs
<1>4. CASE path.name # NoName
  <2>1. OwnObject(p, k)
    BY <1>1, <1>4 DEF OwnInv, Isolated
  <2>2. Exists(path.name)
    BY <1>1, <2>1, BuildAssumption DEF OwnObject, Holds, Exists
  <2>3. Content(p, path) = Emitted(p, path.input)
    BY <1>4, <2>1, <2>2 DEF Content, OwnObject, Holds
  <2>4. path.input # 0 => Inputs(p)[path.input] # "ir"
    <3>1. path.input # 0 => path.input \in 1..Len(Inputs(p))
      BY <1>1, <1>2, CallFacts, BuildAssumption DEF Contract!Position, Inputs
    <3> QED
      BY <1>1, <3>1 DEF OwnInv, Asked
  <2> QED
    BY <2>3, <2>4 DEF Emitted, Contract!Refused, Inputs
<1> QED
  BY <1>3, <1>4

LEMMA LinksAsPromised ==
    ASSUME BuildInv, NEW p \in Promised, NEW answer \in {"true", "false"}, Link(p, answer)
    PROVE  Contract!Link(p, answer)
<1> DEFINE line == [k \in 1..Len(objs[p]) |-> objs[p][k].input]
           found == [k \in 1..Len(objs[p]) |-> Content(p, objs[p][k])]
<1>0. p \in Proc
  BY BuildAssumption
<1>1. /\ At(p, "link") /\ Goto(p, "clean") /\ UNCHANGED <<call, result>>
      /\ given' = [given EXCEPT ![p] = found]
      /\ linker' = [linker EXCEPT ![p] = answer]
  BY DEF Link
<1>2. Phase[p] = "busy" /\ Phase' = [Phase EXCEPT ![p] = "linked"]
  BY <1>1, PhaseMoves DEF Phase, Over, At, BuildInv, Seen
<1>3. /\ Ordered(call[p], objs[p]) /\ Understood(call[p], Len(Inputs(p)))
      /\ Len(objs[p]) = Contract!Count(call[p]) /\ objs[p] # <<>>
  BY <1>0, <1>1 DEF BuildInv, OwnInv, Lines, At
<1>4. objs[p] \in Seq(Path) /\ Len(Inputs(p)) \in Nat
  BY <1>0, CallFacts, BuildAssumption DEF BuildInv, TypeOK
<1>5. Len(line) = Len(objs[p]) /\ line # <<>>
  BY <1>3, <1>4
<1>6. line \in Contract!Arguments(call[p])
  <2>1. line \in [1..Contract!Count(call[p]) -> Contract!Position(call[p])]
    BY <1>3 DEF Ordered
  <2>2. ASSUME NEW j \in 1..Len(objs[p]), NEW k \in 1..Len(objs[p]), j < k
        PROVE  Contract!InFront(call[p], line[j], line[k])
    <3>1. j \in 1..(k - 1)
      BY <1>4, <2>2
    <3> QED
      BY <1>3, <3>1 DEF Ordered
  <2> QED
    BY <1>3, <2>1, <2>2 DEF Contract!Arguments
<1>7. found = [k \in 1..Len(line) |->
                   IF Contract!Refused(call[p], line[k]) THEN {} ELSE {<<p, line[k]>>}]
  BY <1>1, <1>5, FindsOwnCode
<1>8. \A i \in 1..Len(call[p].inputs) : call[p].inputs[i] # "unknown"
  BY <1>3 DEF Understood, Inputs
<1>9. /\ Promise(given)' = [Promise(given) EXCEPT ![p] = found]
      /\ Promise(linker)' = [Promise(linker) EXCEPT ![p] = answer]
  <2>1. /\ Promise(given') = [Promise(given) EXCEPT ![p] = found]
        /\ Promise(linker') = [Promise(linker) EXCEPT ![p] = answer]
    BY <1>1, PromiseMoves DEF BuildInv, TypeOK
  <2> QED
    BY <2>1 DEF Promise
<1>10. UNCHANGED <<Promise(call), Promise(result)>> /\ Promise(call)[p] = call[p]
  BY <1>1 DEF Promise
<1>11. found = [k \in 1..Len(line) |->
                    IF Contract!Refused(Promise(call)[p], line[k]) THEN {} ELSE {<<p, line[k]>>}]
  BY <1>7, <1>10
<1>12. line \in Contract!Arguments(Promise(call)[p])
  BY <1>6, <1>10
<1>13. \A i \in 1..Len(Promise(call)[p].inputs) : Promise(call)[p].inputs[i] # "unknown"
  BY <1>8, <1>10
<1> HIDE DEF line, found
<1>14. Promise(given)' = [Promise(given) EXCEPT ![p] = [k \in 1..Len(line) |->
                    IF Contract!Refused(Promise(call)[p], line[k]) THEN {} ELSE {<<p, line[k]>>}]]
  BY <1>9, <1>11, Zenon
<1> QED
  BY <1>2, <1>5, <1>9, <1>10, <1>12, <1>13, <1>14, Zenon DEF Contract!Link

\* A step of a process the contract is not about is not seen.
LEMMA OthersUnseen ==
    ASSUME BuildInv, NEW p \in Proc \ Promised, Step(p)
    PROVE  UNCHANGED Contract!vars
<1>1. \A q \in Promised : Same(q)
  BY OthersSame, BuildAssumption DEF BuildInv
<1> QED
  BY <1>1 DEF Same, Contract!vars, Promise, Phase, Over

LEMMA StepKeepsPromise ==
    ASSUME BuildInv, BuildInv', NEW p \in Promised, Step(p)
    PROVE  Contract!Step(p) \/ UNCHANGED Contract!vars
<1>0. TypeOK /\ TypeOK' /\ p \in Proc
  BY BuildAssumption DEF BuildInv
<1>1. CASE \/ OpenSource(p) \/ CompileSource(p) \/ AddIrFile(p) \/ ConvertBitcode(p)
           \/ AddObjectFile(p) \/ EndOfInputs(p) \/ FindTempDirectory(p) \/ OpenTemp(p)
           \/ FdopenTemp(p) \/ EmitObject(p) \/ CloseTemp(p) \/ CleanTemp(p)
           \/ (\E n \in Name : CreateForBitcode(p, n) \/ CreateForIr(p, n))
  <2>1. UNCHANGED <<call, given, linker, result>>
    BY <1>1 DEF OpenSource, CompileSource, AddIrFile, ConvertBitcode, AddObjectFile,
       EndOfInputs, FindTempDirectory, OpenTemp, FdopenTemp, EmitObject, CloseTemp,
       CleanTemp, CreateForBitcode, CreateForIr
  <2>2. /\ \A q \in Proc : q # p => pc'[q] = pc[q]
        /\ ~ Over(p) /\ ~ Over(p)' /\ (At(p, "clean") <=> At(p, "clean")')
    <3>1. CASE OpenSource(p) \/ CompileSource(p) \/ FindTempDirectory(p)
      BY <1>0, <3>1 DEF OpenSource, CompileSource, FindTempDirectory, Goto, At, HasSource,
         HasInput, Over, TypeOK
    <3>2. CASE ~ (OpenSource(p) \/ CompileSource(p) \/ FindTempDirectory(p))
      BY <1>0, <1>1, <3>2, ZenonT(40) DEF AddIrFile, ConvertBitcode, AddObjectFile,
         EndOfInputs, OpenTemp, FdopenTemp, CloseTemp, CleanTemp, CreateForBitcode,
         CreateForIr, EmitObject, Goto, At, HasInput, HasIr, HasTemp, Over, TypeOK
    <3> QED
      BY <3>1, <3>2
  <2>3. Phase' = Phase
    BY <1>0, <2>2, PhaseStays
  <2> QED
    BY <2>1, <2>3 DEF Contract!vars, Promise
<1>2. CASE \/ SourceNotOpened(p) \/ ParserThrows(p) \/ UnknownType(p) \/ CreateFails(p)
           \/ ConversionFails(p) \/ OpenFails(p) \/ FdopenFails(p) \/ PathFails(p)
           \/ (NoTempDirectory(p) /\ Fail(p)) \/ (EndOfIrs(p) /\ Fail(p))
  <2>1. UNCHANGED <<call, given, linker>> /\ Fail(p)
    BY <1>2 DEF SourceNotOpened, ParserThrows, UnknownType, CreateFails, ConversionFails,
       OpenFails, FdopenFails, PathFails, NoTempDirectory, EndOfIrs
  <2>2. Phase[p] = "busy"
    BY <1>0, <1>2 DEF SourceNotOpened, ParserThrows, UnknownType, CreateFails, ConversionFails,
       OpenFails, FdopenFails, PathFails, NoTempDirectory, EndOfIrs, HasSource, HasInput,
       NeedsTemp, HasIr, At, Phase, Over
  <2>3. Contract!Refuse(p)
    BY <1>0, <2>1, <2>2, Refuses
  <2> QED
    BY <2>3 DEF Contract!Step
<1>3. CASE SourceExits(p) \/ EmitAborts(p) \/ (NoTempDirectory(p) /\ Die(p))
  <2>1. UNCHANGED <<call, given, linker>> /\ Die(p)
    BY <1>3 DEF SourceExits, EmitAborts, NoTempDirectory
  <2>2. Phase[p] = "busy"
    BY <1>0, <1>3 DEF SourceExits, EmitAborts, NoTempDirectory, HasInput, NeedsTemp, HasIr, At,
       Phase, Over
  <2>3. Contract!Die(p)
    BY <1>0, <2>1, <2>2, Dies
  <2> QED
    BY <2>3 DEF Contract!Step
<1>4. CASE EndOfIrs(p) /\ Goto(p, "link") /\ UNCHANGED result
  <2>1. UNCHANGED <<call, given, linker, result>> /\ At(p, "irs")
    BY <1>4 DEF EndOfIrs
  <2>2. /\ \A q \in Proc : q # p => pc'[q] = pc[q]
        /\ ~ Over(p) /\ ~ Over(p)' /\ (At(p, "clean") <=> At(p, "clean")')
    BY <1>0, <1>4, <2>1 DEF Goto, At, Over, TypeOK
  <2>3. Phase' = Phase
    BY <1>0, <2>2, PhaseStays
  <2> QED
    BY <2>1, <2>3 DEF Contract!vars, Promise
<1>5. ASSUME NEW answer \in {"true", "false"}, Link(p, answer) PROVE Contract!Step(p)
  BY <1>5, LinksAsPromised DEF Contract!Step
<1>6. CASE Return(p)
  <2>1. /\ At(p, "clean") /\ Goto(p, "returned") /\ UNCHANGED <<call, given, linker>>
        /\ result' = [result EXCEPT ![p] = linker[p]]
    BY <1>6 DEF Return
  <2>2. Phase[p] = "linked"
    BY <2>1 DEF Phase, At, Over
  <2>3. Phase' = [Phase EXCEPT ![p] = "returned"]
    BY <1>0, <2>1, PhaseMoves DEF Seen
  <2>4. Promise(result)' = [Promise(result) EXCEPT ![p] = Promise(linker)[p]]
    <3>1. Promise(result') = [Promise(result) EXCEPT ![p] = linker[p]]
      BY <1>0, <2>1, PromiseMoves DEF TypeOK
    <3> QED
      BY <3>1 DEF Promise
  <2>5. UNCHANGED <<Promise(call), Promise(given), Promise(linker)>>
    BY <2>1 DEF Promise
  <2>6. Contract!Return(p)
    BY <2>2, <2>3, <2>4, <2>5 DEF Contract!Return
  <2> QED
    BY <2>6 DEF Contract!Step
<1>7. EndOfIrs(p) => (EndOfIrs(p) /\ Fail(p)) \/ (Goto(p, "link") /\ UNCHANGED result)
  BY DEF EndOfIrs
<1>8. NoTempDirectory(p) => Fail(p) \/ Die(p)
  BY DEF NoTempDirectory
<1> QED
  BY <1>1, <1>2, <1>3, <1>4, <1>5, <1>6, <1>7, <1>8 DEF Step

\* Towards every process that names no ll file the driver implements its
\* contract, as far as safety goes: the linker runs at most once and only on a
\* complete and ordered line of the call's own objects, each of which holds the
\* code of its input but where LLVM has refused the text, and the answer is the
\* linker's.
THEOREM KeepsPromiseHolds == Spec => KeepsPromise
<1>1. Init => Contract!Init
  <2> SUFFICES ASSUME Init PROVE Contract!Init
    OBVIOUS
  <2>1. \A p \in Proc : pc[p] \in {"inputs", "tempdir"}
    BY DEF Init
  <2>2. Phase = [p \in Promised |-> "busy"]
    BY <2>1, BuildAssumption DEF Phase, Over
  <2> QED
    BY <2>2, BuildAssumption DEF Init, Promise, Contract!Init
<1>2. BuildInv /\ BuildInv' /\ [Next]_vars => [Contract!Next]_(Contract!vars)
  <2> SUFFICES ASSUME BuildInv, BuildInv', [Next]_vars
               PROVE  Contract!Next \/ UNCHANGED Contract!vars
    OBVIOUS
  <2>1. CASE UNCHANGED vars
    BY <2>1 DEF vars, Contract!vars, Phase, Over, Promise
  <2>2. ASSUME NEW p \in Proc, Step(p) PROVE Contract!Next \/ UNCHANGED Contract!vars
    <3>1. CASE p \in Promised
      BY <2>2, <3>1, StepKeepsPromise DEF Contract!Next
    <3>2. CASE p \notin Promised
      BY <2>2, <3>2, OthersUnseen
    <3> QED
      BY <3>1, <3>2
  <2> QED
    BY <2>1, <2>2 DEF Next, AllOver
<1> QED
  BY <1>1, <1>2, BuildInvHolds, PTL DEF Spec, KeepsPromise, Contract!Spec
=============================================================================
