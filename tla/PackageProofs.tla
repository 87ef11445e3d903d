----------------------------- MODULE PackageProofs -----------------------------
(***************************************************************************)
(* Package, for every set of processes and every length of their texts.     *)
(* Three inductive invariants: where a process stands says that the project *)
(* file is there (Begun); a file that is not torn has one writer at most,   *)
(* and is empty while it has one (CleanFiles); the process that runs alone  *)
(* has brought the files as far as its steps say (InStep).                  *)
(***************************************************************************)
EXTENDS Package, TLAPS

OpenLabels == {"open json", "open readme", "open main"}
WriteLabels == {"write json", "write readme", "write main"}
Label == OpenLabels \cup WriteLabels \cup Ended \cup {"start", "read"}
Piece == {ByHand} \cup (Proc \X (1..3))

\* The steps of init, and their labels, one by one.
LEMMA Three == 1..3 = {1, 2, 3}
OBVIOUS

LEMMA OnePiece == \A S : <<>> \in Seq(S) /\ \A e \in S : <<e>> \in Seq(S)
OBVIOUS

LEMMA Steps ==
    /\ Opens[1] = "open json" /\ Opens[2] = "open readme" /\ Opens[3] = "open main"
    /\ Writes[1] = "write json" /\ Writes[2] = "write readme" /\ Writes[3] = "write main"
    /\ After(1) = "open readme" /\ After(2) = "open main" /\ After(3) = "done"
BY DEF Opens, Writes, After

LEMMA StepLabels == Range(Opens) = OpenLabels /\ Range(Writes) = WriteLabels
<1>1. DOMAIN Opens = 1..3 /\ DOMAIN Writes = 1..3
  BY DEF Opens, Writes
<1>2. 1..3 = {1, 2, 3}
  OBVIOUS
<1> QED
  BY <1>1, <1>2, Steps DEF Range, OpenLabels, WriteLabels

LEMMA Targets ==
    ASSUME NEW p \in Proc
    PROVE  Target(p, 1) = Json /\ Target(p, 2) = Readme /\ Target(p, 3) = entry[p]
BY DEF Target

\* Who has a file open, said by labels.
Writing(p, f, pc1) ==
    \/ pc1[p] = "write json" /\ f = Json
    \/ pc1[p] = "write readme" /\ f = Readme
    \/ pc1[p] = "write main" /\ f = entry[p]

LEMMA WhoWrites ==
    ASSUME NEW f PROVE Writers(f) = {p \in Proc : Writing(p, f, pc)}
<1>1. 1..3 = {1, 2, 3}
  OBVIOUS
<1> QED
  BY <1>1, Steps, Targets DEF Writers, Writing

LEMMA WhoWritesNext ==
    ASSUME NEW f, entry' = entry PROVE Writers(f)' = {p \in Proc : Writing(p, f, pc')}
<1>1. 1..3 = {1, 2, 3}
  OBVIOUS
<1>2. \A p \in Proc : Target(p, 1)' = Json /\ Target(p, 2)' = Readme /\ Target(p, 3)' = entry[p]
  BY DEF Target
<1> QED
  BY <1>1, <1>2, Steps DEF Writers, Writing

\* A text that is written into an empty file in full is the whole of it, and
\* what is written is made of pieces.
LEMMA WrittenWhole ==
    ASSUME NEW p \in Proc, NEW k \in 1..3
    PROVE  Over(<<>>, p, k, Length[p]) = Whole(p, k)
BY PackageAssumption DEF Over, Whole

LEMMA WrittenPieces ==
    ASSUME NEW old \in Seq(Piece), NEW p \in Proc, NEW k \in 1..3, NEW n \in 0..Length[p]
    PROVE  Over(old, p, k, n) \in Seq(Piece)
<1> DEFINE m == IF n > Len(old) THEN n ELSE Len(old)
<1>1. m \in Nat /\ n \in Nat
  BY PackageAssumption
<1>2. \A i \in 1..m : (IF i <= n THEN <<p, k>> ELSE old[i]) \in Piece
  BY <1>1 DEF Piece
<1>3. Over(old, p, k, n) = [i \in 1..m |-> IF i <= n THEN <<p, k>> ELSE old[i]]
  BY DEF Over
<1> QED
  BY <1>1, <1>2, <1>3

-----------------------------------------------------------------------------
\* What a step of init does to who writes: an open file is the target of the
\* step, and behind the write there is none.
LEMMA OthersWrite ==
    ASSUME pc \in [Proc -> Label], NEW p \in Proc, NEW q \in Proc, q # p, NEW f, NEW x,
           pc' = [pc EXCEPT ![p] = x]
    PROVE  Writing(q, f, pc') <=> Writing(q, f, pc)
BY DEF Writing

LEMMA OpenedWrites ==
    ASSUME pc \in [Proc -> Label], NEW p \in Proc, NEW k \in 1..3, NEW f,
           pc' = [pc EXCEPT ![p] = Writes[k]]
    PROVE  Writing(p, f, pc') <=> f = Target(p, k)
<1>1. k \in {1, 2, 3} /\ pc'[p] = Writes[k]
  OBVIOUS
<1> QED
  BY <1>1, Steps, Targets DEF Writing

LEMMA AtOpen ==
    ASSUME NEW p \in Proc, NEW k \in 1..3, pc[p] = Opens[k], NEW f
    PROVE  ~ Writing(p, f, pc) /\ pc[p] \in OpenLabels
<1>1. k \in {1, 2, 3}
  BY Three
<1> QED
  BY <1>1, Steps DEF Writing, OpenLabels

LEMMA AtWrite ==
    ASSUME NEW p \in Proc, NEW k \in 1..3, pc[p] = Writes[k], NEW f
    PROVE  (Writing(p, f, pc) <=> f = Target(p, k)) /\ pc[p] \in WriteLabels
<1>1. k \in {1, 2, 3}
  BY Three
<1> QED
  BY <1>1, Steps, Targets DEF Writing, WriteLabels

LEMMA AfterLabel ==
    ASSUME NEW k \in 1..3
    PROVE  After(k) \in {"open readme", "open main", "done"}
<1>1. k \in {1, 2, 3}
  BY Three
<1> QED
  BY <1>1, Steps

-----------------------------------------------------------------------------
\* The types of the variables; a process that writes has a file.
Typed == TypeOK /\ \A p \in Proc : pc[p] = "write main" => entry[p] \in File

LEMMA Labels == TypeOK => pc \in [Proc -> Label] /\ entry \in [Proc -> Entries]
BY StepLabels DEF TypeOK, Label

LEMMA TypeInit == Init => Typed
<1> SUFFICES ASSUME Init PROVE Typed
  OBVIOUS
<1>1. <<>> \in Seq({ByHand} \cup (Proc \X (1..3)))
  OBVIOUS
<1> QED
  BY <1>1 DEF Init, TypeOK, Typed

LEMMA TypeNext == Typed /\ [Next]_vars => Typed'
<1> SUFFICES ASSUME Typed, [Next]_vars PROVE Typed'
  OBVIOUS
<1> USE DEF Typed
<1>1. ASSUME NEW p \in Proc, CreateDirectory(p) PROVE Typed'
  <2>1. Opens[1] \in Range(Opens) /\ Opens[1] # "write main"
    BY Steps, StepLabels DEF OpenLabels
  <2> QED
    BY <1>1, <2>1, StepLabels DEF CreateDirectory, Goes, TypeOK, Ended
<1>2. ASSUME NEW p \in Proc, NEW k \in 1..3, Open(p, k) PROVE Typed'
  <2>1. k \in {1, 2, 3}
    BY Three
  <2>2. Writes[k] \in Range(Writes) /\ (Writes[k] = "write main" => Target(p, k) = entry[p])
    BY <2>1, Steps, StepLabels, Targets DEF WriteLabels
  <2>3. <<>> \in Seq({ByHand} \cup (Proc \X (1..3)))
    BY OnePiece
  <2>4. CASE Target(p, k) \in File /\ pc' = [pc EXCEPT ![p] = Writes[k]]
             /\ present' = present \cup {Target(p, k)}
             /\ text' = [text EXCEPT ![Target(p, k)] = <<>>]
             /\ torn' \in {torn \ {Target(p, k)}, torn \cup {Target(p, k)}}
    <3>1. text' \in [File -> Seq({ByHand} \cup (Proc \X (1..3)))]
      BY <2>3, <2>4 DEF TypeOK
    <3>2. present' \subseteq File /\ torn' \subseteq File
      BY <2>4 DEF TypeOK
    <3>3. pc' \in [Proc -> Range(Opens) \cup Range(Writes) \cup Ended \cup {"start", "read"}]
      BY <2>2, <2>4 DEF TypeOK
    <3>4. \A q \in Proc : pc'[q] = "write main" => entry[q] \in File
      BY <2>2, <2>4 DEF TypeOK
    <3> QED
      BY <1>2, <3>1, <3>2, <3>3, <3>4 DEF Open, TypeOK
  <2>5. CASE pc' = [pc EXCEPT ![p] = "failed"] /\ UNCHANGED <<present, text, torn>>
    BY <1>2, <2>5 DEF Open, TypeOK, Ended
  <2> QED
    BY <1>2, <2>4, <2>5 DEF Open, Goes
<1>3. ASSUME NEW p \in Proc, NEW k \in 1..3, Write(p, k) PROVE Typed'
  <2>1. k \in {1, 2, 3}
    BY Three
  <2>2. Target(p, k) \in File
    BY <1>3, <2>1, Steps, Targets DEF Write, File
  <2>3. After(k) \in Range(Opens) \cup Ended /\ After(k) # "write main"
    BY AfterLabel, StepLabels DEF OpenLabels, Ended
  <2>4. text' \in [File -> Seq(Piece)]
    <3>1. text \in [File -> Seq(Piece)]
      BY DEF TypeOK, Piece
    <3>2. PICK n \in 0..Length[p] : text' = [text EXCEPT ![Target(p, k)] = Over(@, p, k, n)]
      BY <1>3 DEF Write
    <3>3. Over(text[Target(p, k)], p, k, n) \in Seq(Piece)
      BY <2>2, <3>1, WrittenPieces
    <3> QED
      BY <3>1, <3>2, <3>3
  <2>5. <<p, k>> \in {Nobody, ByHand} \cup (Proc \X (1..3))
    OBVIOUS
  <2> QED
    BY <1>3, <2>2, <2>3, <2>4, <2>5, StepLabels DEF Write, Goes, TypeOK, Piece
<1>4. ASSUME NEW p \in Proc, ThInfo(p) PROVE Typed'
  BY <1>4 DEF ThInfo, Info, ReadProject, Goes, TypeOK, Ended
<1>5. ASSUME NEW p \in Proc, Kill(p) PROVE Typed'
  BY <1>5 DEF Kill, Goes, TypeOK, Ended
<1>6. ASSUME NEW f \in File, Edit(f) PROVE Typed'
  <2>1. <<ByHand>> \in Seq({ByHand} \cup (Proc \X (1..3)))
    BY OnePiece
  <2> QED
    BY <1>6, <2>1 DEF Edit, TypeOK
<1>7. CASE UNCHANGED vars
  BY <1>7 DEF vars, TypeOK
<1> QED
  BY <1>1, <1>2, <1>3, <1>4, <1>5, <1>6, <1>7 DEF Next, ThInit

-----------------------------------------------------------------------------
\* Every file is opened behind the project file, and no file is removed.
Begun ==
    /\ ProjectFileFirst
    /\ \A p \in Proc :
          pc[p] \in WriteLabels \cup {"open readme", "open main", "read"} => Json \in present

LEMMA BegunInit == Init => Begun
BY DEF Init, Begun, ProjectFileFirst, WriteLabels

LEMMA BegunNext == Typed /\ Begun /\ [Next]_vars => Begun'
<1> SUFFICES ASSUME Typed, Begun, [Next]_vars PROVE Begun'
  OBVIOUS
<1>0. pc \in [Proc -> Label]
  BY Labels DEF Typed
<1> USE <1>0 DEF Begun, ProjectFileFirst, Goes
<1>1. ASSUME NEW p \in Proc, CreateDirectory(p) PROVE Begun'
  BY <1>1, Steps DEF CreateDirectory, WriteLabels
<1>2. ASSUME NEW p \in Proc, NEW k \in 1..3, Open(p, k) PROVE Begun'
  <2>1. k \in {1, 2, 3}
    BY Three
  <2>2. k = 1 \/ Json \in present
    BY <1>2, <2>1, Steps DEF Open
  <2>3. CASE pc' = [pc EXCEPT ![p] = "failed"] /\ present' = present
    BY <2>3 DEF WriteLabels
  <2>4. CASE present' = present \cup {Target(p, k)} /\ pc' = [pc EXCEPT ![p] = Writes[k]]
    <3>1. Json \in present'
      BY <2>2, <2>4, Targets
    <3> QED
      BY <3>1
  <2> QED
    BY <1>2, <2>3, <2>4 DEF Open
<1>3. ASSUME NEW p \in Proc, NEW k \in 1..3, Write(p, k) PROVE Begun'
  <2>1. Json \in present
    BY <1>3, AtWrite DEF Write
  <2> QED
    BY <1>3, <2>1 DEF Write
<1>4. ASSUME NEW p \in Proc, ThInfo(p) PROVE Begun'
  BY <1>4 DEF ThInfo, Info, ReadProject, WriteLabels
<1>5. ASSUME NEW p \in Proc, Kill(p) PROVE Begun'
  BY <1>5 DEF Kill, WriteLabels
<1>6. ASSUME NEW f \in File, Edit(f) PROVE Begun'
  BY <1>6 DEF Edit
<1>7. CASE UNCHANGED vars
  BY <1>7 DEF vars
<1> QED
  BY <1>1, <1>2, <1>3, <1>4, <1>5, <1>6, <1>7 DEF Next, ThInit

-----------------------------------------------------------------------------
\* A file that is not torn has one writer at most, is empty while it has one,
\* and without one holds the whole of what was written last, by a step of init
\* whose target it is.
Holds(f) ==
    \/ last[f] = ByHand /\ text[f] = <<ByHand>>
    \/ \E q \in Proc, k \in 1..3 :
          last[f] = <<q, k>> /\ text[f] = Whole(q, k) /\ Target(q, k) = f

Clean(f) ==
    /\ \A p, q \in Proc : Writing(p, f, pc) /\ Writing(q, f, pc) => p = q
    /\ \A p \in Proc : Writing(p, f, pc) => text[f] = <<>>
    /\ f \in present /\ (\A p \in Proc : ~ Writing(p, f, pc)) => Holds(f)

CleanFiles == \A f \in File \ torn : Clean(f)

\* A step that leaves a file, and who writes it, as they are.
LEMMA CleanStays ==
    ASSUME NEW f, Clean(f), entry' = entry, text'[f] = text[f], last'[f] = last[f],
           f \in present' => f \in present,
           \A q \in Proc : Writing(q, f, pc') <=> Writing(q, f, pc)
    PROVE  Clean(f)'
<1>1. \A q \in Proc : Writing(q, f, pc)' <=> Writing(q, f, pc)
  BY DEF Writing
<1>2. Holds(f) => Holds(f)'
  BY DEF Holds, Target, Whole
<1> QED
  BY <1>1, <1>2 DEF Clean

LEMMA CleanInit == Init => CleanFiles
BY DEF Init, CleanFiles, Clean, Writing

LEMMA CleanOpen ==
    ASSUME Typed, CleanFiles, NEW p \in Proc, NEW k \in 1..3, Open(p, k)
    PROVE  CleanFiles'
<1>0. pc \in [Proc -> Label] /\ text \in [File -> Seq(Piece)]
  BY Labels DEF Typed, TypeOK, Piece
<1>1. entry' = entry /\ last' = last
  BY DEF Open
<1>2. \A f : ~ Writing(p, f, pc)
  BY AtOpen DEF Open
<1>3. CASE pc' = [pc EXCEPT ![p] = "failed"] /\ UNCHANGED <<present, text, torn>>
  <2> SUFFICES ASSUME NEW f \in File \ torn PROVE Clean(f)'
    BY <1>3 DEF CleanFiles
  <2>1. \A q \in Proc \ {p} : Writing(q, f, pc') <=> Writing(q, f, pc)
    BY <1>0, <1>3, OthersWrite
  <2>2. ~ Writing(p, f, pc')
    BY <1>0, <1>3 DEF Writing
  <2> QED
    BY <1>1, <1>2, <1>3, <2>1, <2>2, CleanStays DEF CleanFiles
<1>4. CASE /\ Target(p, k) \in File /\ pc' = [pc EXCEPT ![p] = Writes[k]]
           /\ present' = present \cup {Target(p, k)}
           /\ text' = [text EXCEPT ![Target(p, k)] = <<>>]
           /\ torn' = IF Writers(Target(p, k)) = {} THEN torn \ {Target(p, k)}
                       ELSE torn \cup {Target(p, k)}
  <2> SUFFICES ASSUME NEW f \in File, f \notin torn' PROVE Clean(f)'
    BY DEF CleanFiles, File
  <2>1. \A q \in Proc \ {p} : Writing(q, f, pc') <=> Writing(q, f, pc)
    BY <1>0, <1>4, OthersWrite
  <2>2. Writing(p, f, pc') <=> f = Target(p, k)
    BY <1>0, <1>4, OpenedWrites
  <2>3. CASE f # Target(p, k)
    <3>1. f \notin torn /\ text'[f] = text[f] /\ (f \in present' => f \in present)
      BY <1>0, <1>4, <2>3
    <3> QED
      BY <1>1, <1>2, <2>1, <2>2, <2>3, <3>1, CleanStays DEF CleanFiles
  <2>4. CASE f = Target(p, k)
    <3>1. Writers(f) = {} /\ text'[f] = <<>>
      BY <1>0, <1>4, <2>4
    <3>2. \A q \in Proc : Writing(q, f, pc)' <=> q = p
      BY <1>1, <2>1, <2>2, <2>4, <3>1, WhoWrites DEF Writing
    <3> QED
      BY <3>1, <3>2 DEF Clean
  <2> QED
    BY <2>3, <2>4
<1> QED
  BY <1>3, <1>4 DEF Open, Goes

LEMMA CleanWrite ==
    ASSUME Typed, CleanFiles, NEW p \in Proc, NEW k \in 1..3, Write(p, k)
    PROVE  CleanFiles'
<1>0. pc \in [Proc -> Label] /\ text \in [File -> Seq(Piece)] /\ last \in [File -> {Nobody, ByHand} \cup (Proc \X (1..3))]
  BY Labels DEF Typed, TypeOK, Piece
<1>1. entry' = entry /\ present' = present /\ pc' = [pc EXCEPT ![p] = After(k)]
  BY DEF Write, Goes
<1>2. \A f : Writing(p, f, pc) <=> f = Target(p, k)
  BY AtWrite DEF Write
<1>3. PICK n \in 0..Length[p] :
         /\ text' = [text EXCEPT ![Target(p, k)] = Over(@, p, k, n)]
         /\ torn' = IF n < Length[p] THEN torn \cup {Target(p, k)} ELSE torn
  BY DEF Write
<1>4. last' = [last EXCEPT ![Target(p, k)] = <<p, k>>]
  BY DEF Write
<1> SUFFICES ASSUME NEW f \in File, f \notin torn' PROVE Clean(f)'
  BY DEF CleanFiles, File
<1>5. f \notin torn /\ Clean(f)
  BY <1>3 DEF CleanFiles
<1>6. \A q \in Proc \ {p} : Writing(q, f, pc') <=> Writing(q, f, pc)
  BY <1>0, <1>1, OthersWrite
<1>7. ~ Writing(p, f, pc')
  BY <1>0, <1>1, AfterLabel DEF Writing
<1>8. CASE f # Target(p, k)
  <2>1. text'[f] = text[f] /\ last'[f] = last[f]
    BY <1>0, <1>3, <1>4, <1>8
  <2> QED
    BY <1>1, <1>2, <1>5, <1>6, <1>7, <1>8, <2>1, CleanStays
<1>9. CASE f = Target(p, k)
  <2>1. n = Length[p]
    BY <1>3, <1>9, PackageAssumption
  <2>2. text[f] = <<>>
    BY <1>2, <1>5, <1>9 DEF Clean
  <2>3. text'[f] = Whole(p, k) /\ last'[f] = <<p, k>>
    BY <1>0, <1>3, <1>4, <1>9, <2>1, <2>2, WrittenWhole
  <2>4. \A q \in Proc : ~ Writing(q, f, pc)'
    BY <1>1, <1>2, <1>5, <1>6, <1>7, <1>9 DEF Clean, Writing
  <2>5. Target(p, k)' = f /\ Whole(p, k)' = Whole(p, k)
    BY <1>1, <1>9 DEF Target, Whole
  <2>6. Holds(f)'
    BY <2>3, <2>5 DEF Holds
  <2> QED
    BY <2>4, <2>6 DEF Clean
<1> QED
  BY <1>8, <1>9

\* A step that writes no file: it may end a process, or set one going, that has
\* no file open, or has one that is torn from then on.
LEMMA CleanAside ==
    ASSUME Typed, CleanFiles, NEW p \in Proc, NEW x \in Label \ WriteLabels,
           pc' = [pc EXCEPT ![p] = x], UNCHANGED <<text, present, entry, last>>,
           torn \subseteq torn', \A f \in File : Writing(p, f, pc) => f \in torn'
    PROVE  CleanFiles'
<1>0. pc \in [Proc -> Label]
  BY Labels DEF Typed
<1> SUFFICES ASSUME NEW f \in File, f \notin torn' PROVE Clean(f)'
  BY DEF CleanFiles, File
<1>1. \A q \in Proc \ {p} : Writing(q, f, pc') <=> Writing(q, f, pc)
  BY <1>0, OthersWrite
<1>2. ~ Writing(p, f, pc') /\ ~ Writing(p, f, pc)
  BY <1>0 DEF Writing, WriteLabels
<1>3. Clean(f)
  BY DEF CleanFiles
<1> QED
  BY <1>1, <1>2, <1>3, CleanStays

LEMMA CleanNext == Typed /\ CleanFiles /\ [Next]_vars => CleanFiles'
<1> SUFFICES ASSUME Typed, CleanFiles, [Next]_vars PROVE CleanFiles'
  OBVIOUS
<1>0. pc \in [Proc -> Label]
  BY Labels DEF Typed
<1> USE <1>0
<1>1. ASSUME NEW p \in Proc, CreateDirectory(p) PROVE CleanFiles'
  <2>1. PICK x \in {"open json", "terminated"} : pc' = [pc EXCEPT ![p] = x]
    BY <1>1, Steps DEF CreateDirectory, Goes
  <2>2. x \in Label \ WriteLabels
    BY DEF Label, OpenLabels, WriteLabels, Ended
  <2>3. \A f \in File : ~ Writing(p, f, pc)
    BY <1>1 DEF CreateDirectory, Writing
  <2>4. UNCHANGED <<text, present, entry, last, torn>>
    BY <1>1 DEF CreateDirectory
  <2> QED
    BY <2>1, <2>2, <2>3, <2>4, CleanAside
<1>2. ASSUME NEW p \in Proc, ThInfo(p) PROVE CleanFiles'
  <2>1. PICK x \in {"read", "done"} : pc' = [pc EXCEPT ![p] = x]
    BY <1>2 DEF ThInfo, Info, ReadProject, Goes
  <2>2. x \in Label \ WriteLabels
    BY DEF Label, OpenLabels, WriteLabels, Ended
  <2>3. \A f \in File : ~ Writing(p, f, pc)
    BY <1>2 DEF ThInfo, Info, ReadProject, Writing
  <2>4. UNCHANGED <<text, present, entry, last, torn>>
    BY <1>2 DEF ThInfo, Info, ReadProject
  <2> QED
    BY <2>1, <2>2, <2>3, <2>4, CleanAside
<1>3. ASSUME NEW p \in Proc, Kill(p) PROVE CleanFiles'
  <2>1. "killed" \in Label \ WriteLabels
    BY DEF Label, OpenLabels, WriteLabels, Ended
  <2>2. \A f \in File : Writing(p, f, pc) => f \in torn'
    BY <1>3, WhoWrites DEF Kill
  <2> QED
    BY <1>3, <2>1, <2>2, CleanAside DEF Kill, Goes
<1>4. ASSUME NEW g \in File, Edit(g) PROVE CleanFiles'
  <2> SUFFICES ASSUME NEW f \in File, f \notin torn' PROVE Clean(f)'
    BY DEF CleanFiles, File
  <2>1. \A q \in Proc : ~ Writing(q, f, pc)
    BY <1>4 DEF Edit, Idle, Ended, Writing
  <2>2. pc' = pc /\ entry' = entry /\ present' = present
    BY <1>4 DEF Edit
  <2>3. CASE f = g
    <3>1. text'[f] = <<ByHand>> /\ last'[f] = ByHand
      BY <1>4, <2>3 DEF Edit, Typed, TypeOK
    <3> QED
      BY <2>1, <2>2, <3>1 DEF Clean, Holds, Writing, ByHand
  <2>4. CASE f # g
    <3>1. f \notin torn /\ text'[f] = text[f] /\ last'[f] = last[f]
      BY <1>4, <2>4 DEF Edit, Typed, TypeOK
    <3> QED
      BY <2>1, <2>2, <3>1, CleanStays DEF CleanFiles
  <2> QED
    BY <2>3, <2>4
<1>5. CASE UNCHANGED vars
  <2> SUFFICES ASSUME NEW f \in File \ torn PROVE Clean(f)'
    BY <1>5 DEF CleanFiles, vars
  <2> QED
    BY <1>5, CleanStays DEF vars, CleanFiles
<1> QED
  BY <1>1, <1>2, <1>3, <1>4, <1>5, CleanOpen, CleanWrite DEF Next, ThInit

-----------------------------------------------------------------------------
\* As long as the inits come one after another and none of them fails, the one
\* under way has brought the files as far as its steps say, and where none is,
\* the project file and the readme are of the same one or edited.
Smooth ==
    /\ alone
    /\ \A p \in Proc : pc[p] \notin {"failed", "terminated", "killed"}
    /\ \A p \in Proc : entry[p] \notin {Json, Readme}

Active(p) == pc[p] \in OpenLabels \cup WriteLabels
Same == ByHand \in {last[Json], last[Readme]} \/ last[Json][1] = last[Readme][1]

Progress(p) ==
    /\ pc[p] \in {"open json", "write json"} => Same
    /\ pc[p] \in {"open readme", "write readme"} => last[Json][1] = p
    /\ pc[p] \in {"open main", "write main"} => last[Json][1] = p /\ last[Readme][1] = p

InStep ==
    Smooth =>
        /\ \A p, q \in Proc : Active(p) /\ Active(q) => p = q
        /\ (\A p \in Proc : ~ Active(p)) => Same
        /\ \A p \in Proc : Progress(p)

LEMMA InStepInit == Init => InStep
BY DEF Init, InStep, Active, Same, Progress, OpenLabels, WriteLabels, File

\* What was smooth up to a step was so before it.
LEMMA SmoothBefore ==
    ASSUME Typed, [Next]_vars, Smooth' PROVE Smooth
<1>0. pc \in [Proc -> Label]
  BY Labels DEF Typed
<1>1. entry' = entry /\ (alone' => alone)
  <2>1. ASSUME NEW p \in Proc, CreateDirectory(p) PROVE entry' = entry /\ (alone' => alone)
    BY <2>1 DEF CreateDirectory
  <2>2. ASSUME NEW p \in Proc, NEW k \in 1..3, Open(p, k) \/ Write(p, k)
        PROVE  entry' = entry /\ alone' = alone
    BY <2>2 DEF Open, Write
  <2>3. ASSUME NEW p \in Proc, ThInfo(p) \/ Kill(p) PROVE entry' = entry /\ alone' = alone
    BY <2>3 DEF ThInfo, Info, ReadProject, Kill
  <2>4. ASSUME NEW f \in File, Edit(f) PROVE entry' = entry /\ alone' = alone
    BY <2>4 DEF Edit
  <2> QED
    BY <2>1, <2>2, <2>3, <2>4 DEF Next, ThInit, vars
<1>2. ASSUME NEW q \in Proc, pc[q] \in {"failed", "terminated", "killed"} PROVE pc'[q] = pc[q]
  <2>1. \A k \in 1..3 : pc[q] # Opens[k] /\ pc[q] # Writes[k]
    BY <1>2, Three, Steps
  <2> QED
    BY <1>0, <1>2, <2>1
    DEF Next, ThInit, ThInfo, CreateDirectory, Open, Write, Info, ReadProject, Kill, Edit, vars, Goes,
        Idle, Ended
<1> QED
  BY <1>1, <1>2 DEF Smooth

LEMMA InStepNext == Typed /\ InStep /\ [Next]_vars => InStep'
<1> SUFFICES ASSUME Typed, InStep, [Next]_vars, Smooth' PROVE InStep'
  BY DEF InStep
<1>0. pc \in [Proc -> Label] /\ last \in [File -> {Nobody, ByHand} \cup (Proc \X (1..3))]
      /\ Json \in File /\ Readme \in File
  BY Labels DEF Typed, TypeOK, File
<1>s. /\ Smooth /\ \A q \in Proc : Progress(q)
      /\ \A q, r \in Proc : Active(q) /\ Active(r) => q = r
      /\ (\A q \in Proc : ~ Active(q)) => Same
  BY SmoothBefore DEF InStep
<1>1. ASSUME NEW p \in Proc, CreateDirectory(p) PROVE InStep'
  <2>1. \A q \in Proc : ~ Active(q)
    BY <1>1 DEF CreateDirectory, Smooth, Active, Idle, Ended, OpenLabels, WriteLabels
  <2>2. pc' = [pc EXCEPT ![p] = "open json"]
    BY <1>0, <1>1, Steps DEF CreateDirectory, Smooth, Goes
  <2>3. \A q \in Proc \ {p} : pc'[q] = pc[q]
    BY <1>0, <2>2
  <2>4. last' = last /\ pc'[p] = "open json" /\ Same
    BY <1>0, <1>1, <1>s, <2>1, <2>2 DEF CreateDirectory
  <2> QED
    BY <2>1, <2>3, <2>4 DEF InStep, Active, Same, Progress, OpenLabels, WriteLabels
<1>2. ASSUME NEW p \in Proc, NEW k \in 1..3, Open(p, k) PROVE InStep'
  <2>1. k \in {1, 2, 3}
    BY Three
  <2>2. pc' = [pc EXCEPT ![p] = Writes[k]] /\ pc[p] = Opens[k] /\ last' = last
    BY <1>0, <1>2 DEF Open, Smooth, Goes
  <2>3. \A q \in Proc \ {p} : pc'[q] = pc[q] /\ ~ Active(q)
    BY <1>0, <1>s, <2>2, AtOpen DEF Active
  <2>4. pc'[p] = Writes[k]
    BY <1>0, <2>2
  <2>5. Progress(p)'
    BY <1>s, <2>1, <2>2, <2>4, Steps DEF Progress, Same
  <2>6. Active(p)'
    BY <2>1, <2>4, Steps DEF Active, WriteLabels
  <2> QED
    BY <2>3, <2>5, <2>6 DEF InStep, Active, Progress, OpenLabels, WriteLabels
<1>3. ASSUME NEW p \in Proc, NEW k \in 1..3, Write(p, k) PROVE InStep'
  <2>1. k \in {1, 2, 3}
    BY Three
  <2>2. /\ pc' = [pc EXCEPT ![p] = After(k)] /\ pc[p] = Writes[k]
        /\ last' = [last EXCEPT ![Target(p, k)] = <<p, k>>]
    BY <1>3 DEF Write, Goes
  <2>3. \A q \in Proc \ {p} : pc'[q] = pc[q] /\ ~ Active(q)
    BY <1>0, <1>s, <2>2, AtWrite DEF Active
  <2>4. pc'[p] = After(k)
    BY <1>0, <2>2
  <2>5. CASE k = 1
    <3>1. pc'[p] = "open readme" /\ last'[Json][1] = p
      BY <1>0, <2>2, <2>4, <2>5, Steps, Targets
    <3> QED
      BY <2>3, <3>1 DEF InStep, Active, Progress, OpenLabels, WriteLabels
  <2>6. CASE k = 2
    <3>1. pc'[p] = "open main" /\ last[Json][1] = p
      BY <1>s, <2>2, <2>4, <2>6, Steps DEF Progress
    <3>2. last'[Readme][1] = p /\ last'[Json][1] = p
      BY <1>0, <2>2, <2>6, <3>1, Targets
    <3> QED
      BY <2>3, <3>1, <3>2 DEF InStep, Active, Progress, OpenLabels, WriteLabels
  <2>7. CASE k = 3
    <3>1. pc'[p] = "done" /\ last[Json][1] = p /\ last[Readme][1] = p
      BY <1>s, <2>2, <2>4, <2>7, Steps DEF Progress
    <3>2. last'[Readme] = last[Readme] /\ last'[Json] = last[Json]
      BY <1>0, <1>s, <2>2, <2>7, Targets DEF Smooth
    <3> QED
      BY <2>3, <3>1, <3>2 DEF InStep, Active, Same, Progress, OpenLabels, WriteLabels
  <2> QED
    BY <2>1, <2>5, <2>6, <2>7
<1>4. ASSUME NEW p \in Proc, ThInfo(p) PROVE InStep'
  <2>1. /\ pc[p] \in {"start", "read"} /\ pc'[p] \in {"read", "done"} /\ last' = last
        /\ \A q \in Proc \ {p} : pc'[q] = pc[q]
    BY <1>0, <1>4 DEF ThInfo, Info, ReadProject, Goes
  <2>2. \A q \in Proc : Active(q)' <=> Active(q)
    BY <2>1 DEF Active, OpenLabels, WriteLabels
  <2>3. \A q \in Proc : Progress(q)'
    BY <1>s, <2>1 DEF Progress, Same
  <2> QED
    BY <1>s, <2>1, <2>2, <2>3 DEF InStep, Same
<1>5. ASSUME NEW p \in Proc, Kill(p) PROVE InStep'
  BY <1>0, <1>5 DEF Kill, Goes, Smooth
<1>6. ASSUME NEW f \in File, Edit(f) PROVE InStep'
  <2>1. pc' = pc /\ last' = [last EXCEPT ![f] = ByHand]
    BY <1>6 DEF Edit
  <2>2. \A q \in Proc : ~ Active(q)
    BY <1>6 DEF Edit, Idle, Ended, Active, OpenLabels, WriteLabels
  <2>3. Same'
    BY <1>0, <1>s, <2>1, <2>2 DEF Same, ByHand
  <2> QED
    BY <2>1, <2>2, <2>3 DEF InStep, Active, Progress, OpenLabels, WriteLabels
<1>7. CASE UNCHANGED vars
  BY <1>s, <1>7 DEF vars, InStep, Active, Same, Progress
<1> QED
  BY <1>1, <1>2, <1>3, <1>4, <1>5, <1>6, <1>7 DEF Next, ThInit

-----------------------------------------------------------------------------
\* The four invariants, for every behaviour of the tool.
PackageInv == Typed /\ Begun /\ CleanFiles /\ InStep

LEMMA PackageInvHolds == Spec => []PackageInv
<1>1. Init => PackageInv
  BY TypeInit, BegunInit, CleanInit, InStepInit DEF PackageInv
<1>2. PackageInv /\ [Next]_vars => PackageInv'
  BY TypeNext, BegunNext, CleanNext, InStepNext DEF PackageInv
<1> QED
  BY <1>1, <1>2, PTL DEF Spec

\* The variables of the package tool keep their types.
THEOREM TypeHolds == Spec => []TypeOK
<1>1. PackageInv => TypeOK
  BY DEF PackageInv, Typed
<1> QED
  BY <1>1, PackageInvHolds, PTL

\* In whatever step an init stops, a directory with a file in it has the project
\* file: ThInit writes it first, and nothing of the tool removes a file.
THEOREM ProjectFileFirstHolds == Spec => []ProjectFileFirst
<1>1. PackageInv => ProjectFileFirst
  BY DEF PackageInv, Begun
<1> QED
  BY <1>1, PackageInvHolds, PTL

\* A file whose last writer was alone, had room and was not killed holds the
\* whole of its text, whatever was in it before, for texts of every length.
THEOREM FilesWholeHolds == Spec => []FilesWhole
<1>1. PackageInv => FilesWhole
  <2> SUFFICES ASSUME PackageInv, NEW f \in present \ torn, Writers(f) = {}
               PROVE  text[f] = IF last[f] = ByHand THEN <<ByHand>>
                                ELSE Whole(last[f][1], last[f][2])
    BY DEF FilesWhole
  <2>1. Holds(f)
    BY WhoWrites DEF PackageInv, Typed, TypeOK, CleanFiles, Clean
  <2> QED
    BY <2>1, PackageAssumption DEF Holds, ByHand
<1> QED
  BY <1>1, PackageInvHolds, PTL

\* Inits that come one after another and all succeed leave a project file and
\* a readme of the same init.
THEOREM CoherentHolds == Spec => []Coherent
<1>1. PackageInv => Coherent
  <2> SUFFICES ASSUME PackageInv, alone,
                      \A p \in Proc : pc[p] \in {"start", "done"},
                      \A p \in Proc : entry[p] \notin {Json, Readme},
                      ByHand \notin {last[Json], last[Readme]}
               PROVE  last[Json][1] = last[Readme][1]
    BY DEF Coherent
  <2>1. Smooth /\ \A p \in Proc : ~ Active(p)
    BY DEF Smooth, Active, OpenLabels, WriteLabels
  <2> QED
    BY <2>1 DEF PackageInv, InStep, Same
<1> QED
  BY <1>1, PackageInvHolds, PTL

\* info finds an error in a project file only for a cause: the file is being
\* written, was torn or edited, or is where an init put the program.
THEOREM ErrorHasCauseHolds == Spec => ErrorHasCause
<1>1. PackageInv /\ [Next]_vars =>
         [\A p \in Proc :
            seen'[p] = "error" /\ seen[p] # "error" =>
                \/ Json \in torn \/ Writers(Json) # {}
                \/ last[Json] = ByHand \/ last[Json][2] = 3]_vars
  <2> SUFFICES ASSUME PackageInv, Next, NEW p \in Proc, seen'[p] = "error", seen[p] # "error",
                      Json \notin torn, Writers(Json) = {}, last[Json] # ByHand
               PROVE  last[Json][2] = 3
    OBVIOUS
  <2>1. ReadProject(p)
    BY DEF PackageInv, Typed, TypeOK, Next, ThInit, ThInfo, CreateDirectory, Open, Write, Info,
           ReadProject, Kill, Edit
  <2>2. Json \in File /\ Json \in present
    BY <2>1 DEF PackageInv, Begun, ReadProject, File
  <2>3. Holds(Json)
    BY <2>2, WhoWrites DEF PackageInv, CleanFiles, Clean
  <2>4. PICK q \in Proc, k \in 1..3 :
           last[Json] = <<q, k>> /\ text[Json] = Whole(q, k) /\ Target(q, k) = Json
    BY <2>3 DEF Holds
  <2>5. k # 1
    BY <2>1, <2>4 DEF PackageInv, Typed, TypeOK, ReadProject, Parses
  <2>6. k # 2
    BY <2>4, Targets, PackageAssumption
  <2> QED
    BY <2>4, <2>5, <2>6, Three
<1> QED
  BY <1>1, PackageInvHolds, PTL DEF Spec, ErrorHasCause
=============================================================================
