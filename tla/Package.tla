-------------------------------- MODULE Package --------------------------------
(***************************************************************************)
(* The package tool: ThInit and ThInfo of src/src/acli.cpp, run by several  *)
(* processes on the directory of one package.  init writes three files one  *)
(* after the other; opening empties a file, the text arrives later, and     *)
(* nothing locks the directory or looks whether a write succeeded.  info    *)
(* reads the project file.  Between two steps another process may run, the  *)
(* process may be killed, and the disk may be full.                         *)
(*                                                                         *)
(* A text is a sequence of pieces, each known by the process it comes from  *)
(* and which of its three texts it is part of; a project file parses when   *)
(* it is one whole text of the first kind and nothing else.                 *)
(***************************************************************************)
EXTENDS Naturals, Sequences, Functions

CONSTANTS
    Proc,       \* the processes
    Length,     \* how long the texts of a process are
    Entries,    \* the entry points that may be named: files, or NoSuchPath
    Json, Readme, Main,   \* the files of a package
    NoSuchPath, \* a path in a directory that is not there
    User        \* whoever edits files by hand

File == {Json, Readme, Main}

ASSUME PackageAssumption ==
    /\ Length \in [Proc -> Nat \ {0}]
    /\ Entries \subseteq File \cup {NoSuchPath}
    /\ Json # Readme /\ NoSuchPath \notin File /\ User \notin Proc

VARIABLES
    made,      \* the directory is there
    text,      \* the pieces of each file
    present,   \* the files that exist
    pc,        \* where a process is
    entry,     \* the entry point a process was given
    seen,      \* what info ended with
    last,      \* history: which text was written to a file last, <<who, which>>
    torn,      \* history: the files some process was killed, or short of room,
               \* or not alone in writing since they were last opened by one alone
    alone      \* history: no two inits were ever under way together

vars == <<made, text, present, pc, entry, seen, last, torn, alone>>

-----------------------------------------------------------------------------
\* What ThInit writes in which order: the project file, the readme, and
\* whatever the entry point names.
\* slip: the program first
TargetProgramFirst(p, k) == <<entry[p], Json, Readme>>[k]
Target(p, k) == <<Json, Readme, entry[p]>>[k]

Nobody == <<User, 0>>
ByHand == <<User, 1>>

\* The steps of init: open 1, write 1, open 2, ... as states of pc.
Opens == <<"open json", "open readme", "open main">>
Writes == <<"write json", "write readme", "write main">>
\* slip: a readme that is there is kept
AfterSkipping(k) == IF k = 3 \/ (k = 1 /\ Readme \in present) THEN "done" ELSE Opens[k + 1]
After(k) == IF k = 3 THEN "done" ELSE Opens[k + 1]
Ended == {"done", "failed", "terminated", "killed"}
Idle(p) == pc[p] \in Ended \cup {"start"}

\* the processes that have a file open to write it
Writers(f) == {p \in Proc : \E k \in 1..3 : pc[p] = Writes[k] /\ Target(p, k) = f}

Init ==
    /\ made = FALSE /\ present = {}
    /\ text = [f \in File |-> <<>>]
    /\ pc = [p \in Proc |-> "start"]
    /\ entry \in [Proc -> Entries]
    /\ seen = [p \in Proc |-> "nothing"]
    /\ last = [f \in File |-> Nobody] /\ torn = {} /\ alone = TRUE

Goes(p, there) == pc' = [pc EXCEPT ![p] = there]

\* create_directory: an old directory will do; it throws where it cannot make
\* one, and nobody catches that
CreateDirectory(p) ==
    /\ pc[p] = "start"
    /\ \/ made' = TRUE /\ Goes(p, Opens[1])
       \/ ~ made /\ UNCHANGED made /\ Goes(p, "terminated")
    /\ alone' = (alone /\ \A q \in Proc : Idle(q) \/ pc[q] = "read")
    /\ UNCHANGED <<text, present, entry, seen, last, torn>>

\* slip: the file is opened without being emptied
OpenKeeping(p, k) ==
    LET f == Target(p, k) IN
    /\ pc[p] = Opens[k]
    /\ \/ /\ f \in File
          /\ present' = present \cup {f}
          /\ torn' = IF Writers(f) = {} THEN torn \ {f} ELSE torn \cup {f}
          /\ Goes(p, Writes[k])
          /\ UNCHANGED text
       \/ Goes(p, "failed") /\ UNCHANGED <<present, text, torn>>
    /\ UNCHANGED <<made, entry, seen, last, alone>>

\* an ofstream is opened: the file is there and empty, or ThInit returns
Open(p, k) ==
    LET f == Target(p, k) IN
    /\ pc[p] = Opens[k]
    /\ \/ /\ f \in File
          /\ present' = present \cup {f}
          /\ text' = [text EXCEPT ![f] = <<>>]
          /\ torn' = IF Writers(f) = {} THEN torn \ {f} ELSE torn \cup {f}
          /\ Goes(p, Writes[k])
       \/ Goes(p, "failed") /\ UNCHANGED <<present, text, torn>>
    /\ UNCHANGED <<made, entry, seen, last, alone>>

\* The text is written from the beginning of the file over what is there, and
\* the stream closed; a full disk keeps some of it back and is not noticed.
Whole(p, k) == [i \in 1..Length[p] |-> <<p, k>>]
\* slip: the last piece is not written, which leaves a hole
OverShort(old, p, k, n) ==
    [i \in 1..(IF n > Len(old) THEN n ELSE Len(old)) |-> IF i < n THEN <<p, k>> ELSE
        IF i <= Len(old) THEN old[i] ELSE Nobody]
Over(old, p, k, n) ==
    [i \in 1..(IF n > Len(old) THEN n ELSE Len(old)) |-> IF i <= n THEN <<p, k>> ELSE old[i]]

Write(p, k) ==
    LET f == Target(p, k) IN
    /\ pc[p] = Writes[k]
    /\ \E n \in 0..Length[p] :
        /\ text' = [text EXCEPT ![f] = Over(@, p, k, n)]
        /\ torn' = IF n < Length[p] THEN torn \cup {f} ELSE torn
    /\ last' = [last EXCEPT ![f] = <<p, k>>]
    /\ Goes(p, After(k))
    /\ UNCHANGED <<made, present, entry, seen, alone>>

\* ThInfo: is there a project file, then what does it say
Parses(t) == \E p \in Proc : t = Whole(p, 1)

Info(p) ==
    /\ pc[p] = "start"
    /\ IF Json \in present THEN Goes(p, "read") /\ UNCHANGED seen
       ELSE Goes(p, "done") /\ seen' = [seen EXCEPT ![p] = "missing"]
    /\ UNCHANGED <<made, text, present, entry, last, torn, alone>>

\* A file of someone's own may parse and lack a member: then operator[] and
\* GetString assert.
ReadProject(p) ==
    /\ pc[p] = "read"
    /\ \E outcome \in IF Parses(text[Json]) THEN {"shown"}
                       ELSE IF text[Json] = <<ByHand>> THEN {"shown", "error", "aborted"}
                       ELSE {"error"} :
          seen' = [seen EXCEPT ![p] = outcome]
    /\ Goes(p, "done")
    /\ UNCHANGED <<made, text, present, entry, last, torn, alone>>

\* A process is killed: what it has not written stays unwritten.
Kill(p) ==
    /\ ~ Idle(p)
    /\ Goes(p, "killed")
    /\ torn' = torn \cup {f \in File : p \in Writers(f)}
    /\ UNCHANGED <<made, text, present, entry, seen, last, alone>>

\* A file is edited by hand while no process works on the package.
Edit(f) ==
    /\ f \in present /\ \A p \in Proc : Idle(p)
    /\ text' = [text EXCEPT ![f] = <<ByHand>>]
    /\ last' = [last EXCEPT ![f] = ByHand]
    /\ torn' = torn \ {f}
    /\ UNCHANGED <<made, present, pc, entry, seen, alone>>

ThInit(p) == CreateDirectory(p) \/ \E k \in 1..3 : Open(p, k) \/ Write(p, k)
ThInfo(p) == Info(p) \/ ReadProject(p)

Next ==
    \/ \E p \in Proc : ThInit(p) \/ ThInfo(p) \/ Kill(p)
    \/ \E f \in File : Edit(f)

Spec == Init /\ [][Next]_vars

-----------------------------------------------------------------------------
TypeOK ==
    /\ made \in BOOLEAN /\ present \subseteq File /\ torn \subseteq File /\ alone \in BOOLEAN
    /\ pc \in [Proc -> Range(Opens) \cup Range(Writes) \cup Ended \cup {"start", "read"}]
    /\ entry \in [Proc -> Entries]
    /\ seen \in [Proc -> {"nothing", "missing", "shown", "error", "aborted"}]
    /\ last \in [File -> {Nobody, ByHand} \cup (Proc \X (1..3))]
    /\ text \in [File -> Seq({ByHand} \cup (Proc \X (1..3)))]

\* The text of a file is the whole of what was written to it last: whoever
\* opened it empties it first, so a shorter text leaves nothing of a longer one
\* and an init repairs what an earlier one left in pieces.  It need not be while
\* it is being written, or when its last writers shared it, or were short of
\* room or killed.
FilesWhole ==
    \A f \in present \ torn :
        Writers(f) = {} =>
            text[f] = IF last[f] = ByHand THEN <<ByHand>> ELSE Whole(last[f][1], last[f][2])

\* The project file is there before any other: a directory init was stopped in,
\* at whatever step, is empty or one that info finds.
ProjectFileFirst == present # {} => Json \in present

\* When the inits came one after another and all ended, the files are of the
\* same one, unless somebody edited them or named one of them as entry point.
Coherent ==
    /\ alone /\ \A p \in Proc : pc[p] \in {"start", "done"}
    /\ \A p \in Proc : entry[p] \notin {Json, Readme}
    /\ ByHand \notin {last[Json], last[Readme]}
    => last[Json][1] = last[Readme][1]

\* info finds an error in a project file only while it is written, after it was
\* torn, after an edit, or where an init was told to put the program there.
ErrorHasCause ==
    [][\A p \in Proc :
         seen'[p] = "error" /\ seen[p] # "error" =>
             \/ Json \in torn \/ Writers(Json) # {}
             \/ last[Json] = ByHand \/ last[Json][2] = 3]_vars
=============================================================================
