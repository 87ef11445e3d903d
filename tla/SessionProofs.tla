----------------------------- MODULE SessionProofs -----------------------------
(***************************************************************************)
(* Session, for every set of addresses and every number of calls.  The      *)
(* inductive invariant says where the scanner can stand between two calls:  *)
(* in the middle of a file only while that file is still open, so that no   *)
(* later temporary file can have its address.                              *)
(***************************************************************************)
EXTENDS Session, FiniteSetTheorems, TLAPS

MiddleIsOpen == place = "middle" => input \in opened

OpenedCounted == IsFiniteSet(opened) /\ OpenOnlyAfterThrow

SessionInv ==
    /\ TypeOK
    /\ MiddleIsOpen
    /\ OpenedCounted
    /\ NoForeignText
    /\ ExitHasCause

\* A new file hears its own program, or nothing when it is the one read last.
LEMMA HearsNoStale ==
    ASSUME MiddleIsOpen, TypeOK, NEW a \in Addr, Free(a)
    PROVE  /\ Hears(a) \in {"own", "nothing"}
           /\ Hears(a) = "nothing" => input = a
<1>1. input = a => a \notin opened /\ input # NoAddr
  BY SessionAssumption DEF Free
<1>2. input = a => place = "end"
  BY <1>1 DEF MiddleIsOpen, TypeOK
<1> QED
  BY <1>2 DEF Hears

\* What is heard decides what the parser does.
LEMMA BehavioursFacts ==
    ASSUME NEW program \in Program, NEW heard \in {"own", "nothing"}
    PROVE  /\ Behaviours(program, heard) \subseteq Program
           /\ heard = "own" => Behaviours(program, heard) = {program}
           /\ heard = "nothing" => Behaviours(program, heard) = {"syntax"}
BY DEF Behaviours, Program

\* The initial states satisfy the invariant.
LEMMA SessionInit == Init => SessionInv
<1> SUFFICES ASSUME Init PROVE SessionInv
  OBVIOUS
<1>1. TypeOK
  BY SessionAssumption DEF Init, TypeOK, Quiet, Outcome, Program, Heard, Answer
<1>2. OpenedCounted
  BY FS_EmptySet DEF Init, OpenedCounted, OpenOnlyAfterThrow
<1> QED
  BY <1>1, <1>2 DEF Init, SessionInv, MiddleIsOpen, NoForeignText, ExitHasCause,
     Quiet

LEMMA SessionNext == SessionInv /\ [Next]_vars => SessionInv'
<1> SUFFICES ASSUME SessionInv, [Next]_vars PROVE SessionInv'
  OBVIOUS
<1> USE SessionAssumption DEF SessionInv
<1>1. ASSUME NEW a \in Addr, ClientOpens(a) PROVE SessionInv'
  BY <1>1 DEF ClientOpens, Free, TypeOK, MiddleIsOpen, OpenedCounted,
     OpenOnlyAfterThrow, NoForeignText, ExitHasCause
<1>2. ASSUME NEW a \in Addr, ClientCloses(a) PROVE SessionInv'
  BY <1>2 DEF ClientCloses, TypeOK, MiddleIsOpen, OpenedCounted,
     OpenOnlyAfterThrow, NoForeignText, ExitHasCause
<1>3. ASSUME NEW program \in Program, CompileUnopened(program)
      PROVE  SessionInv'
  <2>1. last' \in Outcome
    BY <1>3 DEF CompileUnopened, Ir, Quiet, Outcome, Program, Heard, Answer
  <2>2. TypeOK'
    BY <1>3, <2>1 DEF CompileUnopened, Calling, TypeOK
  <2> QED
    BY <1>3, <2>2 DEF CompileUnopened, Ir, Quiet, MiddleIsOpen, OpenedCounted,
       OpenOnlyAfterThrow, NoForeignText, ExitHasCause
<1>4. ASSUME NEW program \in Program, NEW a \in Addr, Free(a)
      PROVE  /\ Hears(a) \in {"own", "nothing"}
             /\ Hears(a) = "nothing" => input = a
             /\ Hears(a) = "own" => Behaviours(program, Hears(a)) = {program}
             /\ Hears(a) = "nothing" => Behaviours(program, Hears(a)) = {"syntax"}
  BY <1>4, HearsNoStale, BehavioursFacts
<1>5. ASSUME NEW program \in Program, NEW a \in Addr,
             NEW answer \in {"text", "null", "exit"}, Free(a)
      PROVE  Ir(program, Hears(a), answer) \in Outcome
  BY <1>4, <1>5 DEF Ir, Quiet, Outcome, Program, Heard, Answer
<1>6. ASSUME NEW program \in Program, NEW a \in Addr, Compile(program, a)
      PROVE  SessionInv'
  <2>1. Free(a)
    BY <1>6 DEF Compile
  <2>2. last' = Ir(program, Hears(a), "text")
    BY <1>6 DEF Compile
  <2>3. TypeOK'
    BY <1>5, <1>6, <2>1, <2>2 DEF Compile, Calling, TypeOK
  <2>4. NoForeignText' /\ ExitHasCause'
    BY <1>4, <2>1, <2>2 DEF NoForeignText, ExitHasCause, Ir, Quiet
  <2> QED
    BY <1>6, <2>3, <2>4 DEF Compile, MiddleIsOpen, OpenedCounted,
       OpenOnlyAfterThrow
<1>7. ASSUME NEW program \in Program, NEW a \in Addr, CompileThrows(program, a)
      PROVE  SessionInv'
  <2>1. Free(a)
    BY <1>7 DEF CompileThrows
  <2>2. last' = Ir(program, Hears(a), "null")
    BY <1>7 DEF CompileThrows
  <2>3. TypeOK'
    BY <1>5, <1>7, <2>1, <2>2 DEF CompileThrows, Calling, TypeOK
  <2>4. NoForeignText' /\ ExitHasCause'
    BY <1>4, <2>1, <2>2 DEF NoForeignText, ExitHasCause, Ir, Quiet
  <2>5. OpenedCounted'
    <3>1. IsFiniteSet(opened) /\ a \notin opened
      BY <2>1 DEF OpenedCounted, Free
    <3>2. /\ IsFiniteSet(opened \cup {a})
          /\ Cardinality(opened \cup {a}) = Cardinality(opened) + 1
      BY <3>1, FS_AddElement
    <3> QED
      BY <1>7, <2>1, <3>2 DEF CompileThrows, Free, OpenedCounted,
         OpenOnlyAfterThrow
  <2> QED
    BY <1>7, <2>3, <2>4, <2>5 DEF CompileThrows, MiddleIsOpen
<1>8. ASSUME NEW program \in Program, NEW a \in Addr, CompileExits(program, a)
      PROVE  SessionInv'
  <2>1. Free(a)
    BY <1>8 DEF CompileExits
  <2>2. last' = Ir(program, Hears(a), "exit")
    BY <1>8 DEF CompileExits
  <2>3. TypeOK'
    <3>1. alive' \in BOOLEAN
      BY <1>8 DEF CompileExits
    <3>2. UNCHANGED <<opened, client, input, place, lld, threw>>
      BY <1>8 DEF CompileExits
    <3>3. calls' \in 0..MaxCalls /\ threw' \in 0..calls'
      BY <1>8, <3>2 DEF CompileExits, Calling, TypeOK
    <3>4. last' \in Outcome
      BY <1>5, <2>1, <2>2
    <3> QED
      BY <3>1, <3>2, <3>3, <3>4 DEF TypeOK
  <2>4. NoForeignText'
    BY <1>4, <2>1, <2>2 DEF NoForeignText, Ir, Quiet
  <2>5. ExitHasCause'
    <3>1. \/ program \in {"syntax", "crash"}
          \/ Hears(a) = "nothing" /\ input = a
      BY <1>4, <1>8, <2>1 DEF CompileExits
    <3> QED
      BY <1>8, <2>1, <2>2, <3>1 DEF CompileExits, ExitHasCause, Ir, Quiet, Free
  <2> QED
    BY <1>8, <2>3, <2>4, <2>5 DEF CompileExits, MiddleIsOpen, OpenedCounted,
       OpenOnlyAfterThrow
<1>9. ASSUME NEW answer \in {"true", "false"}, NEW again \in BOOLEAN,
              Link(answer, again)
       PROVE  SessionInv'
  <2>1. last' \in Outcome
    BY <1>9 DEF Link, Quiet, Outcome, Program, Heard, Answer, TypeOK
  <2>2. TypeOK'
    BY <1>9, <2>1 DEF Link, Calling, TypeOK
  <2> QED
    BY <1>9, <2>2 DEF Link, Quiet, MiddleIsOpen, OpenedCounted,
       OpenOnlyAfterThrow, NoForeignText, ExitHasCause
<1>10. CASE LinkCrashes
  <2>1. last' \in Outcome
    BY <1>10 DEF LinkCrashes, Quiet, Outcome, Program, Heard, Answer, TypeOK
  <2>2. TypeOK'
    <3>1. alive' \in BOOLEAN
      BY <1>10 DEF LinkCrashes
    <3>2. UNCHANGED <<opened, client, input, place, lld, threw>>
      BY <1>10 DEF LinkCrashes
    <3>3. calls' \in 0..MaxCalls /\ threw' \in 0..calls'
      BY <1>10, <3>2 DEF LinkCrashes, Calling, TypeOK
    <3>4. last' \in Outcome
      BY <2>1
    <3> QED
      BY <3>1, <3>2, <3>3, <3>4 DEF TypeOK
  <2> QED
    BY <1>10, <2>2 DEF LinkCrashes, Quiet, MiddleIsOpen, OpenedCounted,
       OpenOnlyAfterThrow, NoForeignText, ExitHasCause
<1>11. CASE UNCHANGED vars
  BY <1>11 DEF vars, TypeOK, MiddleIsOpen, OpenedCounted, OpenOnlyAfterThrow,
     NoForeignText, ExitHasCause
<1>12. CASE Finished
  BY <1>11, <1>12 DEF Finished
<1> QED
  BY <1>1, <1>2, <1>3, <1>6, <1>7, <1>8, <1>9, <1>10, <1>11, <1>12 DEF Next

\* The invariant holds of every session.
THEOREM SessionInvHolds == Spec => []SessionInv
BY SessionInit, SessionNext, PTL DEF Spec

\* Whatever a client calls and however addresses are reused, no call compiles
\* text of another call's program.
THEOREM NoForeignTextHolds == Spec => []NoForeignText
<1>1. SessionInv => NoForeignText
  BY DEF SessionInv
<1> QED
  BY <1>1, SessionInvHolds, PTL

\* Temporary files stay open only after exceptions, one after each.
THEOREM OpenOnlyAfterThrowHolds == Spec => []OpenOnlyAfterThrow
<1>1. SessionInv => OpenOnlyAfterThrow
  BY DEF SessionInv, OpenedCounted
<1> QED
  BY <1>1, SessionInvHolds, PTL

\* A compilation ends the process only for the program's sake, or because its
\* file has the address of one that was read to the end and closed.
THEOREM ExitHasCauseHolds == Spec => []ExitHasCause
<1>1. SessionInv => ExitHasCause
  BY DEF SessionInv
<1> QED
  BY <1>1, SessionInvHolds, PTL
=============================================================================
