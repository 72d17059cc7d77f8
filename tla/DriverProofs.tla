---------------------------- MODULE DriverProofs ----------------------------
(***************************************************************************)
(* Safety of Driver for any number of invocations, with and without -s,    *)
(* and whatever fails.                                                     *)
(***************************************************************************)
EXTENDS Driver, TLAPS

(* Invocations follow one another: all but the last have returned.         *)
InTurn ==
    \A r \in Runs :
        /\ r > run => pc[r] = "idle" /\ child[r] = "none"
        /\ r <= run => pc[r] # "idle"
        /\ r < run => pc[r] = "done"

(* Where a parent is says what its child can be doing.                     *)
Together ==
    \A r \in Runs :
        /\ pc[r] \in {"idle", "passes", "codegen", "fork"} => child[r] = "none"
        /\ pc[r] = "wait" => ~ flags[r].FINALCODE
        /\ pc[r] = "remove" => ~ flags[r].FINALCODE /\ child[r] \in Ended
        /\ pc[r] = "done" /\ ~ flags[r].FINALCODE => child[r] \in Ended \cup {"none"}
        /\ child[r] = "remove" => ~ flags[r].FINALCODE
        /\ code[r] = 0 => pc[r] = "done"

(* icoutput is written by the parent once, and once by a second compiler.  *)
ParentHolds(r) == pc[r] \in {"idle", "passes", "codegen", "fork", "close"}
ChildWrote(r) == child[r] \in {"remove", "returned"}
IcodeCounted ==
    \A r \in Runs :
        /\ ParentHolds(r) /\ ~ ChildWrote(r) => ic[r] = 0
        /\ ParentHolds(r) \/ ~ ChildWrote(r) => ic[r] \in 0 .. 1

(* The C file belongs to the invocation in progress until it is removed.   *)
OwnCFile ==
    \A r \in Runs : run = r =>
        /\ pc[r] = "fork" => cfile = r
        /\ child[r] \in {"exec", "read"} => cfile = r
        /\ pc[r] = "close" /\ flags[r].FINALCODE => cfile = r
        /\ code[r] = 0 => cfile = IF flags[r].FINALCODE THEN r ELSE Absent

OwnProduct ==
    \A r \in Runs : run = r /\ NoneRetains(r) =>
        /\ child[r] = "write" => input[r] = r
        /\ child[r] = "built" => product[Kind(r)] = r

Alive == TypeOK /\ InTurn /\ Together /\ IcodeCounted
IInv == Alive /\ OwnCFile /\ OwnProduct

-----------------------------------------------------------------------------
LEMMA InitIInv == Init => IInv
BY DriverAssumption
DEF Init, IInv, Alive, TypeOK, InTurn, Together, IcodeCounted, ParentHolds, ChildWrote,
    OwnCFile, OwnProduct, Runs, Kinds, NoFlags, Absent, Partial, Ended

(* Types.                                                                  *)
LEMMA StepTypes ==
    ASSUME Alive, [Next]_vars PROVE TypeOK'
<1> USE DriverAssumption
    DEF TypeOK, Runs, Kinds, Absent, Partial, Ended, files, Goto, ChildGoto, Return,
        Alive, Together, IcodeCounted, ParentHolds, ChildWrote
<1>1. ASSUME NEW s \in Retain, NEW c \in BOOLEAN, NEW i \in BOOLEAN, Start(s, c, i)
      PROVE  TypeOK'
  BY <1>1 DEF Start
<1>2. ASSUME NEW r \in Runs, Parent(r) PROVE TypeOK'
  <2>1. CASE PassesReject(r)
    BY <2>1 DEF PassesReject
  <2>2. CASE OpenOutput(r)
    BY <2>2 DEF OpenOutput
  <2>3. CASE CodegenFails(r)
    <3>1. ic[r] = 0
      BY <2>3 DEF CodegenFails
    <3>2. ic' \in [Runs -> 0 .. 2]
      BY <2>3, <3>1 DEF CodegenFails, Written
    <3> QED
      BY <2>3, <3>2 DEF CodegenFails
  <2>4. CASE CloseOutput(r)
    BY <2>4 DEF CloseOutput
  <2>5. CASE Fork(r)
    BY <2>5 DEF Fork
  <2>6. CASE ForkFails(r)
    BY <2>6 DEF ForkFails, Written
  <2>7. CASE CloseIcode(r)
    <3>1. ic[r] \in 0 .. 1
      BY <2>7 DEF CloseIcode
    <3>2. ic' \in [Runs -> 0 .. 2]
      BY <2>7, <3>1 DEF CloseIcode, Written
    <3>3. code' = code \/ code' = [code EXCEPT ![r] = 0]
      BY <2>7 DEF CloseIcode
    <3>4. code' \in [Runs -> -1 .. 4]
      BY <3>3
    <3>5. \E where \in {"wait", "done"} : pc' = [pc EXCEPT ![r] = where]
      BY <2>7 DEF CloseIcode
    <3> QED
      BY <2>7, <3>2, <3>4, <3>5 DEF CloseIcode
  <2>8. CASE Wait(r)
    BY <2>8 DEF Wait
  <2>9. CASE Remove(r)
    BY <2>9 DEF Remove
  <2> QED
    BY <1>2, <2>1, <2>2, <2>3, <2>4, <2>5, <2>6, <2>7, <2>8, <2>9 DEF Parent
<1>3. ASSUME NEW r \in Runs, Child(r) PROVE TypeOK'
  <2>1. CASE Exec(r)
    BY <2>1 DEF Exec
  <2>2. CASE ExecFails(r)
    BY <2>2 DEF ExecFails
  <2>3. CASE GccReads(r)
    BY <2>3 DEF GccReads
  <2>4. CASE GccWrites(r)
    BY <2>4 DEF GccWrites, Kind
  <2>5. CASE GccFails(r)
    BY <2>5 DEF GccFails, Kind
  <2>6. CASE SecondCompiler(r)
    <3>1. ic[r] \in 0 .. 1
      BY <2>6 DEF SecondCompiler
    <3>2. ic' \in [Runs -> 0 .. 2]
      BY <2>6, <3>1 DEF SecondCompiler, Written
    <3>3. \E where \in {"returned", "remove"} : child' = [child EXCEPT ![r] = where]
      BY <2>6 DEF SecondCompiler
    <3> QED
      BY <2>6, <3>2, <3>3 DEF SecondCompiler
  <2>7. CASE SecondRemove(r)
    BY <2>7 DEF SecondRemove
  <2> QED
    BY <1>3, <2>1, <2>2, <2>3, <2>4, <2>5, <2>6, <2>7 DEF Child
<1>4. CASE UNCHANGED vars
  BY <1>4 DEF vars
<1> QED
  BY <1>1, <1>2, <1>3, <1>4 DEF Next, Shell, Terminated

(* The shell waits for the parent, and every step is made in its turn.     *)
LEMMA StepInTurn ==
    ASSUME Alive, [Next]_vars PROVE InTurn'
<1> USE DriverAssumption
    DEF TypeOK, Runs, Kinds, Absent, Partial, Ended, files, Goto, ChildGoto, Return,
        Alive, InTurn, Together
<1>1. ASSUME NEW s \in Retain, NEW c \in BOOLEAN, NEW i \in BOOLEAN, Start(s, c, i)
      PROVE  InTurn'
  BY <1>1 DEF Start
<1>2. ASSUME NEW r \in Runs, Parent(r) PROVE InTurn'
  <2>1. CASE PassesReject(r)
    BY <2>1 DEF PassesReject
  <2>2. CASE OpenOutput(r)
    BY <2>2 DEF OpenOutput
  <2>3. CASE CodegenFails(r)
    BY <2>3 DEF CodegenFails, Written
  <2>4. CASE CloseOutput(r)
    BY <2>4 DEF CloseOutput
  <2>5. CASE Fork(r)
    BY <2>5 DEF Fork
  <2>6. CASE ForkFails(r)
    BY <2>6 DEF ForkFails, Written
  <2>7. CASE CloseIcode(r)
    BY <2>7 DEF CloseIcode, Written
  <2>8. CASE Wait(r)
    BY <2>8 DEF Wait
  <2>9. CASE Remove(r)
    BY <2>9 DEF Remove
  <2> QED
    BY <1>2, <2>1, <2>2, <2>3, <2>4, <2>5, <2>6, <2>7, <2>8, <2>9 DEF Parent
<1>3. ASSUME NEW r \in Runs, Child(r) PROVE InTurn'
  <2>1. CASE Exec(r)
    BY <2>1 DEF Exec
  <2>2. CASE ExecFails(r)
    BY <2>2 DEF ExecFails
  <2>3. CASE GccReads(r)
    BY <2>3 DEF GccReads
  <2>4. CASE GccWrites(r)
    BY <2>4 DEF GccWrites, Kind
  <2>5. CASE GccFails(r)
    BY <2>5 DEF GccFails, Kind
  <2>6. CASE SecondCompiler(r)
    BY <2>6 DEF SecondCompiler, Written
  <2>7. CASE SecondRemove(r)
    BY <2>7 DEF SecondRemove
  <2> QED
    BY <1>3, <2>1, <2>2, <2>3, <2>4, <2>5, <2>6, <2>7 DEF Child
<1>4. CASE UNCHANGED vars
  BY <1>4 DEF vars
<1> QED
  BY <1>1, <1>2, <1>3, <1>4 DEF Next, Shell, Terminated

(* What parent and child may do at the same time.                          *)
LEMMA StepTogether ==
    ASSUME Alive, [Next]_vars PROVE Together'
<1> USE DriverAssumption
    DEF TypeOK, Runs, Kinds, Absent, Partial, Ended, files, Goto, ChildGoto, Return,
        Alive, InTurn, Together
<1>1. ASSUME NEW s \in Retain, NEW c \in BOOLEAN, NEW i \in BOOLEAN, Start(s, c, i)
      PROVE  Together'
  BY <1>1 DEF Start
<1>2. ASSUME NEW r \in Runs, Parent(r) PROVE Together'
  <2>1. CASE PassesReject(r)
    BY <2>1 DEF PassesReject
  <2>2. CASE OpenOutput(r)
    BY <2>2 DEF OpenOutput
  <2>3. CASE CodegenFails(r)
    BY <2>3 DEF CodegenFails, Written
  <2>4. CASE CloseOutput(r)
    BY <2>4 DEF CloseOutput
  <2>5. CASE Fork(r)
    BY <2>5 DEF Fork
  <2>6. CASE ForkFails(r)
    BY <2>6 DEF ForkFails, Written
  <2>7. CASE CloseIcode(r)
    BY <2>7 DEF CloseIcode, Written
  <2>8. CASE Wait(r)
    BY <2>8 DEF Wait
  <2>9. CASE Remove(r)
    BY <2>9 DEF Remove
  <2> QED
    BY <1>2, <2>1, <2>2, <2>3, <2>4, <2>5, <2>6, <2>7, <2>8, <2>9 DEF Parent
<1>3. ASSUME NEW r \in Runs, Child(r) PROVE Together'
  <2>1. CASE Exec(r)
    BY <2>1 DEF Exec
  <2>2. CASE ExecFails(r)
    BY <2>2 DEF ExecFails
  <2>3. CASE GccReads(r)
    BY <2>3 DEF GccReads
  <2>4. CASE GccWrites(r)
    BY <2>4 DEF GccWrites, Kind
  <2>5. CASE GccFails(r)
    BY <2>5 DEF GccFails, Kind
  <2>6. CASE SecondCompiler(r)
    BY <2>6 DEF SecondCompiler, Written
  <2>7. CASE SecondRemove(r)
    BY <2>7 DEF SecondRemove
  <2> QED
    BY <1>3, <2>1, <2>2, <2>3, <2>4, <2>5, <2>6, <2>7 DEF Child
<1>4. CASE UNCHANGED vars
  BY <1>4 DEF vars
<1> QED
  BY <1>1, <1>2, <1>3, <1>4 DEF Next, Shell, Terminated

(* Parent and child write what is in the buffer once each.                 *)
LEMMA StepIcode ==
    ASSUME Alive, [Next]_vars PROVE IcodeCounted'
<1> USE DriverAssumption
    DEF TypeOK, Runs, Kinds, Absent, Partial, Ended, files, Goto, ChildGoto, Return,
        Alive, InTurn, Together, IcodeCounted, ParentHolds, ChildWrote
<1>1. ASSUME NEW s \in Retain, NEW c \in BOOLEAN, NEW i \in BOOLEAN, Start(s, c, i)
      PROVE  IcodeCounted'
  BY <1>1 DEF Start
<1>2. ASSUME NEW r \in Runs, Parent(r) PROVE IcodeCounted'
  <2>1. CASE PassesReject(r)
    BY <2>1 DEF PassesReject
  <2>2. CASE OpenOutput(r)
    BY <2>2 DEF OpenOutput
  <2>3. CASE CodegenFails(r)
    BY <2>3 DEF CodegenFails, Written
  <2>4. CASE CloseOutput(r)
    BY <2>4 DEF CloseOutput
  <2>5. CASE Fork(r)
    BY <2>5 DEF Fork
  <2>6. CASE ForkFails(r)
    BY <2>6 DEF ForkFails, Written
  <2>7. CASE CloseIcode(r)
    BY <2>7 DEF CloseIcode, Written
  <2>8. CASE Wait(r)
    BY <2>8 DEF Wait
  <2>9. CASE Remove(r)
    BY <2>9 DEF Remove
  <2> QED
    BY <1>2, <2>1, <2>2, <2>3, <2>4, <2>5, <2>6, <2>7, <2>8, <2>9 DEF Parent
<1>3. ASSUME NEW r \in Runs, Child(r) PROVE IcodeCounted'
  <2>1. CASE Exec(r)
    BY <2>1 DEF Exec
  <2>2. CASE ExecFails(r)
    BY <2>2 DEF ExecFails
  <2>3. CASE GccReads(r)
    BY <2>3 DEF GccReads
  <2>4. CASE GccWrites(r)
    BY <2>4 DEF GccWrites, Kind
  <2>5. CASE GccFails(r)
    BY <2>5 DEF GccFails, Kind
  <2>6. CASE SecondCompiler(r)
    BY <2>6 DEF SecondCompiler, Written
  <2>7. CASE SecondRemove(r)
    BY <2>7 DEF SecondRemove
  <2> QED
    BY <1>3, <2>1, <2>2, <2>3, <2>4, <2>5, <2>6, <2>7 DEF Child
<1>4. CASE UNCHANGED vars
  BY <1>4 DEF vars
<1> QED
  BY <1>1, <1>2, <1>3, <1>4 DEF Next, Shell, Terminated

(* A parent that runs is the one of the latest invocation.                 *)
LEMMA ParentIsLatest ==
    ASSUME Alive, NEW r \in Runs, pc[r] \notin {"idle", "done"} PROVE run = r
BY DriverAssumption DEF Alive, TypeOK, InTurn, Runs

(* Without -s, a child that runs is its child.                             *)
LEMMA ChildIsLatest ==
    ASSUME Alive, NEW r \in Runs, child[r] \notin Ended \cup {"none"},
           NEW q \in Runs, run = q, NoneRetains(q)
    PROVE  r = q
<1>1. r <= run
  BY DriverAssumption DEF Alive, TypeOK, InTurn, Runs
<1>2. CASE r < run
  <2>1. pc[r] = "done"
    BY <1>2 DEF Alive, InTurn
  <2>2. flags[r].FINALCODE
    BY <2>1 DEF Alive, Together
  <2>3. r \in 1 .. q
    BY <1>1, DriverAssumption DEF Runs
  <2> QED
    BY <2>2, <2>3 DEF NoneRetains
<1> QED
  BY <1>1, <1>2, DriverAssumption DEF Runs, Alive, TypeOK

(* Nobody but the invocation in progress touches the C file.               *)
LEMMA StepOwnCFile ==
    ASSUME Alive, OwnCFile, [Next]_vars PROVE OwnCFile'
<1> USE DriverAssumption
    DEF TypeOK, Runs, Kinds, Absent, Partial, Ended, files, Goto, ChildGoto, Return,
        Alive, InTurn, Together, OwnCFile
<1>1. ASSUME NEW s \in Retain, NEW c \in BOOLEAN, NEW i \in BOOLEAN, Start(s, c, i)
      PROVE  OwnCFile'
  BY <1>1 DEF Start
<1>2. ASSUME NEW r \in Runs, Parent(r) PROVE OwnCFile'
  <2>1. CASE PassesReject(r)
    BY <2>1 DEF PassesReject
  <2>2. CASE OpenOutput(r)
    BY <2>2 DEF OpenOutput
  <2>3. CASE CodegenFails(r)
    BY <2>3 DEF CodegenFails, Written
  <2>4. CASE CloseOutput(r)
    BY <2>4 DEF CloseOutput
  <2>5. CASE Fork(r)
    BY <2>5 DEF Fork
  <2>6. CASE ForkFails(r)
    BY <2>6 DEF ForkFails, Written
  <2>7. CASE CloseIcode(r)
    BY <2>7 DEF CloseIcode, Written
  <2>8. CASE Wait(r)
    BY <2>8 DEF Wait
  <2>9. CASE Remove(r)
    BY <2>9, ParentIsLatest DEF Remove
  <2> QED
    BY <1>2, <2>1, <2>2, <2>3, <2>4, <2>5, <2>6, <2>7, <2>8, <2>9 DEF Parent
<1>3. ASSUME NEW r \in Runs, Child(r) PROVE OwnCFile'
  <2>1. CASE Exec(r)
    BY <2>1 DEF Exec
  <2>2. CASE ExecFails(r)
    BY <2>2 DEF ExecFails
  <2>3. CASE GccReads(r)
    BY <2>3 DEF GccReads
  <2>4. CASE GccWrites(r)
    BY <2>4 DEF GccWrites, Kind
  <2>5. CASE GccFails(r)
    BY <2>5 DEF GccFails, Kind
  <2>6. CASE SecondCompiler(r)
    BY <2>6 DEF SecondCompiler, Written
  <2>7. CASE SecondRemove(r)
    BY <2>7 DEF SecondRemove
  <2> QED
    BY <1>3, <2>1, <2>2, <2>3, <2>4, <2>5, <2>6, <2>7 DEF Child
<1>4. CASE UNCHANGED vars
  BY <1>4 DEF vars
<1> QED
  BY <1>1, <1>2, <1>3, <1>4 DEF Next, Shell, Terminated

(* Without -s there is no gcc but that of the invocation in progress.      *)
LEMMA StepOwnProduct ==
    ASSUME Alive, OwnCFile, OwnProduct, [Next]_vars PROVE OwnProduct'
<1> USE DriverAssumption
    DEF TypeOK, Runs, Kinds, Absent, Partial, Ended, files, Goto, ChildGoto, Return,
        Alive, InTurn, Together, OwnCFile, OwnProduct, NoneRetains
<1>1. ASSUME NEW s \in Retain, NEW c \in BOOLEAN, NEW i \in BOOLEAN, Start(s, c, i)
      PROVE  OwnProduct'
  BY <1>1 DEF Start
<1>2. ASSUME NEW r \in Runs, Parent(r) PROVE OwnProduct'
  <2>1. CASE PassesReject(r)
    BY <2>1 DEF PassesReject
  <2>2. CASE OpenOutput(r)
    BY <2>2 DEF OpenOutput
  <2>3. CASE CodegenFails(r)
    BY <2>3 DEF CodegenFails, Written
  <2>4. CASE CloseOutput(r)
    BY <2>4 DEF CloseOutput
  <2>5. CASE Fork(r)
    BY <2>5 DEF Fork
  <2>6. CASE ForkFails(r)
    BY <2>6 DEF ForkFails, Written
  <2>7. CASE CloseIcode(r)
    <3> SUFFICES ASSUME NEW q \in Runs, run = q, NoneRetains(q)
                 PROVE  /\ child'[q] = "write" => input'[q] = q
                        /\ child'[q] = "built" => product'[Kind(q)'] = q
      BY <2>7 DEF CloseIcode
    <3> QED
      BY <2>7 DEF CloseIcode, Kind
  <2>8. CASE Wait(r)
    <3> SUFFICES ASSUME NEW q \in Runs, run = q, NoneRetains(q)
                 PROVE  /\ child'[q] = "write" => input'[q] = q
                        /\ child'[q] = "built" => product'[Kind(q)'] = q
      BY <2>8 DEF Wait
    <3> QED
      BY <2>8 DEF Wait, Kind
  <2>9. CASE Remove(r)
    <3> SUFFICES ASSUME NEW q \in Runs, run = q, NoneRetains(q)
                 PROVE  /\ child'[q] = "write" => input'[q] = q
                        /\ child'[q] = "built" => product'[Kind(q)'] = q
      BY <2>9 DEF Remove
    <3> QED
      BY <2>9 DEF Remove, Kind
  <2> QED
    BY <1>2, <2>1, <2>2, <2>3, <2>4, <2>5, <2>6, <2>7, <2>8, <2>9 DEF Parent
<1>3. ASSUME NEW r \in Runs, Child(r) PROVE OwnProduct'
  <2>1. CASE Exec(r)
    BY <2>1 DEF Exec
  <2>2. CASE ExecFails(r)
    BY <2>2 DEF ExecFails
  <2>3. CASE GccReads(r)
    <3> SUFFICES ASSUME NEW q \in Runs, run = q, NoneRetains(q)
                 PROVE  /\ child'[q] = "write" => input'[q] = q
                        /\ child'[q] = "built" => product'[Kind(q)'] = q
      BY <2>3 DEF GccReads
    <3>1. r = q
      BY <2>3, ChildIsLatest DEF GccReads
    <3> QED
      BY <2>3, <3>1 DEF GccReads, Kind
  <2>4. CASE GccWrites(r)
    <3> SUFFICES ASSUME NEW q \in Runs, run = q, NoneRetains(q)
                 PROVE  /\ child'[q] = "write" => input'[q] = q
                        /\ child'[q] = "built" => product'[Kind(q)'] = q
      BY <2>4 DEF GccWrites
    <3>1. r = q
      BY <2>4, ChildIsLatest DEF GccWrites
    <3> QED
      BY <2>4, <3>1 DEF GccWrites, Kind
  <2>5. CASE GccFails(r)
    <3> SUFFICES ASSUME NEW q \in Runs, run = q, NoneRetains(q)
                 PROVE  /\ child'[q] = "write" => input'[q] = q
                        /\ child'[q] = "built" => product'[Kind(q)'] = q
      BY <2>5 DEF GccFails
    <3>1. r = q
      BY <2>5, ChildIsLatest DEF GccFails
    <3> QED
      BY <2>5, <3>1 DEF GccFails, Kind
  <2>6. CASE SecondCompiler(r)
    <3> SUFFICES ASSUME NEW q \in Runs, run = q, NoneRetains(q)
                 PROVE  /\ child'[q] = "write" => input'[q] = q
                        /\ child'[q] = "built" => product'[Kind(q)'] = q
      BY <2>6 DEF SecondCompiler
    <3>1. r = q
      BY <2>6, ChildIsLatest DEF SecondCompiler
    <3> QED
      BY <2>6, <3>1 DEF SecondCompiler, Kind
  <2>7. CASE SecondRemove(r)
    <3> SUFFICES ASSUME NEW q \in Runs, run = q, NoneRetains(q)
                 PROVE  /\ child'[q] = "write" => input'[q] = q
                        /\ child'[q] = "built" => product'[Kind(q)'] = q
      BY <2>7 DEF SecondRemove
    <3>1. r = q
      BY <2>7, ChildIsLatest DEF SecondRemove
    <3> QED
      BY <2>7, <3>1 DEF SecondRemove, Kind
  <2> QED
    BY <1>3, <2>1, <2>2, <2>3, <2>4, <2>5, <2>6, <2>7 DEF Child
<1>4. CASE UNCHANGED vars
  BY <1>4 DEF vars, Kind
<1> QED
  BY <1>1, <1>2, <1>3, <1>4 DEF Next, Shell, Terminated

-----------------------------------------------------------------------------
LEMMA Invariance == Spec => []IInv
<1>1. Init => IInv
  BY InitIInv
<1>2. IInv /\ [Next]_vars => IInv'
  BY StepTypes, StepInTurn, StepTogether, StepIcode, StepOwnCFile, StepOwnProduct
  DEF IInv, Alive
<1> QED
  BY <1>1, <1>2, PTL DEF Spec

(* The state stays within its types for any number of invocations; in      *)
(* particular the intermediate code is written at most twice (main.c 114). *)
THEOREM TypeCorrect == Spec => []TypeOK
BY Invariance, PTL DEF IInv, Alive

(* gcc finds the C file complete and its own (main.c 85-117): whatever     *)
(* flags the invocations have and whatever fails in them.                  *)
THEOREM GccFindsItsInput == Spec => []GccKeepsItsInput
<1>1. IInv => GccKeepsItsInput
  BY DEF IInv, OwnCFile, GccKeepsItsInput
<1> QED
  BY <1>1, Invariance, PTL

(* An invocation without -s that returns 0 leaves no C file, one with -s   *)
(* its own, complete (main.c 117).                                         *)
THEOREM ReturnCleansUp == Spec => []CFileOnReturn
<1>1. IInv => CFileOnReturn
  BY DEF IInv, OwnCFile, CFileOnReturn
<1> QED
  BY <1>1, Invariance, PTL

(* Where no invocation had -s, a return with 0 behind a content gcc means  *)
(* that the product is there and of this source (main.c 115-127).          *)
THEOREM ReturnMeansBuilt == Spec => []BuiltOnReturn
<1>1. IInv => BuiltOnReturn
  BY DEF IInv, OwnProduct, NoneRetains, BuiltOnReturn
<1> QED
  BY <1>1, Invariance, PTL

-----------------------------------------------------------------------------
(* Without -s nothing is left behind by a return, and gcc writes only for  *)
(* the invocation in progress.                                             *)
(* Every step of Driver is a step of Build or leaves Build's state alone.  *)
LEMMA StepSimulated ==
    ASSUME IInv, [Next]_vars, NoneRetains(run)'
    PROVE  [Builds!Next]_(Builds!vars)
<1> USE DriverAssumption
    DEF IInv, Alive, TypeOK, Runs, Kinds, Absent, Partial, Ended, files, Goto, ChildGoto,
        Return, Builds!Next, Builds!vars
<1>1. ASSUME NEW s \in Retain, NEW c \in BOOLEAN, NEW i \in BOOLEAN, Start(s, c, i)
      PROVE  Builds!Begin
  BY <1>1 DEF Start, Builds!Begin
<1>2. ASSUME NEW r \in Runs, Parent(r) PROVE [Builds!Next]_(Builds!vars)
  <2>1. run = r
    <3>1. pc[r] \notin {"idle", "done"}
      BY <1>2 DEF Parent, PassesReject, OpenOutput, CodegenFails, CloseOutput, Fork, ForkFails,
               CloseIcode, Wait, Remove
    <3> QED
      BY <3>1, ParentIsLatest
  <2> USE <2>1
  <2>2. CASE PassesReject(r)
    BY <2>2 DEF PassesReject, Builds!Fail
  <2>3. CASE OpenOutput(r)
    BY <2>3 DEF OpenOutput, Builds!WriteC
  <2>4. CASE CodegenFails(r)
    BY <2>4 DEF CodegenFails, Written, Builds!Fail
  <2>5. CASE CloseOutput(r)
    BY <2>5 DEF CloseOutput, Builds!WriteC
  <2>6. CASE Fork(r)
    BY <2>6 DEF Fork
  <2>7. CASE ForkFails(r)
    BY <2>7 DEF ForkFails, Written, Builds!Fail
  <2>8. CASE CloseIcode(r)
    BY <2>8 DEF CloseIcode, Written, NoneRetains
  <2>9. CASE Wait(r)
    BY <2>9 DEF Wait
  <2>10. CASE Remove(r)
    BY <2>10 DEF Remove, Builds!Succeed
  <2> QED
    BY <1>2, <2>2, <2>3, <2>4, <2>5, <2>6, <2>7, <2>8, <2>9, <2>10 DEF Parent
<1>3. ASSUME NEW r \in Runs, Child(r) PROVE [Builds!Next]_(Builds!vars)
  <2>1. run = r /\ pc[r] # "done"
    <3>1. child[r] \notin Ended \cup {"none"}
      BY <1>3 DEF Child, Exec, ExecFails, GccReads, GccWrites, GccFails, SecondCompiler,
               SecondRemove
    <3>2. pc[r] # "done"
      <4>1. UNCHANGED <<run, flags>>
        BY <1>3 DEF Child, Exec, ExecFails, GccReads, GccWrites, GccFails, SecondCompiler,
                 SecondRemove
      <4>2. run \in Runs /\ NoneRetains(run)
        BY <3>1, <4>1 DEF InTurn, NoneRetains
      <4>3. r = run
        BY <3>1, <4>2, ChildIsLatest
      <4>4. ~ flags[r].FINALCODE
        BY <4>2, <4>3 DEF NoneRetains
      <4> QED
        BY <3>1, <4>4 DEF Together
    <3>3. pc[r] # "idle"
      BY <3>1 DEF Together
    <3> QED
      BY <3>2, <3>3, ParentIsLatest
  <2> USE <2>1
  <2>2. CASE Exec(r)
    BY <2>2 DEF Exec
  <2>3. CASE ExecFails(r)
    BY <2>3 DEF ExecFails
  <2>4. CASE GccReads(r)
    BY <2>4 DEF GccReads
  <2>5. CASE GccWrites(r)
    <3>1. input[r] = run
      BY <2>5 DEF GccWrites, OwnProduct, NoneRetains
    <3>2. Kind(r) \in {"exe", "obj"}
      BY DEF Kind
    <3>3. Builds!Make(Kind(r))
      BY <2>5, <3>1 DEF GccWrites, Builds!Make
    <3> QED
      BY <3>2, <3>3
  <2>6. CASE GccFails(r)
    BY <2>6 DEF GccFails, Kind, Builds!Make
  <2>7. CASE SecondCompiler(r)
    BY <2>7 DEF SecondCompiler, Written
  <2>8. CASE SecondRemove(r)
    BY <2>8 DEF SecondRemove, Builds!RemoveC
  <2> QED
    BY <1>3, <2>2, <2>3, <2>4, <2>5, <2>6, <2>7, <2>8 DEF Child
<1>4. CASE UNCHANGED vars
  BY <1>4 DEF vars
<1> QED
  BY <1>1, <1>2, <1>3, <1>4 DEF Next, Shell, Terminated

(* For any number of invocations, each step is one of Build or leaves its  *)
(* state alone as long as none had -s.                                     *)
THEOREM DriverImplementsBuild == Spec => ImplementsBuild
<1>1. Init => Builds!Init
  <2> SUFFICES ASSUME Init PROVE Builds!Init
    OBVIOUS
  <2>1. ~ (run > 0 /\ pc[run] # "done")
    BY DEF Init
  <2>2. ~ (cfile # Absent)
    BY DEF Init
  <2> QED
    BY <2>1, <2>2 DEF Builds!Init, Init
<1>2. IInv /\ [Next]_vars => [NoneRetains(run)' => [Builds!Next]_(Builds!vars)]_vars
  BY StepSimulated
<1> QED
  BY <1>1, <1>2, Invariance, PTL DEF Spec, ImplementsBuild
=============================================================================
