------------------------------- MODULE Driver -------------------------------
(***************************************************************************)
(* main() of main.c: the compiler, the gcc it forks, and the files both    *)
(* use.  A shell invokes it N times on the same source file, one after the *)
(* other; each invocation is a parent process and at most one child.  The  *)
(* source is edited in between, so that a file's contents are told apart   *)
(* by the invocation they come from.                                       *)
(***************************************************************************)
EXTENDS Integers

CONSTANTS
    N,        \* invocations
    Retain,   \* values the flag -s takes
    Failures  \* what may go wrong

ASSUME DriverAssumption ==
    /\ N \in Nat
    /\ Retain \subseteq BOOLEAN
    /\ Failures \subseteq {"passes", "codegen", "fork", "exec", "gcc"}

VARIABLES
    run,      \* invocations begun
    flags,    \* FINALCODE, OBJFILE and INTERCODE of each
    pc,       \* the parent of each
    child,    \* the child of each
    code,     \* exit code of each parent, -1 before it exits
    cfile,    \* what the file tacout holds
    input,    \* what the gcc of each invocation has read
    product,  \* who made the executable, and the object file; 0: no such file
    ic        \* how often the intermediate code of each is in its .ic file

files == <<cfile, input, product, ic>>
vars == <<run, flags, pc, child, code, files>>

Runs == 1 .. N
Absent == 0
Partial == -1
Kinds == {"exe", "obj"}

Kind(r) == IF flags[r].OBJFILE THEN "obj" ELSE "exe"

Goto(r, where) == pc' = [pc EXCEPT ![r] = where]
ChildGoto(r, where) == child' = [child EXCEPT ![r] = where]

Return(r, status) == /\ Goto(r, "done")
                     /\ code' = [code EXCEPT ![r] = status]

-----------------------------------------------------------------------------
NoFlags == [FINALCODE |-> FALSE, OBJFILE |-> FALSE, INTERCODE |-> FALSE]

Init ==
    /\ run = 0
    /\ flags = [r \in Runs |-> NoFlags]
    /\ pc = [r \in Runs |-> "idle"]
    /\ child = [r \in Runs |-> "none"]
    /\ code = [r \in Runs |-> -1]
    /\ cfile = Absent
    /\ input = [r \in Runs |-> Absent]
    /\ product = [k \in Kinds |-> 0]
    /\ ic = [r \in Runs |-> 0]

(* The shell starts an invocation when the one before has returned; it     *)
(* knows nothing of gcc.                                                   *)
Start(s, c, i) ==
    /\ run < N
    /\ run > 0 => pc[run] = "done"
    /\ run' = run + 1
    /\ flags' = [flags EXCEPT ![run + 1] =
                    [FINALCODE |-> s, OBJFILE |-> c, INTERCODE |-> i]]
    /\ Goto(run + 1, "passes")
    /\ UNCHANGED <<child, code, files>>

(* The passes up to the intermediate code; they exit with 1 to 4.          *)
PassesReject(r) ==
    /\ "passes" \in Failures
    /\ pc[r] = "passes"
    /\ \E status \in 1 .. 4 : Return(r, status)
    /\ UNCHANGED <<run, flags, child, files>>

(* codegen() opens the C file, which truncates it ...                      *)
OpenOutput(r) ==
    /\ pc[r] = "passes"
    /\ cfile' = Partial
    /\ Goto(r, "codegen")
    /\ UNCHANGED <<run, flags, child, code, input, product, ic>>

(* The intermediate code is written when icoutput is closed or flushed.    *)
Written(r) == IF flags[r].INTERCODE THEN [ic EXCEPT ![r] = @ + 1] ELSE ic

(* ... may run out of memory: exit(4) in ckalloc, which flushes icoutput   *)
(* and what there is of the C file ...                                     *)
CodegenFails(r) ==
    /\ "codegen" \in Failures
    /\ pc[r] = "codegen"
    /\ Return(r, 4)
    /\ ic' = Written(r)
    /\ UNCHANGED <<run, flags, child, cfile, input, product>>

(* ... and closes it, complete.                                            *)
CloseOutput(r) ==
    /\ pc[r] = "codegen"
    /\ cfile' = r
    /\ Goto(r, "fork")
    /\ UNCHANGED <<run, flags, child, code, input, product, ic>>

Fork(r) ==
    /\ pc[r] = "fork"
    /\ Goto(r, "close")
    /\ ChildGoto(r, "exec")
    /\ UNCHANGED <<run, flags, code, files>>

(* fork returns -1: exit(4), which flushes icoutput and removes nothing.   *)
ForkFails(r) ==
    /\ "fork" \in Failures
    /\ pc[r] = "fork"
    /\ Return(r, 4)
    /\ ic' = Written(r)
    /\ UNCHANGED <<run, flags, child, cfile, input, product>>

(* fclose(icoutput); with -s that is all.                                  *)
CloseIcode(r) ==
    /\ pc[r] = "close"
    /\ ic' = Written(r)
    /\ IF flags[r].FINALCODE THEN Return(r, 0)
       ELSE Goto(r, "wait") /\ UNCHANGED code
    /\ UNCHANGED <<run, flags, child, cfile, input, product>>

Ended == {"built", "failed", "returned"}

(* Mutant of main.c 116: the child is not waited for.                      *)
WaitNot(r) ==
    /\ pc[r] = "wait"
    /\ Goto(r, "remove")
    /\ UNCHANGED <<run, flags, child, code, files>>

(* wait(NULL): the child's status is not looked at.                        *)
Wait(r) ==
    /\ pc[r] = "wait"
    /\ child[r] \in Ended
    /\ Goto(r, "remove")
    /\ UNCHANGED <<run, flags, child, code, files>>

(* Mutant of main.c 117: the C file is kept when gcc did not like it.      *)
RemoveIfBuilt(r) ==
    /\ pc[r] = "remove"
    /\ cfile' = IF child[r] = "built" THEN Absent ELSE cfile
    /\ Return(r, 0)
    /\ UNCHANGED <<run, flags, child, input, product, ic>>

(* remove(tacout), which may be gone already; return 0.                    *)
Remove(r) ==
    /\ pc[r] = "remove"
    /\ cfile' = Absent
    /\ Return(r, 0)
    /\ UNCHANGED <<run, flags, child, input, product, ic>>

-----------------------------------------------------------------------------
(* The child.  execv replaces it by gcc, or returns.                       *)
Exec(r) ==
    /\ child[r] = "exec"
    /\ ChildGoto(r, "read")
    /\ UNCHANGED <<run, flags, pc, code, files>>

ExecFails(r) ==
    /\ "exec" \in Failures
    /\ child[r] = "exec"
    /\ ChildGoto(r, "second")
    /\ UNCHANGED <<run, flags, pc, code, files>>

(* gcc reads the C file as it finds it, ...                                *)
GccReads(r) ==
    /\ child[r] = "read"
    /\ input' = [input EXCEPT ![r] = cfile]
    /\ ChildGoto(r, "write")
    /\ UNCHANGED <<run, flags, pc, code, cfile, product, ic>>

(* ... makes a file of it (of half a program only an object file) ...      *)
GccWrites(r) ==
    /\ child[r] = "write"
    /\ input[r] # Absent
    /\ input[r] = Partial => flags[r].OBJFILE
    /\ product' = [product EXCEPT ![Kind(r)] = input[r]]
    /\ ChildGoto(r, "built")
    /\ UNCHANGED <<run, flags, pc, code, cfile, input, ic>>

(* ... or fails, and may remove what there was.                            *)
GccFails(r) ==
    /\ "gcc" \in Failures \/ input[r] \in {Absent, Partial}
    /\ child[r] = "write"
    /\ \/ UNCHANGED product
       \/ product' = [product EXCEPT ![Kind(r)] = 0]
    /\ ChildGoto(r, "failed")
    /\ UNCHANGED <<run, flags, pc, code, cfile, input, ic>>

(* Mutant of main.c 106: a child whose execv returned tries again.         *)
SecondCompilerRetries(r) ==
    /\ child[r] = "second"
    /\ ic' = Written(r)
    /\ ChildGoto(r, "exec")
    /\ UNCHANGED <<run, flags, pc, code, cfile, input, product>>

(* Mutant of main.c 107: execv in a loop.                                  *)
SecondCompilerLoops(r) ==
    /\ child[r] = "second"
    /\ ChildGoto(r, "exec")
    /\ UNCHANGED <<run, flags, pc, code, files>>

(* A child whose execv returned goes on behind the if: it closes its copy  *)
(* of icoutput, with what the parent had not written yet; wait(NULL) fails *)
(* at once for want of children.                                           *)
SecondCompiler(r) ==
    /\ child[r] = "second"
    /\ ic' = Written(r)
    /\ ChildGoto(r, IF flags[r].FINALCODE THEN "returned" ELSE "remove")
    /\ UNCHANGED <<run, flags, pc, code, cfile, input, product>>

SecondRemove(r) ==
    /\ child[r] = "remove"
    /\ cfile' = Absent
    /\ ChildGoto(r, "returned")
    /\ UNCHANGED <<run, flags, pc, code, input, product, ic>>

-----------------------------------------------------------------------------
Shell == \E s \in Retain, c \in BOOLEAN, i \in BOOLEAN : Start(s, c, i)

Parent(r) ==
    \/ PassesReject(r)
    \/ OpenOutput(r)
    \/ CodegenFails(r)
    \/ CloseOutput(r)
    \/ Fork(r)
    \/ ForkFails(r)
    \/ CloseIcode(r)
    \/ Wait(r)
    \/ Remove(r)

Child(r) ==
    \/ Exec(r)
    \/ ExecFails(r)
    \/ GccReads(r)
    \/ GccWrites(r)
    \/ GccFails(r)
    \/ SecondCompiler(r)
    \/ SecondRemove(r)

Terminated == /\ run = N
              /\ \A r \in Runs : pc[r] = "done" /\ child[r] \in Ended \cup {"none"}
              /\ UNCHANGED vars

Next ==
    \/ Shell
    \/ \E r \in Runs : Parent(r) \/ Child(r)
    \/ Terminated

(* Both processes keep running; nobody has to invoke the compiler.         *)
Spec == /\ Init
        /\ [][Next]_vars
        /\ \A r \in Runs : WF_vars(Parent(r)) /\ WF_vars(Child(r))

-----------------------------------------------------------------------------
TypeOK ==
    /\ run \in 0 .. N
    /\ flags \in [Runs -> [FINALCODE : BOOLEAN, OBJFILE : BOOLEAN, INTERCODE : BOOLEAN]]
    /\ pc \in [Runs -> {"idle", "passes", "codegen", "fork", "close", "wait", "remove",
                        "done"}]
    /\ child \in [Runs -> {"none", "exec", "read", "write", "second", "remove"} \cup Ended]
    /\ code \in [Runs -> -1 .. 4]
    /\ cfile \in {Absent, Partial} \cup Runs
    /\ input \in [Runs -> {Absent, Partial} \cup Runs]
    /\ product \in [Kinds -> {0, Partial} \cup Runs]
    /\ ic \in [Runs -> 0 .. 2]

(* main.c 85-107, 116-117: while the gcc of the latest invocation has not  *)
(* read the C file, the file is there, complete, and its own: not removed  *)
(* by the parent, nor by a second compiler that an earlier execv left.     *)
GccKeepsItsInput ==
    \A r \in Runs : run = r /\ child[r] \in {"exec", "read"} => cfile = r

(* No invocation up to r left its gcc behind.                              *)
NoneRetains(r) == \A q \in 1 .. r : ~ flags[q].FINALCODE

(* main.c 115-127: when an invocation without -s returns 0 and gcc was     *)
(* content, the file it was to make is there and made from its own source: *)
(* the gcc of no earlier invocation has written over it, if none had -s.   *)
BuiltOnReturn ==
    \A r \in Runs :
        (/\ run = r
         /\ code[r] = 0
         /\ child[r] = "built"
         /\ NoneRetains(r))
        => product[Kind(r)] = r

(* main.c 117: an invocation without -s that returns 0 leaves no C file,   *)
(* whatever became of its child; with -s it leaves a complete one.         *)
CFileOnReturn ==
    \A r \in Runs : run = r /\ code[r] = 0 =>
        cfile = IF flags[r].FINALCODE THEN r ELSE Absent

(* The compiler returns: the wait for gcc, or for a second compiler whose  *)
(* own wait has nobody to wait for, ends (main.c 116).                     *)
CompilerReturns == \A r \in Runs : pc[r] = "passes" ~> pc[r] = "done"

(* As long as no invocation had -s they implement Build: gcc's work falls  *)
(* between the start and the return of the invocation it is done for       *)
(* (main.c 84-127).                                                        *)
Builds == INSTANCE Build WITH
    turn <- run,
    busy <- run > 0 /\ pc[run] # "done",
    litter <- cfile # Absent

ImplementsBuild ==
    /\ Builds!Init
    /\ [][NoneRetains(run)' => [Builds!Next]_(Builds!vars)]_vars
=============================================================================
