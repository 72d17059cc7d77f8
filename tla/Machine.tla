------------------------------ MODULE Machine ------------------------------
(***************************************************************************)
(* finalcode.c: what the C program that codegen() prints does, one step    *)
(* per three-address instruction.                                          *)
(*                                                                         *)
(* Every procedure becomes a C function with the arrays `local` and        *)
(* `locparams` and the counter paroff; a call hands over locparams.  An    *)
(* array element nobody has assigned yet is Junk: reading it is undefined  *)
(* behaviour, and the model stops there (see Defined in Compiler).  A      *)
(* pointer is the address it points to: a float variable points into       *)
(* rfloat, or at the slot of the expression that computed it.              *)
(*                                                                         *)
(* The code is any: what intermediate_code() makes of a program is for     *)
(* Compiler to say, and LaidOut and GccAccepts are what is needed of it.   *)
(***************************************************************************)
EXTENDS Tac, FiniteSets

CONSTANTS
    Programs,  \* the programs compiled, each [globals, functions], by any key
    Junk,
    IntLimit   \* 2^31; the least value that is no int

ASSUME MachineAssumption ==
    /\ IntLimit \in Nat \ {0} /\ Junk \notin Int
    /\ \A p \in DOMAIN Programs :
          /\ IsFiniteSet(DOMAIN Programs[p].functions)
          /\ \A f \in DOMAIN Programs[p].functions : Len(Programs[p].functions[f].params) \in Nat

VARIABLES
    program,  \* the one that runs
    code,     \* the instructions of each of its functions
    stack,    \* the active C functions, innermost last
    global,   \* the global region
    out,      \* what println printed: the string's offset and the value
    status    \* "running", or how the run ended

vars == <<program, code, stack, global, out, status>>
const == <<program, code>>

Functions == Programs[program].functions

Arity(f) == IF f \in DOMAIN Functions THEN Len(Functions[f].params) ELSE 0

(* max_argc: the slots of locparams; of the built-ins, format has most, 3. *)
Arities == {3} \cup {Len(Functions[f].params) : f \in DOMAIN Functions}
MaxArgc == CHOOSE n \in Arities : \A k \in Arities : k <= n

JunkSlotsButLast(n) == [slot \in 0 .. n - 2 |-> Junk]  \* mutant: off by one
JunkSlots(n) == [slot \in 0 .. n - 1 |-> Junk]

(* A function entered with the parameter block par of its caller, whose    *)
(* result goes to the caller's address dest.                               *)
Enter(f, par, dest) ==
    [name |-> f, pc |-> 1, local |-> JunkSlots(0), locparams |-> JunkSlots(0),
     paroff |-> 0, par |-> par, dest |-> dest]

Top == stack[Len(stack)]
Callers == SubSeq(stack, 1, Len(stack) - 1)
Current == code[Top.name][Top.pc]
Running(op) == status = "running" /\ Current.op = op

(* __fec_init_glb__ runs before main: see the int main() of codegen().     *)
Loaded ==
    /\ program \in DOMAIN Programs
    /\ stack = <<Enter("main", JunkSlots(0), NoAddress),
                 Enter(InitGlobals, JunkSlots(0), NoAddress)>>
    /\ global = JunkSlots(GlobalSize(Programs[program].globals))
    /\ out = <<>>
    /\ status = "running"

-----------------------------------------------------------------------------
(* atos: the slot an address names in a frame, what it holds, and the      *)
(* value of the operand printed for it.                                    *)
SlotIn(frame, a) ==
    a.offset + (IF a.index = <<>> THEN 0
                ELSE IF a.index[1].region = "local" THEN frame.local[a.index[1].offset]
                ELSE global[a.index[1].offset])
Held(a) == IF a.region = "local" THEN Top.local[SlotIn(Top, a)] ELSE global[SlotIn(Top, a)]
Read(a) == IF a.region \in {"const", "string"} THEN a.offset
           ELSE IF a.type = "F64_LIT_NP" THEN Address(a.region, a.offset, "F64_LIT_NP")
           ELSE Held(a)

(* atos_addr: the pointer O_ADDR assigns.                                  *)
Pointer(a) == IF a.region = "string" THEN a.offset
              ELSE IF a.type = "F64[]" THEN Held(a)
              ELSE a

(* The float behind the `*` that the float instructions put in front.      *)
Float(pointer) == IF pointer.region = "float" THEN pointer.offset ELSE Held(pointer)

Stored(frame, a, v) ==
    IF a.region = "local" THEN [frame EXCEPT !.local[SlotIn(frame, a)] = v] ELSE frame

StoreGlobal(a, v) ==
    global' = IF a.region = "global" THEN [global EXCEPT ![SlotIn(Top, a)] = v] ELSE global

FloatComputations == {"O_FADD", "O_FSUB", "O_FMUL"}

Operands(i) ==
    CASE i.op = "O_ASN" -> {i.src1}
      [] i.op \in {"O_BIF", "O_PARM", "O_RET"} -> {i.dest}
      [] i.op \in {"O_ADDR", "DEREF", "D_LABEL", "O_GOTO", "O_CALL", "D_PROC", "D_END",
                   "D_GLOB", "NOP"} -> {}
      [] OTHER -> {i.src1, i.src2}

Written(i) ==
    IF i.op \in {"O_BIF", "O_PARM", "O_RET", "D_PROC", "D_GLOB"} THEN {} ELSE {i.dest}
Addresses(i) == Operands(i) \cup Written(i)

Indices(a) == {a.index[n] : n \in DOMAIN a.index}
InArray(a) ==
    /\ a.region = "local" => SlotIn(Top, a) \in DOMAIN Top.local
    /\ a.region = "global" => SlotIn(Top, a) \in DOMAIN global
IndexOutside ==
    \E a \in Addresses(Current) :
       \/ \E i \in Indices(a) : Read(i) = Junk
       \/ a.index # <<>> /\ ~ InArray(a)
ReadsJunk ==
    \E a \in Operands(Current) :
       \/ Read(a) = Junk
       \/ Current.op \in FloatComputations /\ Float(Read(a)) = Junk

(* Undefined behaviour: reading such an element, an index that is one or   *)
(* that is outside the array, or writing a parameter behind locparams.     *)
Undefined == status = "running" /\
    (IndexOutside \/ ReadsJunk \/ (Current.op = "O_PARM" /\ Top.paroff >= MaxArgc))

Step(op) == Running(op) /\ ~ Undefined
Advanced == [Top EXCEPT !.pc = @ + 1]
Go(frame) == stack' = Append(Callers, frame)

(* C's division and remainder, which truncate.                             *)
Abs(n) == IF n < 0 THEN -n ELSE n
Quotient(y, z) == IF (y < 0) = (z < 0) THEN Abs(y) \div Abs(z) ELSE -(Abs(y) \div Abs(z))
Bool(b) == IF b THEN 1 ELSE 0

Computed(op, y, z) ==
    CASE op = "O_ADD" -> y + z
      [] op = "O_SUB" -> y - z
      [] op = "O_MUL" -> y * z
      [] op = "O_DIV" -> Quotient(y, z)
      [] op = "O_MOD" -> y - z * Quotient(y, z)
      [] op = "O_BLT" -> Bool(y < z)
      [] op = "O_BLE" -> Bool(y <= z)
      [] op = "O_BGT" -> Bool(y > z)
      [] op = "O_BGE" -> Bool(y >= z)
      [] op = "O_BEQ" -> Bool(y = z)
      [] op = "O_BNE" -> Bool(y # z)

ComputedFloat(op, y, z) ==
    CASE op = "O_FADD" -> y + z [] op = "O_FSUB" -> y - z [] op = "O_FMUL" -> y * z

Divisions == {"O_DIV", "O_MOD"}
Computations == Divisions \cup {"O_ADD", "O_SUB", "O_MUL", "O_BLT", "O_BLE",
                                "O_BGT", "O_BGE", "O_BEQ", "O_BNE"}

-----------------------------------------------------------------------------
(* codegen_recur, one action per kind of instruction.                      *)
Compute ==
    \E op \in Computations :
       /\ Step(op)
       /\ op \in Divisions => Read(Current.src2) # 0
       /\ Go(Stored(Advanced, Current.dest,
                    Computed(op, Read(Current.src1), Read(Current.src2))))
       /\ UNCHANGED <<const, global, out, status>>

DivideByZero ==
    /\ \E op \in Divisions : Step(op) /\ Read(Current.src2) = 0
    /\ status' = "trap"
    /\ UNCHANGED <<const, stack, global, out>>

ComputeFloat ==
    \E op \in FloatComputations :
       /\ Step(op)
       /\ Go(Stored(Advanced, Current.dest,
                    ComputedFloat(op, Float(Read(Current.src1)), Float(Read(Current.src2)))))
       /\ UNCHANGED <<const, global, out, status>>

Assign_(v) ==
    /\ Go(Stored(Advanced, Current.dest, v))
    /\ StoreGlobal(Current.dest, v)
    /\ UNCHANGED <<const, out, status>>
Assignment == Step("O_ASN") /\ Assign_(Read(Current.src1))
PointTo == Step("O_ADDR") /\ Assign_(Pointer(Current.src1))

(* D_LABEL, NOP, DEREF and D_GLOB only mark places.                        *)
Pass ==
    /\ Step("D_LABEL") \/ Step("NOP") \/ Step("DEREF") \/ Step("D_GLOB")
    /\ Go(Advanced)
    /\ UNCHANGED <<const, global, out, status>>

Targets(f, l) == {n \in DOMAIN code[f] : code[f][n].op = "D_LABEL" /\ code[f][n].label = l}

Jump ==
    /\ \/ Step("O_GOTO")
       \/ Step("O_BIF") /\ Read(Current.dest) # 0
    /\ \E n \in Targets(Top.name, Current.label) : Go([Top EXCEPT !.pc = n])
    /\ UNCHANGED <<const, global, out, status>>

NoJump ==
    /\ Step("O_BIF") /\ Read(Current.dest) = 0
    /\ Go(Advanced)
    /\ UNCHANGED <<const, global, out, status>>

(* The parameter is written where the run-time counter paroff points.      *)
Parameter ==
    /\ Step("O_PARM")
    /\ Go([Advanced EXCEPT !.locparams[Top.paroff] = Read(Current.dest),
                           !.paroff = @ + 1])
    /\ UNCHANGED <<const, global, out, status>>

(* paroff = 0 behind every call.                                           *)
AfterCallPending == Advanced  \* mutant: the counter stays
AfterCall == [Advanced EXCEPT !.paroff = 0]

(* println dereferences what the last parameter's type makes a float.      *)
LastParm == code[Top.name][Top.pc - 1].dest
Shown(v) == IF LastParm.type = "F64" THEN Float(v) ELSE v
Println ==
    /\ Step("O_CALL") /\ Current.name = "println"
    /\ out' = Append(out, <<Top.locparams[0], Shown(Top.locparams[1])>>)
    /\ Go(AfterCall)
    /\ UNCHANGED <<const, global, status>>

CallFunction ==
    /\ Step("O_CALL") /\ Current.name # "println"
    /\ stack' = Callers \o <<AfterCall, Enter(Current.name, Top.locparams, Current.dest)>>
    /\ UNCHANGED <<const, global, out, status>>

(* D_PROC: the arrays of the function, and its parameters copied.          *)
CopiedButLast(slot) == slot + 1 < Arity(Top.name)  \* mutant: off by one
Copied(slot) == slot < Arity(Top.name)
EnterProcedure ==
    /\ Step("D_PROC")
    /\ Go([Advanced EXCEPT
              !.locparams = JunkSlots(MaxArgc),
              !.local = [slot \in 0 .. Current.src1.offset - 1 |->
                            IF Copied(slot) THEN Top.par[slot] ELSE Junk]])
    /\ UNCHANGED <<const, global, out, status>>

(* The C functions return int, whatever the program says.                  *)
AsInt(v) == IF v = Junk THEN Junk ELSE ((v + IntLimit) % (2 * IntLimit)) - IntLimit

Leave(v) ==
    IF Len(stack) = 1
    THEN /\ stack' = <<>>
         /\ status' = "done"
    ELSE LET caller == stack[Len(stack) - 1]
         IN  /\ stack' = Append(SubSeq(stack, 1, Len(stack) - 2), Stored(caller, Top.dest, v))
             /\ UNCHANGED status

Return ==
    /\ Step("O_RET")
    /\ Leave(AsInt(Read(Current.dest)))
    /\ UNCHANGED <<const, global, out>>

(* The end of a function is reached: its value is undefined.               *)
FallOff ==
    /\ Step("D_END")
    /\ Leave(Junk)
    /\ UNCHANGED <<const, global, out>>

Halted == status # "running" /\ UNCHANGED vars

Work == \/ Compute \/ ComputeFloat \/ DivideByZero \/ Assignment \/ PointTo \/ Pass
        \/ Jump \/ NoJump \/ Parameter \/ Println \/ CallFunction
        \/ EnterProcedure \/ Return \/ FallOff

Next == Work \/ Halted

-----------------------------------------------------------------------------
(* The code the machine is given.                                          *)

(* gcc accepts the C program: within each function every jump has exactly  *)
(* one target, no label is placed twice, every instruction lies between    *)
(* the head and the end of the function, no operand is missing, and no     *)
(* argument is the float itself, which atot() makes the target of an       *)
(* assignment and atos() a pointer (finalcode.c 435).                      *)
Labels(f) == {code[f][n].label : n \in {m \in DOMAIN code[f] : code[f][m].op = "D_LABEL"}}
Jumps(f) == {n \in DOMAIN code[f] : code[f][n].op \in {"O_GOTO", "O_BIF"}}
GccAccepts ==
    \A f \in DOMAIN code :
       /\ \A l \in Labels(f) : Cardinality(Targets(f, l)) = 1
       /\ \A n \in Jumps(f) : code[f][n].label \in Labels(f)
       /\ \A n \in DOMAIN code[f] :
             /\ NoAddress \notin Operands(code[f][n])
             /\ code[f][n].op = "O_PARM" => code[f][n].dest.type # "F64_LIT_NP"
       /\ \A n \in DOMAIN code[f] :
             /\ code[f][n].op \in {"D_PROC", "D_GLOB"} <=> n = 1
             /\ code[f][n].op = "D_END" <=> n = Len(code[f])

(* The sizes of the arrays of a function.                                  *)
IsProcedure(f) == code[f][1].op = "D_PROC"
LocalSize(f) == IF IsProcedure(f) THEN code[f][1].src1.offset ELSE 0
LocparamsSize(f) == IF IsProcedure(f) THEN MaxArgc ELSE 0

(* The parameters that are passed when the n-th instruction of f is        *)
(* reached along the text: since the last call.                            *)
Passed(f, n) ==
    {m \in 1 .. n - 1 : code[f][m].op = "O_PARM" /\ \A k \in m .. n - 1 : code[f][k].op # "O_CALL"}
Pending(f, n) == Cardinality(Passed(f, n))

(* The layout of the frames (genlocal in tac.c 138-144, iter_args in       *)
(* intercode.c 824-860, finalcode.c 530-548): every address a function     *)
(* names is in an array that is large enough, the parameters have the      *)
(* first slots, no more of them are ever pending than the largest arity of *)
(* any function, and no jump leads past one.                               *)
AddressesFit(f) ==
    \A n \in DOMAIN code[f] : \A a \in Addresses(code[f][n]) : \A b \in {a} \cup Indices(a) :
       /\ b.region = "local" => b.offset \in 0 .. LocalSize(f) - 1
       /\ b.region = "global" => b.offset \in 0 .. GlobalSize(Programs[program].globals) - 1
ParametersFit(f) ==
    /\ Arity(f) <= LocalSize(f)
    /\ \A n \in DOMAIN code[f] :
          /\ code[f][n].op = "O_PARM" => Pending(f, n) < LocparamsSize(f)
          /\ code[f][n].op = "O_CALL" =>
                /\ IsProcedure(f)
                /\ code[f][n].name \in {"println"} \cup DOMAIN code
    /\ \A n \in Jumps(f) : \A t \in Targets(f, code[f][n].label) :
          Pending(f, t) = Pending(f, n)
LaidOut ==
    /\ {"main", InitGlobals} \subseteq DOMAIN code
    /\ Arity("main") = 0 /\ Arity(InitGlobals) = 0
    /\ \A f \in DOMAIN code :
          /\ code[f] # <<>> /\ code[f] \in Seq({code[f][n] : n \in DOMAIN code[f]})
          /\ IsProcedure(f) => f \in DOMAIN Functions /\ LocalSize(f) \in Nat
          /\ AddressesFit(f)
          /\ ParametersFit(f)

(* The machine with such code: what Compiler gives it is one of them.      *)
MachineSpec == Loaded /\ GccAccepts /\ LaidOut /\ [][Next]_vars

-----------------------------------------------------------------------------
(* What it does with the code.                                             *)

(* Types: pc is at an instruction of the function, and what the            *)
(* instruction names is in the arrays that finalcode.c 433-436, 530-548    *)
(* and 565-691 declare and index: every slot, the next parameter, and for  *)
(* the head of a procedure the parameters in the caller's block.           *)
TypeOK ==
    /\ status \in {"running", "done", "trap"}
    /\ \A n \in DOMAIN stack : stack[n].pc \in DOMAIN code[stack[n].name]
    /\ status = "running" =>
          /\ stack # <<>>
          /\ \A a \in Addresses(Current) : \A b \in {a} \cup Indices(a) :
                /\ b.region = "local" => b.offset \in DOMAIN Top.local
                /\ b.region = "global" => b.offset \in DOMAIN global
          /\ Current.op = "O_PARM" => Top.paroff \in DOMAIN Top.locparams
          /\ Current.op = "D_PROC" => 0 .. Arity(Top.name) - 1 \subseteq DOMAIN Top.par

(* The counter paroff, which O_PARM and the line behind a call change at   *)
(* run time (finalcode.c 436, 464), is in every active function what the   *)
(* text says: the parameters passed since the last call, whichever way the *)
(* instruction was reached.                                                *)
ParametersCounted ==
    \A n \in DOMAIN stack : stack[n].paroff = Pending(stack[n].name, stack[n].pc)
=============================================================================
