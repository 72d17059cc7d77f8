--------------------------------- MODULE Tac --------------------------------
(***************************************************************************)
(* tac.c: addresses and three-address instructions, and the size of the    *)
(* global region: what intercode.c hands to finalcode.c.                   *)
(***************************************************************************)
EXTENDS Integers, Sequences, SequencesExt

Label(attribute, p) == [attribute |-> attribute, node |-> p]
NoLabel == Label("none", <<>>)

(* An address and the type finalcode.c reads it with: "I64" for a number   *)
(* (a boolean, a string), "F64" for a pointer to a float, "F64_LIT_NP" for *)
(* the float itself, "I64[]" and "F64[]" for a pointer to the elements.    *)
(* index is the address of an index that is not immediate, if any.         *)
Address(region, offset, type) ==
    [region |-> region, offset |-> offset, type |-> type, index |-> <<>>]
NoAddress == Address("none", 0, "I64")
Constant(v) == Address("const", v, "I64")

(* gen(); an instruction list is a sequence and append() is \o.            *)
Instr(op, dest, src1, src2) ==
    [op |-> op, dest |-> dest, src1 |-> src1, src2 |-> src2,
     label |-> NoLabel, name |-> ""]
Place(l) == [Instr("D_LABEL", NoAddress, NoAddress, NoAddress) EXCEPT !.label = l]
Goto(l) == [Instr("O_GOTO", NoAddress, NoAddress, NoAddress) EXCEPT !.label = l]
BranchIf(a, l) == [Instr("O_BIF", a, NoAddress, NoAddress) EXCEPT !.label = l]
Move(to, from) == Instr("O_ASN", to, from, NoAddress)
Point(to, at) == Instr("O_ADDR", to, at, NoAddress)
Parm(a) == Instr("O_PARM", a, NoAddress, NoAddress)
Call(f, a) == [Instr("O_CALL", a, NoAddress, NoAddress) EXCEPT !.name = f]
Ret(a) == Instr("O_RET", a, NoAddress, NoAddress)

-----------------------------------------------------------------------------
(* The function that assigns the globals.                                  *)
InitGlobals == "__fec_init_glb__"

(* The slots of the global region; an array's pointer has one of its own.  *)
IsArray(g) == "values" \in DOMAIN g
Size(g) == IF IsArray(g) THEN Len(g.values) + 1 ELSE 1
GlobalSize(globals) == FoldLeft(LAMBDA n, g : n + Size(g), 0, globals)
=============================================================================
