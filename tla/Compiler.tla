------------------------------ MODULE Compiler -----------------------------
(***************************************************************************)
(* The generated code against the source program: the machine of           *)
(* finalcode.c runs what intercode.c made of each of Programs, beside the  *)
(* meaning Source gives the program.                                       *)
(***************************************************************************)
EXTENDS Machine, InterCode

CONSTANT Fuel  \* the calls and loop turns of the longest of Programs

S == INSTANCE Source

(* codegen() gets the code of intermediate_code().                         *)
Init == Loaded /\ code = IntermediateCode(Programs[program])
Spec == Init /\ [][Next]_vars
FairSpec == Spec /\ WF_vars(Work)

(* A compiled program prints what the source program prints, in that       *)
(* order, and ends as it does: through branches that && and || cut short,  *)
(* nested loops, calls in arguments, returns from inside loops and         *)
(* divisions by zero (intercode.c 209-231, 396-443, 575-665).              *)
RunsAsWritten ==
    status # "running" => [out |-> out, status |-> status] = S!Run(Programs[program], Fuel)

(* The frames hold what the code names (intercode.c 801-860, tac.c         *)
(* 138-144): the slots of all blocks, temporaries and items are counted,   *)
(* nested calls leave no more parameters pending than locparams has room   *)
(* for, and no branch leaves a call half prepared.  (The code never        *)
(* changes: it is looked at before the first step.)                        *)
CodeFits == Loaded => LaidOut

(* No instruction reads an element of `local`, `par` or `global` that      *)
(* nothing has assigned, no index of an array leaves it, and no parameter  *)
(* is written behind locparams.                                            *)
Defined == ~ Undefined

(* A source program that ends is compiled into one that ends.              *)
Terminates == status = "running" ~> status # "running"
=============================================================================
